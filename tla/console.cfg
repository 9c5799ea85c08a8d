SPECIFICATION ConsoleSpec
CONSTANTS
  gui = gui  field = field
  None = None  NoEvent = NoEvent  Unknown = Unknown
  Quote = "q"  Break = "b"
  Delegates <- MCDelegates
  KeyCodes <- MCKeyCodes
  Inputs <- MCInputs
  Logical <- MCLogical
  Registrations <- MCRegistrations
  LogCapacity = 2
  Toggled <- MCToggled  Failed <- MCFailed
  Sizes <- MCSizes
  Width <- MCWidth
  Kern <- MCKern
  LineHeight = 2  LineGap = 1
INVARIANTS ShownMeansLocked
PROPERTIES TextsSound SubmittedRuns
