SPECIFICATION Spec
CONSTANTS
  w1 = w1  w2 = w2  NoPhase = NoPhase
  Windows <- MCWindows
  InitWindows <- MCInitWindows
  Primary <- MCPrimary
  Platforms <- MCPlatforms
  MaxResumed = 2
  MaxInputs = 2
INVARIANTS CursorAsAsked
PROPERTIES DesktopImplementsLifecycle StopsWithPrimary
