SPECIFICATION Spec
CONSTANTS
  d = d  own = own  r = r
  hu = hu  h1 = h1  o1 = o1
  None = None
  Threads <- MCThreads
  Handlers <- MCHandlers
  WeakHandlers <- MCWeakHandlers
  Onces <- MCOnces
  TickTypes <- MCTickTypes
  MaxTick = 3
  MaxLate = 1
  Driver = d
  Stoppers <- MCStoppers
  Owner = own
  Registrar <- MCRegistrar
  Unparker = hu
INVARIANTS EventsChain TicksInTime
PROPERTIES ImplementsLifecycle StopCompletes
