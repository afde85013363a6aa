\* Four threads, three of them started once the first has the context.
CONSTANTS
  Thread = {main, t1, t2, t3}
  First = main
  Concurrent = FALSE
  None = None
SPECIFICATION Spec
INVARIANTS
  OnlyContext
  ContextMeansLive
PROPERTY
  InitOnce
