CONSTANTS
  c1 = c1
  c2 = c2
  c3 = c3
  Channel = {c1, c2, c3}
  fd <- fdOf
  NULL = NULL
  kInitEventListSize = 1
  Conditions = {"IN", "HUP"}
SPECIFICATION Spec
INVARIANTS
  BooksAgree
PROPERTIES
  ImplementsPoller
  EveryReadyReported
