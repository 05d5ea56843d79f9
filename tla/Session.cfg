\* One customer and its serving thread, lines of three and four bytes, and a
\* buffer that has to grow twice to hold the longest line and its '\0'.
SPECIFICATION Spec
CONSTANTS
  Client = Client
  Server = Server
  NoBurger = NoBurger
  bigmac = bigmac  cheese = cheese
  Burgers <- MCBurgers
  BufSize = 2
INVARIANTS
  TypeOK
  ServedAsOrdered
  SigpipeIsNarrow
PROPERTIES
  KeepsLines
  HangsUp
CHECK_DEADLOCK FALSE
