\* Fresh memory for every order and no spurious wakeups: the list, the
\* kitchens and the promise to the customers.
SPECIFICATION Spec
CONSTANTS
  c1 = c1  c2 = c2  c3 = c3
  k1 = k1  k2 = k2
  n1 = n1  n2 = n2  n3 = n3
  bigmac = bigmac
  Null = Null
  Customers <- MCCustomers3
  Kitchens <- MCKitchens
  Nodes <- MCNodes3
  Burgers <- MCBurger
  CustomerMax = 2
  FirstBinds = TRUE
  SpuriousWakeups = FALSE
  Reuse = FALSE
INVARIANTS
  TypeOK
  SeatsAccounted
  ListWellFormed
  OrdersInOnePlace
  UnfinishedIsLive
  NobodyLeavesHungry
  ServedWereCounted
PROPERTIES
  KeepsPromise
SYMMETRY Symmetry3
