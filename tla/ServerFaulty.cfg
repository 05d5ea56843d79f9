\* Waits may end without a signal: what the kitchen gets to all the same under
\* fair scheduling, as long as no freed node is allocated again.
SPECIFICATION FairSpec
CONSTANTS
  c1 = c1  c2 = c2  c3 = c3
  k1 = k1  k2 = k2
  n1 = n1  n2 = n2  n3 = n3
  bigmac = bigmac
  Null = Null
  Customers <- MCCustomers2
  Kitchens <- MCKitchen
  Nodes <- MCNodes2
  Burgers <- MCBurger
  CustomerMax = 2
  FirstBinds = FALSE
  SpuriousWakeups = TRUE
  Reuse = FALSE
PROPERTIES
  QueuedIsCooked
  KitchensClose
