\* The signal reaches the next owner of the node.
SPECIFICATION Spec
CONSTANTS
  c1 = c1  c2 = c2  c3 = c3
  k1 = k1  k2 = k2
  n1 = n1  n2 = n2  n3 = n3
  bigmac = bigmac
  Null = Null
  Customers <- MCCustomers2
  Kitchens <- MCKitchen
  Nodes <- MCNodes2
  Burgers <- MCBurger
  CustomerMax = 2
  FirstBinds = FALSE
  SpuriousWakeups = FALSE
  Reuse = TRUE
INVARIANTS
  WokenForOwnOrder
