\* A burger gets ready between the look at is_ready and the wait.
SPECIFICATION FairSpec
CONSTANTS
  c1 = c1  c2 = c2  c3 = c3
  k1 = k1  k2 = k2
  n1 = n1  n2 = n2  n3 = n3
  bigmac = bigmac
  Null = Null
  Customers <- MCCustomer
  Kitchens <- MCKitchen
  Nodes <- MCNodes2
  Burgers <- MCBurger
  CustomerMax = 1
  FirstBinds = FALSE
  SpuriousWakeups = FALSE
  Reuse = FALSE
PROPERTIES
  ReadyIsHandedOver
