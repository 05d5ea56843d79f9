\* The three policies, while the data segment has room for what is asked.
SPECIFICATION Spec
CONSTANTS
  Chunk = 4
  Limit = 8
  n1 = n1  n2 = n2  n3 = n3
  Nodes <- MCNodes
  Nil = Nil
  Beyond = 9
  Requests <- MCRequests
  Policies <- MCPolicies
  Payload <- MCPayload
INVARIANTS
  TypeOK
  BlocksDisjoint
  Coherent
  NextFitOnBlock
  ListIsLinked
SYMMETRY Symmetry
CHECK_DEADLOCK FALSE
