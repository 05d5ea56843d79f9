\* All trees of up to three entries, with up to two failing calls.
SPECIFICATION Spec
CONSTANTS
  Entries <- MCEntries
  Kinds <- MCKinds
  ArgumentLists <- MCArguments
  MAX_DIR = 2
  MaxFaults = 2
INVARIANTS
  TypeOK
  SummaryCountsTheTree
  SizesAreThere
  ListedInOrder
  StreamsOfThePath
