\* Both programs, up to three threads and any file of up to seven bytes.
SPECIFICATION FairSpec
CONSTANTS
  MaxThreads = 3
  MaxSize = 7
INVARIANTS
  TypeOK
  CRCOfTheFile
  NoLostUpdate
PROPERTIES
  Finishes
