\* Three slots and two rounds of messages of three parts, with and without the barrier.
SPECIFICATION FairSpec
CONSTANTS
  MAX_MESSAGES = 3
  MSG_LENGTH = 3
  MaxTyped = 6
INVARIANTS
  TypeOK
  FlagsCountMessages
  PrintedInOrder
PROPERTIES
  WrongOnlyWhileCopied
  EveryMessageIsPrinted
