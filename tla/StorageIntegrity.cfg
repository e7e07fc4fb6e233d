SPECIFICATION Spec
CONSTANTS
  Files = {"index", "checksum", "bucket"}
  FilesOf <- EveryOther
  MaxVersion = 2
  MaxErrors = 1
  Nil = Nil
  Torn = Torn
  Guard = Guard
INVARIANTS
  LoadedIsCurrent
  NeverCorrupted
CHECK_DEADLOCK FALSE
