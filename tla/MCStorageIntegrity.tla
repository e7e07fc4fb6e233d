------------------------- MODULE MCStorageIntegrity -------------------------
(* Small instances of StorageIntegrity: every other version has a bucket    *)
(* besides the index and the checksum index.                                *)
EXTENDS StorageIntegrity

EveryOther ==
  [v \in Versions |-> IF v % 2 = 0 THEN {"index", "checksum"} ELSE {"index", "checksum", "bucket"}]
=============================================================================
