--------------------------- MODULE MCStorageEngine --------------------------
(* StorageEngine for TLC: nothing ever leaves L1.                           *)
EXTENDS StorageEngine

TwoLevels == <<100, 100>>
=============================================================================
