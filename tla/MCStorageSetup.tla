--------------------------- MODULE MCStorageSetup ---------------------------
(* Instances of StorageSetup for TLC. *)
EXTENDS StorageSetup
=============================================================================
