--------------------------- MODULE MCStorageScan ---------------------------
(***************************************************************************)
(* A volume with one directory and a file in it.                           *)
(***************************************************************************)
EXTENDS StorageScan

Tree == [n \in {"directory", "file"} |-> IF n = "file" THEN "directory" ELSE "volume"]
=============================================================================
