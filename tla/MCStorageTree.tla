--------------------------- MODULE MCStorageTree ---------------------------
(***************************************************************************)
(* A root with a file, a link and two directories, one of them with a file *)
(* and a directory with two files.  Two files have the same size, and the  *)
(* sizes of all exceed the largest integer.                                *)
(***************************************************************************)
EXTENDS StorageTree

Tree == 0 .. 8
ParentOfNode == <<0, 0, 0, 0, 1, 1, 6, 6>>
KindOfNode == [n \in Tree |-> CASE n \in {0, 1, 2, 6} -> "directory"
                                [] n = 3 -> "link"
                                [] OTHER -> "file"]
SizeOfNode == [n \in Tree |-> CASE n = 4 -> 2 [] n = 5 -> 3 [] n = 7 -> 3 [] n = 8 -> 1
                                [] OTHER -> 0]
ExtensionOfNode == [n \in Tree |-> CASE n = 4 -> 1 [] n = 5 -> 9 [] n = 7 -> 2 [] OTHER -> 1]
=============================================================================
