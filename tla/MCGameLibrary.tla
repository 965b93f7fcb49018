--------------------------- MODULE MCGameLibrary ---------------------------
(***************************************************************************)
(* Four paths, two of which share an ID, and room for two games.           *)
(***************************************************************************)
EXTENDS GameLibrary, TLC

Colliding == "a" :> 1 @@ "b" :> 1 @@ "c" :> 2 @@ "d" :> 3

=============================================================================
