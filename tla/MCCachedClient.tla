--------------------------- MODULE MCCachedClient ---------------------------
(***************************************************************************)
(* Reads of three groups; two mutations that share reads, one of which     *)
(* changes more than it invalidates.                                       *)
(***************************************************************************)
EXTENDS CachedClient

MCReads == {<<"optimization", "audit">>, <<"startup", "list">>}
MCMutations == {<<"optimization", "restore">>, <<"startup", "set">>}
=============================================================================
