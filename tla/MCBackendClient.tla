-------------------------- MODULE MCBackendClient --------------------------
(***************************************************************************)
(* The main window with two calls and the storage analyzer with one.       *)
(***************************************************************************)
EXTENDS BackendClient

Windows == {"main", "analyzer"}
MCCalls == {<<"main", "call", 1>>, <<"main", "call", 2>>, <<"analyzer", "call", 1>>}
MCHandshakes == {<<k[1], "handshake", k[3]>> : k \in MCCalls}
=============================================================================
