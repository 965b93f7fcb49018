---------------------------- MODULE DurableRecord ----------------------------
(***************************************************************************)
(* What the transaction engine relies on when it calls saveBackup: the     *)
(* journal of one operation is a single durable value.  A save either      *)
(* replaces it as a whole or leaves the previous one, and whatever stops   *)
(* the program a later process still reads one of the two.                 *)
(***************************************************************************)
CONSTANTS Digests,  \* the contents a journal can have
          None      \* no journal has been written yet

VARIABLES value,    \* what a process that opens the journal reads
          proposal  \* the content a save under way wants to store, or None

vars == <<value, proposal>>

Init == value = None /\ proposal = None

\* A save starts.
Propose == /\ proposal = None
           /\ proposal' \in Digests
           /\ UNCHANGED value

\* The new content takes the place of the old one in a single step.
Replace == /\ proposal # None
           /\ value' = proposal
           /\ UNCHANGED proposal

\* The save is over: it succeeded, failed, or its process is gone.
Return == /\ proposal # None
          /\ proposal' = None
          /\ UNCHANGED value

Next == Propose \/ Replace \/ Return

Spec == Init /\ [][Next]_vars
=============================================================================
