------------------------------ MODULE BackupSeal ------------------------------
(***************************************************************************)
(* One recovery file and its seal.  saveBackup writes a temporary file,    *)
(* adds the digest of the new content to the seal in HKLM                  *)
(* (prepareBackupSeal), renames the file into place and reduces the seal   *)
(* to the new digest (commitBackupSeal).  Any of the four steps can fail,  *)
(* and the process can be killed between any two of them.  A later process *)
(* opens the file only if its digest is in the seal (verifyBackupSeal).    *)
(*                                                                         *)
(* Contents are represented by their digests.  The operation mutex admits  *)
(* one writer at a time, so one `writer' describes whoever holds it.       *)
(***************************************************************************)
EXTENDS Naturals, Sequences

CONSTANTS Digests,         \* digests of the contents a journal goes through
          None,            \* the file does not exist
          MaxInterrupted   \* bound: saves stopped between seal and rename

ASSUME NoneAssumption == None \notin Digests
ASSUME BoundAssumption == MaxInterrupted \in Nat

VARIABLES file,         \* digest of the file on disk, or None
          seal,         \* the REG_MULTI_SZ value: a sequence of digests
          writer,       \* progress of the process that owns the journal
          digest,       \* digest of the content being saved, or None
          established,  \* this process has a journal it saved or loaded
          interrupted   \* history: saves stopped after the seal was prepared
                        \* and before the rename, since the last rename

vars == <<file, seal, writer, digest, established, interrupted>>

Phases == {"none", "open", "temporary", "prepared", "renamed"}

TypeOK == /\ file \in Digests \cup {None}
          /\ seal \in Seq(Digests) /\ Len(seal) <= 2
          /\ writer \in Phases
          /\ digest \in Digests \cup {None}
          /\ established \in BOOLEAN
          /\ interrupted \in Nat

Init == /\ file = None
        /\ seal = <<>>
        /\ writer = "none"
        /\ digest = None
        /\ established = FALSE
        /\ interrupted = 0

-----------------------------------------------------------------------------
(* The seal                                                                *)

\* verifyBackupSeal: any value of the seal may match.
Verified(d) == \E i \in DOMAIN seal : seal[i] = d

\* The first value of the seal that differs from d, as a sequence.
FirstOther(d) ==
    LET others == {i \in DOMAIN seal : seal[i] # d}
    IN  IF others = {}
        THEN <<>>
        ELSE <<seal[CHOOSE i \in others : \A j \in others : i <= j]>>

\* A seal of the new digest alone, as if the old content needed no seal.
PreparedSealForgetsOld(d) == <<d>>

\* prepareBackupSeal: the new digest, then the first other value.
PreparedSeal(d) == IF FirstOther(d) = <<>> THEN <<d>> ELSE <<d, FirstOther(d)[1]>>

-----------------------------------------------------------------------------
(* The owner of the journal                                                *)

\* A new operation: its ID is fresh, nothing is on disk.
Create == /\ writer = "none"
          /\ file = None
          /\ seal = <<>>
          /\ writer' = "open"
          /\ UNCHANGED <<file, seal, digest, established, interrupted>>

\* A restore opens the journal; loadBackupFile refuses an unsealed content.
Load == /\ writer = "none"
        /\ file # None
        /\ Verified(file)
        /\ writer' = "open"
        /\ established' = TRUE
        /\ UNCHANGED <<file, seal, digest, interrupted>>

\* The operation ends between two saves, with or without an error.
Finish == /\ writer = "open"
          /\ writer' = "none"
          /\ established' = FALSE
          /\ UNCHANGED <<file, seal, digest, interrupted>>

\* A save failed.  An operation that could not write its first journal
\* returns; a later save only adds to the errors and the operation goes on.
Abandon == /\ writer' = IF established THEN "open" ELSE "none"
           /\ digest' = None
           /\ UNCHANGED established

-----------------------------------------------------------------------------
(* saveBackup                                                              *)

WriteTemporary(d) == /\ writer = "open"
                     /\ writer' = "temporary"
                     /\ digest' = d
                     /\ UNCHANGED <<file, seal, established, interrupted>>

WriteTemporaryFails == /\ writer = "temporary"
                       /\ Abandon
                       /\ UNCHANGED <<file, seal, interrupted>>

Prepare == /\ writer = "temporary"
           /\ seal' = PreparedSeal(digest)
           /\ writer' = "prepared"
           /\ UNCHANGED <<file, digest, established, interrupted>>

\* The rename of the temporary file also starts the count of interruptions
\* afresh: the file is now the newest sealed content.
Rename == /\ writer = "prepared"
          /\ file' = digest
          /\ writer' = "renamed"
          /\ interrupted' = 0
          /\ UNCHANGED <<seal, digest, established>>

RenameFails == /\ writer = "prepared"
               /\ interrupted < MaxInterrupted
               /\ interrupted' = interrupted + 1
               /\ Abandon
               /\ UNCHANGED <<file, seal>>

\* commitBackupSeal run on the content the seal already held.
CommitKeepsSeal == /\ writer = "renamed"
                   /\ writer' = "open"
                   /\ seal' = IF FirstOther(digest) = <<>> THEN <<digest>>
                              ELSE FirstOther(digest)
                   /\ digest' = None
                   /\ established' = TRUE
                   /\ UNCHANGED <<file, interrupted>>

Commit == /\ writer = "renamed"
          /\ seal' = <<digest>>
          /\ writer' = "open"
          /\ digest' = None
          /\ established' = TRUE
          /\ UNCHANGED <<file, interrupted>>

CommitFails == /\ writer = "renamed"
               /\ Abandon
               /\ UNCHANGED <<file, seal, interrupted>>

\* The elevated process is killed.  A temporary file it leaves behind does
\* not match the name pattern of a journal and is never read.
Crash == /\ writer # "none"
         /\ writer = "prepared" => interrupted < MaxInterrupted
         /\ writer' = "none"
         /\ digest' = None
         /\ established' = FALSE
         /\ interrupted' = IF writer = "prepared" THEN interrupted + 1
                                                  ELSE interrupted
         /\ UNCHANGED <<file, seal>>

Next == \/ Create
        \/ Load
        \/ Finish
        \/ \E d \in Digests : WriteTemporary(d)
        \/ WriteTemporaryFails
        \/ Prepare
        \/ Rename
        \/ RenameFails
        \/ Commit
        \/ CommitFails
        \/ Crash

Spec == Init /\ [][Next]_vars

-----------------------------------------------------------------------------
(* Properties                                                              *)

\* A save that has prepared the seal and not renamed the file.
Exposed == IF writer = "prepared" THEN 1 ELSE 0

\* saveBackup / prepareBackupSeal: as long as at most one save has stopped
\* (or stands) between the seal and the rename, the content on disk is in the
\* seal, so that a restore after a crash can open its journal.
TrustedUnlessTwiceInterrupted ==
    file # None /\ interrupted + Exposed <= 1 => Verified(file)

\* The inductive form of the property above, by the progress of the writer.
SealInv ==
    /\ writer \in {"none", "open"} <=> digest = None
    /\ writer \in {"prepared", "renamed"} => seal # <<>> /\ seal[1] = digest
    /\ writer = "renamed" => file = digest /\ interrupted = 0
    /\ file # None /\ interrupted = 0 /\ writer # "prepared"
           => seal # <<>> /\ seal[1] = file
    /\ TrustedUnlessTwiceInterrupted

\* BOOSTERX-COVERAGE.md:11 promises a "SHA-256-sealed journal and retryable
\* rollback": with no writer under way, a journal on disk can be opened.
JournalStaysRetryable == writer = "none" /\ file # None => Verified(file)

\* saveBackup is one atomic replacement of a durable value.  Readers are kept
\* out by the operation mutex while a writer is under way, so the value is
\* read through the seal only when the file is not between seal and rename.
Lost == <<"lost">>

Record == INSTANCE DurableRecord WITH
    value <- IF file = None \/ writer = "prepared" \/ Verified(file)
             THEN file ELSE Lost,
    proposal <- digest

ImplementsDurableRecord == Record!Spec
=============================================================================
