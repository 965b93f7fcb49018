----------------------------- MODULE MCUpdater -----------------------------
(***************************************************************************)
(* Three processes, a release candidate, two releases of the channel and   *)
(* one of the next.                                                        *)
(***************************************************************************)
EXTENDS Updater

Version(minor, patch, prerelease) ==
  [major |-> 1, minor |-> minor, patch |-> patch, prerelease |-> prerelease]

Installed == Version(0, 5, FALSE)

Published == {Version(0, 5, TRUE), Installed, Version(0, 6, FALSE), Version(0, 7, FALSE),
              Version(1, 0, FALSE)}

Line == [major |-> 1, minor |-> 0]

=============================================================================
