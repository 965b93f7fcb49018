---------------------------- MODULE MCTransaction ----------------------------
(***************************************************************************)
(* Two registry changes, the second with a live mouse parameter, one       *)
(* Ethernet property, and operations that together reach every stage.      *)
(***************************************************************************)
EXTENDS Transaction

\* Max: registry, mouse, power scheme and Ethernet.
Maximum == [kind |-> "profile", keys |-> {1, 2}, power |-> "plan", props |-> Props]

\* A mouse tweak, an Ethernet tweak, the power-plan tweak, a power-<setting> tweak.
MouseTweak == [kind |-> "tweak", keys |-> {2}, power |-> "none", props |-> {}]
EthernetTweak == [kind |-> "tweak", keys |-> {}, power |-> "none", props |-> Props]
PlanTweak == [kind |-> "tweak", keys |-> {}, power |-> "plan", props |-> {}]
SettingTweak == [kind |-> "tweak", keys |-> {}, power |-> "setting", props |-> {}]

\* The checkpoint of the Max profile.
Checkpoint == [Maximum EXCEPT !.kind = "checkpoint"]

MostOperations == {Maximum, MouseTweak, EthernetTweak, Checkpoint}
SettingOnly == {SettingTweak}
CheckpointAndPlan == {Checkpoint, PlanTweak}
=============================================================================
