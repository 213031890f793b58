------------------------------- MODULE MCOidc -------------------------------
(* Constants of Oidc for TLC. *)
EXTENDS Oidc

CONSTANTS app1, app2

OneApp  == {app1}
TwoApps == {app1, app2}

AllCalls == HttpCalls

OnlyTheRead == {"readVault"}

AllLate   == {"create", "delete", "writeVault"}
LateNew   == {"create"}
AllLosses == {"client", "credentials"}
NoLosses  == {}
=============================================================================
