----------------------------- MODULE MCScaffold -----------------------------
(* Constants of Scaffold for TLC: a team that tries twice, another team    *)
(* that picks the same name, and an unrelated application.                 *)
EXTENDS Scaffold

CONSTANTS r1, r2, r3, app1, app2, team1, team2

AllRuns  == {r1, r2, r3}
AllApps  == {app1, app2}
AllTeams == {team1, team2}

Names == [r \in AllRuns |-> app1]
Owners == [r \in AllRuns |-> IF r = r3 THEN team2 ELSE team1]
=============================================================================
