--------------------------- MODULE MCAppDeployment ---------------------------
(* Constants of AppDeployment for TLC. *)
EXTENDS AppDeployment

CONSTANTS app1, ns1, ns2

OneApp  == {app1}

Shop  == [namespace |-> ns1, name |-> "shop"]
Shop2 == [namespace |-> ns2, name |-> "shop"]

OneCR  == {Shop}
TwoCRs == {Shop, Shop2}

Proxied == [appName |-> app1, oidc |-> TRUE, port |-> 8080, replicas |-> 0]
Open  == [Proxied EXCEPT !.oidc = FALSE, !.replicas = 2]

ProxiedOnly     == {Proxied}
ProxiedAndOpen  == {Proxied, Open}

TrafficAndPods == {"traffic", "statefulSet"}
WithConfig == {"fluentBit", "statefulSet"}
Guarded    == {"allowIngress", "traffic", "statefulSet"}
JustPods   == {"statefulSet"}

AllUserActions == {"create", "recreate", "delete", "edit", "scale", "prune",
                   "config"}
Lifecycle      == {"create", "recreate", "delete"}
LifecycleConfig == Lifecycle \cup {"config"}
CreateOnly     == {"create"}
CreateDelete   == {"create", "delete"}
CreateEditDelete == CreateDelete \cup {"edit"}
CreateEdit     == {"create", "edit"}

ApiCalls == {"addFinalizer", "writeFailure", "ensure", "writeReady",
             "removeFinalizer"}
AllCalls == HttpCalls \cup ApiCalls

(* Every call but those that deregister a client. *)
NotTheCleanup == AllCalls \ {"token", "list", "delete"}

OnlyTheCleanup == {"delete"}
OnlyTheToken   == {"token"}
NoCalls        == {}

LateNew  == {"create"}
NoLate   == {}
AllLosses   == {"client", "credentials"}
LostClients == {"client"}
NoLosses == {}
=============================================================================
