------------------------------ MODULE Workload ------------------------------
(***************************************************************************)
(* What the AppDeployment controller builds from a spec                    *)
(* (internal/controller/resources.go): the pods, the Services in front of  *)
(* them and the NetworkPolicies around them, reduced to who listens where  *)
(* and who may call whom.  Volumes, resources and probes are left out, and *)
(* so is what the pods themselves may call.                                *)
(*                                                                         *)
(* A child is described by the spec it was built from.  The children of    *)
(* one application may have been built from different specs, for what      *)
(* exists is not updated: the operators take each of them separately.      *)
(***************************************************************************)
EXTENDS Naturals

(* Variant: the pods come before everything around them. *)
RankPodsEarly ==
  [statefulSet |-> 0, serviceAccount |-> 1, defaultDeny |-> 2, allowIngress |-> 3,
   allowDNS |-> 4, allowKeycloak |-> 5, allowVault |-> 6,
   fluentBit |-> 7, headless |-> 8, traffic |-> 9]

(* The children in the order Reconcile creates them. *)
Rank == [serviceAccount |-> 1, defaultDeny |-> 2, allowIngress |-> 3,
         allowDNS |-> 4, allowKeycloak |-> 5, allowVault |-> 6,
         fluentBit |-> 7, headless |-> 8, traffic |-> 9, statefulSet |-> 10]

AllKinds == DOMAIN Rank

PolicyKinds == {"defaultDeny", "allowIngress", "allowDNS", "allowKeycloak",
                "allowVault"}

(* The CRD's validation. *)
Ports == 1..65535

(* AppDeploymentSpec; the fields some child depends on. *)
SpecType(s) ==
  /\ DOMAIN s = {"appName", "oidc", "port", "replicas"}
  /\ s.oidc \in BOOLEAN
  /\ s.port \in Ports /\ s.replicas \in Nat

(* replicas, 0 meaning 1. *)
Replicas(s) == IF s.replicas = 0 THEN 1 ELSE s.replicas

-----------------------------------------------------------------------------
(* Containers: the port they listen on, the name it is declared under and  *)
(* the port on 127.0.0.1 they forward to (0: none).                        *)

ProxyPort == 4180

FluentBitPort == 2020

(* SERVER_PORT tells the application where to listen. *)
AppContainer(s) ==
  [name |-> "app", listens |-> s.port, portName |-> "http", upstream |-> 0]

(* oauth2-proxy. *)
ADCContainer(s) ==
  [name |-> "adc", listens |-> ProxyPort, portName |-> "proxy",
   upstream |-> s.port]

(* HTTP_Port of its configuration. *)
FluentBitContainer ==
  [name |-> "fluent-bit", listens |-> FluentBitPort, portName |-> "",
   upstream |-> 0]

Pod(s) == {AppContainer(s), FluentBitContainer}
            \cup (IF s.oidc THEN {ADCContainer(s)} ELSE {})

(* NetworkPolicies: the directions they isolate, the ports of the pods     *)
(* they open.  Three of them open a port elsewhere: DNS, Keycloak, Vault.  *)
Policy(types, ports) == [types |-> types, ports |-> ports]

AllowIngress(s) == Policy({"Ingress"}, {IF s.oidc THEN ProxyPort ELSE s.port})

PolicyOf(kind, s) ==
  CASE kind = "defaultDeny"  -> Policy({"Ingress", "Egress"}, {})
    [] kind = "allowIngress" -> AllowIngress(s)
    [] OTHER                 -> Policy({"Egress"}, {})

(* Services: the port of the pods they lead to, by name or by number. *)
HeadlessService == [name |-> "http", number |-> 0]

(* Variant: the port of the application, whatever is in front of it. *)
TrafficServiceByName(s) == HeadlessService

TrafficService(s) == IF s.oidc THEN [name |-> "", number |-> ProxyPort]
                               ELSE [name |-> "http", number |-> 0]

-----------------------------------------------------------------------------
(* What Kubernetes makes of them. *)

(* A pod no policy isolates takes everything; policies add up. *)
MayEnter(policies, port) ==
  LET isolating == {p \in policies : "Ingress" \in p.types} IN
  isolating # {} => \E p \in isolating : port \in p.ports

(* The containers other pods can open a connection to. *)
Exposed(pod, policies) == {c \in pod : MayEnter(policies, c.listens)}

(* The containers a request to the Service arrives at. *)
Served(service, pod, policies) ==
  {c \in Exposed(pod, policies) :
     IF service.name # "" THEN c.portName = service.name
                          ELSE c.listens = service.number}

(* The request gets to the application, directly or through the proxy. *)
AppServed(service, pod, policies) ==
  \E c \in Served(service, pod, policies), a \in pod :
     a.name = "app" /\ (c = a \/ c.upstream = a.listens)

(* Only the proxy can be reached from outside the pod. *)
Gated(pod, policies) == \A c \in Exposed(pod, policies) : c.name = "adc"

=============================================================================
