--------------------------- MODULE ResourceProofs ---------------------------
(* Theorems about what an AppDeployment owns: the children the controller  *)
(* builds from its spec, and what becomes of them in the cluster, whoever  *)
(* deletes, scales or collects one; and its Keycloak client, over          *)
(* registrations, cleanups and restarts.                                   *)
EXTENDS AppDeploymentProofs

-----------------------------------------------------------------------------
(* What is built from one spec. *)

(* The policies of these kinds. *)
Policies(K, s) == {PolicyOf(k, s) : k \in K}

(* Only allow-ingress opens a port of the pods: the port of the proxy or,  *)
(* without one, of the application.                                        *)
LEMMA OneOpenPort ==
  ASSUME NEW s, NEW K \in SUBSET PolicyKinds, "allowIngress" \in K, NEW port
  PROVE  MayEnter(Policies(K, s), port) <=> port = IF s.oidc THEN ProxyPort ELSE s.port
<1> DEFINE open == IF s.oidc THEN ProxyPort ELSE s.port
           deny == Policy({"Ingress", "Egress"}, {})
           allow == Policy({"Ingress"}, {open})
           egress == Policy({"Egress"}, {})
<1>1. /\ PolicyOf("defaultDeny", s) = deny
      /\ PolicyOf("allowIngress", s) = allow
      /\ \A k \in PolicyKinds \ {"defaultDeny", "allowIngress"} :
           PolicyOf(k, s) = egress
  BY DEF PolicyOf, AllowIngress, PolicyKinds
<1>2. /\ Policies(K, s) \subseteq {deny, allow, egress}
      /\ allow \in Policies(K, s)
  BY <1>1 DEF Policies, PolicyKinds
<1>3. /\ "Ingress" \in deny.types /\ deny.ports = {}
      /\ "Ingress" \in allow.types /\ allow.ports = {open}
      /\ "Ingress" \notin egress.types
  BY DEF Policy
<1> HIDE DEF open, deny, allow, egress
<1>4. /\ allow \in {p \in Policies(K, s) : "Ingress" \in p.types}
      /\ {p \in Policies(K, s) : "Ingress" \in p.types} \subseteq {deny, allow}
  BY <1>2, <1>3
<1>5. MayEnter(Policies(K, s), port) <=> port = open
  BY <1>3, <1>4 DEF MayEnter
<1> QED
  BY <1>5 DEF open

(* The containers as the Services and policies see them. *)
LEMMA Containers ==
  ASSUME NEW s, SpecType(s)
  PROVE  /\ AppContainer(s).name = "app" /\ AppContainer(s).listens = s.port
         /\ AppContainer(s).portName = "http"
         /\ ADCContainer(s).name = "adc" /\ ADCContainer(s).listens = ProxyPort
         /\ ADCContainer(s).upstream = s.port
         /\ FluentBitContainer.listens = FluentBitPort
         /\ ProxyPort # FluentBitPort
  BY DEF AppContainer, ADCContainer, FluentBitContainer, ProxyPort, FluentBitPort

(* An application whose children are all built from one spec is served     *)
(* through its Service, as soon as allow-ingress is there, with or without *)
(* the other policies.  With OIDC, and on a port of its own, the only      *)
(* container that can be reached is the proxy; without it, the application.*)
THEOREM OneSpecIsServedAndGated ==
  ASSUME NEW s, SpecType(s), NEW K \in SUBSET PolicyKinds, "allowIngress" \in K
  PROVE  /\ AppServed(TrafficService(s), Pod(s), Policies(K, s))
         /\ s.oidc /\ s.port # ProxyPort => Gated(Pod(s), Policies(K, s))
         /\ ~s.oidc /\ s.port # FluentBitPort =>
              Exposed(Pod(s), Policies(K, s)) = {AppContainer(s)}
<1>1. CASE s.oidc
  <2>1. Pod(s) = {AppContainer(s), FluentBitContainer, ADCContainer(s)}
    BY <1>1 DEF Pod
  <2>2. /\ ADCContainer(s) \in Exposed(Pod(s), Policies(K, s))
        /\ s.port # ProxyPort => Exposed(Pod(s), Policies(K, s)) = {ADCContainer(s)}
    BY <1>1, <2>1, OneOpenPort, Containers DEF Exposed
  <2>3. /\ TrafficService(s).name = "" /\ TrafficService(s).number = ProxyPort
    BY <1>1 DEF TrafficService
  <2>4. ADCContainer(s) \in Served(TrafficService(s), Pod(s), Policies(K, s))
    BY <2>2, <2>3, Containers DEF Served
  <2>5. AppServed(TrafficService(s), Pod(s), Policies(K, s))
    BY <2>1, <2>4, Containers DEF AppServed
  <2>6. s.port # ProxyPort => Gated(Pod(s), Policies(K, s))
    BY <2>2, Containers DEF Gated
  <2> QED
    BY <1>1, <2>5, <2>6
<1>2. CASE ~s.oidc
  <2>1. Pod(s) = {AppContainer(s), FluentBitContainer}
    BY <1>2 DEF Pod
  <2>2. /\ AppContainer(s) \in Exposed(Pod(s), Policies(K, s))
        /\ s.port # FluentBitPort => Exposed(Pod(s), Policies(K, s)) = {AppContainer(s)}
    BY <1>2, <2>1, OneOpenPort, Containers DEF Exposed
  <2>3. TrafficService(s).name = "http"
    BY <1>2 DEF TrafficService
  <2>4. AppContainer(s) \in Served(TrafficService(s), Pod(s), Policies(K, s))
    BY <2>2, <2>3, Containers DEF Served
  <2>5. AppServed(TrafficService(s), Pod(s), Policies(K, s))
    BY <2>1, <2>4, Containers DEF AppServed
  <2> QED
    BY <1>2, <2>2, <2>5
<1> QED
  BY <1>1, <1>2

-----------------------------------------------------------------------------
(* Who writes a child. *)

Resized(c, s) == [c EXCEPT !.spec.replicas = Replicas(s)]

(* c is what takes the place of the child under k. *)
WritesChild(k, c) ==
  \/ child[k] # NoChild /\ c = NoChild /\ (Collect(k) \/ Prune(k))
  \/ child[k] # NoChild /\ \E s \in Specs : Scale(k, s) /\ c = Resized(child[k], s)
  \/ /\ EnsureStep /\ pc \in Kinds /\ k = ChildKey(key, obj.spec, pc)
     /\ \/ child[k] = NoChild /\ c = Child(key, obj, pc)
        \/ pc = "statefulSet" /\ child[k] # NoChild /\ c = Resized(child[k], obj.spec)

LEMMA EnsureWrites ==
  ASSUME ControlInv, EnsureStep
  PROVE  LET k == ChildKey(key, obj.spec, pc) IN
         /\ k \in ChildKeys /\ pc \in Kinds /\ obj \in Objects /\ key \in CRs
         /\ \/ UNCHANGED <<child, childEvents>>
            \/ \E c : StoreChild(k, c) /\ WritesChild(k, c)
         /\ pc' # "idle" =>
              \/ /\ UNCHANGED <<child, childEvents>>
                 /\ childCache[k] # NoChild
                 /\ pc = "statefulSet" =>
                      childCache[k].spec.replicas = Replicas(obj.spec)
              \/ \E c \in Children :
                   /\ StoreChild(k, c)
                   /\ pc = "statefulSet" => c.spec.replicas = Replicas(obj.spec)
<1> DEFINE k == ChildKey(key, obj.spec, pc)
           new == Child(key, obj, pc)
<1>1. /\ pc \in Kinds /\ key \in CRs /\ obj \in Objects /\ obj.spec \in Specs
  BY ObjectFields, KindsAssumption
     DEF EnsureStep, EnsureChild, EnsureStatefulSet, ControlInv, WorkerInv, WorkerType
<1>2. /\ k \in ChildKeys /\ new \in Children
      /\ pc = "statefulSet" => new.spec.replicas = Replicas(obj.spec)
  BY <1>1, ChildKeyType, ChildType
<1>3. ASSUME NEW out \in Outcomes, EnsureChild(out)
      PROVE  /\ pc # "statefulSet"
             /\ \/ UNCHANGED <<child, childEvents>>
                \/ child[k] = NoChild /\ StoreChild(k, new)
             /\ pc' # "idle" =>
                  \/ UNCHANGED <<child, childEvents>> /\ childCache[k] # NoChild
                  \/ StoreChild(k, new)
  BY <1>3 DEF EnsureChild, Requeue, Return, Takes
<1>4. ASSUME NEW out \in Outcomes, EnsureStatefulSet(out)
      PROVE  /\ pc = "statefulSet"
             /\ \/ UNCHANGED <<child, childEvents>>
                \/ child[k] = NoChild /\ StoreChild(k, new)
                \/ child[k] # NoChild /\ StoreChild(k, Resized(child[k], obj.spec))
             /\ pc' # "idle" =>
                  \/ /\ UNCHANGED <<child, childEvents>>
                     /\ childCache[k] # NoChild
                     /\ childCache[k].spec.replicas = Replicas(obj.spec)
                  \/ StoreChild(k, new)
                  \/ child[k] # NoChild /\ StoreChild(k, Resized(child[k], obj.spec))
  <2>1. pc = "statefulSet"
    BY <1>4 DEF EnsureStatefulSet
  <2>2. childEvents[k] # {} \/ childCache[k] = child[k]
    BY <1>2 DEF ControlInv, ClusterInv
  <2>3. new.spec.replicas = Replicas(obj.spec) /\ new = Child(key, obj, "statefulSet")
        /\ k = ChildKey(key, obj.spec, "statefulSet")
    BY <1>2, <2>1
  <2> HIDE DEF new, k
  <2> QED
    BY <1>4, <2>1, <2>2, <2>3 DEF EnsureStatefulSet, Requeue, Return, Takes, Resized
<1> HIDE DEF k, new
<1>5. child[k] # NoChild =>
        /\ Resized(child[k], obj.spec) \in Children
        /\ Resized(child[k], obj.spec).spec.replicas = Replicas(obj.spec)
  <2>1. child[k] # NoChild => child[k] \in Children
    BY <1>2 DEF ControlInv, ClusterInv, ClusterType
  <2> QED
    BY <1>1, <2>1, ScaledType DEF Resized
<1>6. UNCHANGED <<child, childEvents>> \/ \E c : StoreChild(k, c) /\ WritesChild(k, c)
  BY <1>1, <1>3, <1>4 DEF EnsureStep, WritesChild, k, new
<1>7. pc' # "idle" =>
        \/ /\ UNCHANGED <<child, childEvents>>
           /\ childCache[k] # NoChild
           /\ pc = "statefulSet" => childCache[k].spec.replicas = Replicas(obj.spec)
        \/ \E c \in Children :
             /\ StoreChild(k, c)
             /\ pc = "statefulSet" => c.spec.replicas = Replicas(obj.spec)
  BY <1>2, <1>3, <1>4, <1>5 DEF EnsureStep
<1> QED
  BY <1>1, <1>2, <1>6, <1>7 DEF k

LEMMA WhoWritesChild ==
  ASSUME ControlInv, Next, NEW k \in ChildKeys
  PROVE  \/ UNCHANGED <<child[k], childEvents[k]>>
         \/ UNCHANGED child[k] /\ (ChildSync(k) \/ Restart)
         \/ \E c : StoreChild(k, c) /\ WritesChild(k, c)
<1>1. /\ DOMAIN child = ChildKeys /\ DOMAIN childEvents = ChildKeys
  BY DEF ControlInv, ClusterInv, ClusterType
<1>2. ASSUME NEW j \in ChildKeys, NEW c, StoreChild(j, c), j # k
      PROVE  UNCHANGED <<child[k], childEvents[k]>>
  BY <1>1, <1>2 DEF StoreChild
<1>3. CASE EnsureStep
  BY <1>2, <1>3, EnsureWrites
<1>4. ASSUME NEW out \in Outcomes, Step(out), ~EnsureStep
      PROVE  UNCHANGED <<child, childEvents>>
  BY <1>4 DEF Step, EnsureStep, OidcRequest, AddFinalizer, WriteFailure, WriteReady,
     RemoveFinalizer, cluster, caches
<1>5. ASSUME NEW j \in ChildKeys, ChildSync(j) \/ Collect(j)
      PROVE  \/ UNCHANGED <<child[k], childEvents[k]>>
             \/ UNCHANGED child[k] /\ ChildSync(k)
             \/ \E c : StoreChild(k, c) /\ WritesChild(k, c)
  <2>1. CASE ChildSync(j)
    BY <1>1, <2>1 DEF ChildSync, cluster
  <2>2. CASE Collect(j) /\ j = k
    BY <2>2 DEF Collect, Garbage, WritesChild
  <2>3. CASE Collect(j) /\ j # k
    BY <1>2, <2>3 DEF Collect
  <2> QED
    BY <1>5, <2>1, <2>2, <2>3
<1>6. CASE Users
  <2>1. ASSUME NEW j \in ChildKeys, Prune(j)
        PROVE  \/ UNCHANGED <<child[k], childEvents[k]>>
               \/ \E c : StoreChild(k, c) /\ WritesChild(k, c)
    <3>1. StoreChild(j, NoChild) /\ child[j] # NoChild
      BY <2>1 DEF Prune, ChildWrite
    <3> QED
      BY <1>2, <2>1, <3>1 DEF WritesChild
  <2>2. ASSUME NEW j \in ChildKeys, NEW s \in Specs, Scale(j, s)
        PROVE  \/ UNCHANGED <<child[k], childEvents[k]>>
               \/ \E c : StoreChild(k, c) /\ WritesChild(k, c)
    <3>1. StoreChild(j, Resized(child[j], s)) /\ child[j] # NoChild
      BY <2>2 DEF Scale, ChildWrite, Resized
    <3> QED
      BY <1>2, <2>2, <3>1 DEF WritesChild
  <2>3. ASSUME NEW a, NEW h, NEW o, UserWrite(a, h, o) PROVE UNCHANGED <<child, childEvents>>
    BY <2>3 DEF UserWrite
  <2> QED
    BY <1>6, <2>1, <2>2, <2>3 DEF Users, UserCreate, UserEdit, UserDelete, ToggleConfig
<1>7. CASE Restart
  BY <1>7 DEF Restart, cluster
<1>8. ASSUME \/ Registered \/ CleanedUp \/ Services
             \/ \E h \in CRs : Reconcile(h) \/ CacheSync(h) \/ TimerFire(h) \/ Resync(h)
      PROVE  UNCHANGED <<child, childEvents>>
  BY <1>8 DEF Registered, CleanedUp, Services, CacheSync, TimerFire, Resync, cluster, caches,
     Reconcile, ReconcileNothing, ReconcileDeletion, ReconcileAddFinalizer,
     ReconcileConfigMissing, ReconcileRegister, ReconcileWorkload, Start, Take
<1> QED
  BY <1>3, <1>4, <1>5, <1>6, <1>7, <1>8 DEF Next

(* What is put in the place of a child. *)
LEMMA WrittenChild ==
  ASSUME ControlInv, NEW k \in ChildKeys, NEW c, StoreChild(k, c), WritesChild(k, c)
  PROVE  /\ c \in Children \cup {NoChild} /\ child'[k] = c
         /\ childEvents'[k] = childEvents[k] \cup {d.owner : d \in {child[k], c} \ {NoChild}}
         /\ childEvents'[k] # {}
         /\ \/ c = NoChild
            \/ child[k] # NoChild /\ c.owner = child[k].owner /\ c.uid = child[k].uid
            \/ /\ EnsureStep /\ pc \in Kinds /\ k = ChildKey(key, obj.spec, pc)
               /\ child[k] = NoChild /\ c = Child(key, obj, pc)
<1>1. /\ obj \in Objects /\ key \in CRs /\ obj.spec \in Specs
      /\ child[k] \in Children \cup {NoChild}
      /\ DOMAIN child = ChildKeys /\ DOMAIN childEvents = ChildKeys
  BY ObjectFields DEF ControlInv, WorkerInv, WorkerType, ClusterInv, ClusterType
<1>2. /\ child'[k] = c
      /\ childEvents'[k] = childEvents[k] \cup {d.owner : d \in {child[k], c} \ {NoChild}}
  BY <1>1 DEF StoreChild
<1>3. ASSUME NEW s \in Specs, child[k] # NoChild
      PROVE  /\ Resized(child[k], s) \in Children
             /\ Resized(child[k], s).owner = child[k].owner
             /\ Resized(child[k], s).uid = child[k].uid
  BY <1>1, <1>3, ScaledType DEF Resized
<1>4. Child(key, obj, pc) \in Children
  BY <1>1, ChildType
<1>5. /\ c \in Children \cup {NoChild} /\ (child[k] # NoChild \/ c # NoChild)
      /\ \/ c = NoChild
         \/ child[k] # NoChild /\ c.owner = child[k].owner /\ c.uid = child[k].uid
         \/ /\ EnsureStep /\ pc \in Kinds /\ k = ChildKey(key, obj.spec, pc)
            /\ child[k] = NoChild /\ c = Child(key, obj, pc)
  BY <1>1, <1>3, <1>4, NoChildAssumption DEF WritesChild
<1> QED
  BY <1>2, <1>5

-----------------------------------------------------------------------------
(* The workload settles, where AppDeployments share no namespace: two of   *)
(* one namespace may ask for the same children, and the controller then    *)
(* wakes up for one of them only.                                          *)

SoleTenants == \A g, h \in CRs : g.namespace = h.namespace => g = h

(* Children and their events stay in the namespace.                        *)
OwnerInv ==
  \A k \in ChildKeys :
    /\ child[k] # NoChild => child[k].owner.namespace = k[1]
    /\ \A h \in childEvents[k] : h.namespace = k[1]

LEMMA NextOwner == ControlInv /\ OwnerInv /\ [Next]_vars => OwnerInv'
<1> SUFFICES ASSUME ControlInv, OwnerInv, [Next]_vars, NEW k \in ChildKeys
             PROVE  /\ child'[k] # NoChild => child'[k].owner.namespace = k[1]
                    /\ \A h \in childEvents'[k] : h.namespace = k[1]
  BY DEF OwnerInv
<1>1. CASE UNCHANGED <<child[k], childEvents[k]>>
  BY <1>1 DEF OwnerInv
<1>2. CASE UNCHANGED child[k] /\ (ChildSync(k) \/ Restart)
  <2>1. childEvents'[k] = {}
    BY <1>2 DEF ChildSync, Restart, ControlInv, ClusterInv, ClusterType
  <2> QED
    BY <1>2, <2>1 DEF OwnerInv
<1>3. ASSUME NEW c, StoreChild(k, c), WritesChild(k, c)
      PROVE  /\ child'[k] # NoChild => child'[k].owner.namespace = k[1]
             /\ \A h \in childEvents'[k] : h.namespace = k[1]
  <2>1. c # NoChild => c.owner.namespace = k[1]
    <3>1. CASE /\ pc \in Kinds /\ k = ChildKey(key, obj.spec, pc)
               /\ c = Child(key, obj, pc)
      BY <3>1 DEF ChildKey, Child
    <3> QED
      BY <1>3, <3>1, WrittenChild DEF OwnerInv
  <2>2. /\ child'[k] = c
        /\ childEvents'[k] = childEvents[k] \cup {d.owner : d \in {child[k], c} \ {NoChild}}
    BY <1>3, WrittenChild
  <2> QED
    BY <2>1, <2>2 DEF OwnerInv
<1>4. CASE UNCHANGED vars
  BY <1>1, <1>4 DEF vars, cluster, caches
<1> QED
  BY <1>1, <1>2, <1>3, <1>4, WhoWritesChild

LEMMA OwnersHold == Spec => []OwnerInv
<1>1. Init => OwnerInv
  BY DEF Init, OwnerInv
<1> QED
  BY <1>1, NextOwner, ControlHolds, PTL DEF Spec

(* The worker has dealt with the children of this kind. *)
Past(kind) == pc = "writeReady" \/ (pc \in Kinds /\ Rank[pc] > Rank[kind])

InPlace(g, k) ==
  /\ child[k] # NoChild
  /\ k[3] = "statefulSet" => child[k].spec.replicas = Replicas(ad[g].spec)

(* A watched child is in place, or it has changed and its owner will hear  *)
(* of it, or its owner is to be looked at, or the worker still comes to it.*)
PresentInv ==
  \A g \in CRs : ad[g].phase = "live" =>
    \A k \in WatchedKeys(g) :
       \/ InPlace(g, k) \/ childEvents[k] # {} \/ Queued(g)
       \/ Working(g) /\ ~Past(k[3])

LEMMA WatchedKey ==
  ASSUME ControlInv, NEW g \in CRs, NEW k \in WatchedKeys(g)
  PROVE  /\ k \in ChildKeys /\ k[1] = g.namespace /\ k[3] \in Kinds \cap Watched
         /\ k = ChildKey(g, ad[g].spec, k[3])
<1>1. ad[g].spec \in Specs
  BY ObjectFields DEF ControlInv, ClusterInv, ClusterType
<1>2. PICK kind \in Kinds : k = ChildKey(g, ad[g].spec, kind)
  BY DEF WatchedKeys, OwnKeys
<1> QED
  BY <1>1, <1>2, ChildKeyType DEF WatchedKeys

(* The worker leaves a child behind that is in place, or has just changed. *)
LEMMA EnsuredIsInPlace ==
  ASSUME ControlInv, EnsureStep, pc' # "idle", fresh, NEW g \in CRs, key = g,
         ad'[g] = ad[g], NEW k \in ChildKeys, k = ChildKey(g, ad[g].spec, pc)
  PROVE  InPlace(g, k)' \/ childEvents'[k] # {}
<1>1. /\ pc \in Kinds /\ k = ChildKey(key, obj.spec, pc)
      /\ obj.spec = ad[g].spec /\ k[3] = pc
  <2>1. pc \in Kinds /\ obj \in Objects
    BY EnsureWrites
  <2>2. obj.spec = ad[g].spec /\ obj.spec \in Specs
    BY <2>1, ObjectFields, StepNames DEF ControlInv, WorkerInv, CopyInv, SameButStatus
  <2> QED
    BY <2>1, <2>2, ChildKeyType
<1>2. childEvents[k] # {} \/ childCache[k] = child[k]
  BY <1>1 DEF ControlInv, ClusterInv
<1>3. ASSUME NEW c \in Children, StoreChild(k, c) PROVE child'[k] = c /\ c # NoChild
  BY <1>1, <1>3, ChildFields DEF StoreChild, ControlInv, ClusterInv, ClusterType
<1>4. childEvents'[k] # {} \/
        /\ child'[k] # NoChild
        /\ pc = "statefulSet" => child'[k].spec.replicas = Replicas(obj.spec)
  BY <1>1, <1>2, <1>3, EnsureWrites
<1> QED
  BY <1>1, <1>4 DEF InPlace

LEMMA NextPresent ==
  ASSUME SoleTenants, ControlInv, OwnerInv, PresentInv, [Next]_vars
  PROVE  PresentInv'
<1> SUFFICES ASSUME NEW g \in CRs, ad'[g].phase = "live", ~Queued(g)',
                    NEW k \in WatchedKeys(g)'
             PROVE  \/ InPlace(g, k)' \/ childEvents'[k] # {}
                    \/ Working(g)' /\ ~Past(k[3])'
  BY DEF PresentInv
<1>1. ad'[g] = ad[g] /\ g \notin behind'
  BY WhoWrites DEF Queued, vars, cluster
<1>2. ad[g].phase = "live" /\ k \in WatchedKeys(g)
  BY <1>1 DEF WatchedKeys, OwnKeys
<1>3. /\ k \in ChildKeys /\ k[1] = g.namespace /\ k[3] \in Kinds \cap Watched
      /\ k = ChildKey(g, ad[g].spec, k[3])
  BY <1>2, WatchedKey
<1>4. CASE UNCHANGED vars
  BY <1>1, <1>2, <1>4 DEF PresentInv, InPlace, Queued, Working, Past, vars, cluster, caches,
     scheduler, worker
<1>5. CASE Next /\ Queued(g)
  <2>1. Reconcile(g)
    BY <1>2, <1>5, QueuedStays
  <2>2. Working(g)' /\ pc' # "writeReady" /\ (pc' \in Kinds => pc' = First(Kinds))
    BY <1>2, <2>1, TakenIsWorkedOn
  <2> QED
    BY <1>3, <2>2, FirstChild DEF Past
<1>6. CASE Next /\ childEvents[k] # {}
  <2>1. CASE UNCHANGED <<child[k], childEvents[k]>>
    BY <1>6, <2>1
  <2>2. CASE ChildSync(k)
    <3>1. childEvents[k] \subseteq CRs /\ \A h \in childEvents[k] : h.namespace = g.namespace
      BY <1>3 DEF ControlInv, ClusterInv, ClusterType, OwnerInv
    <3>2. g \in childEvents[k]
      BY <1>6, <3>1 DEF SoleTenants
    <3> QED
      BY <1>3, <2>2, <3>2 DEF ChildSync, Queued
  <2>3. CASE Restart
    BY <1>2, <2>3 DEF Restart, Queued
  <2>4. ASSUME NEW c, StoreChild(k, c), WritesChild(k, c) PROVE childEvents'[k] # {}
    BY <1>3, <2>4, WrittenChild
  <2> QED
    BY <1>3, <1>6, <2>1, <2>2, <2>3, <2>4, WhoWritesChild
<1>7. CASE Next /\ InPlace(g, k)
  <2>1. CASE UNCHANGED child[k]
    BY <1>1, <1>7, <2>1 DEF InPlace
  <2>2. ASSUME NEW c, StoreChild(k, c), WritesChild(k, c) PROVE childEvents'[k] # {}
    BY <1>3, <2>2, WrittenChild
  <2> QED
    BY <1>3, <1>7, <2>1, <2>2, WhoWritesChild
<1>8. CASE Next /\ Working(g) /\ ~Past(k[3]) /\ ~Queued(g)
  <2>1. /\ Working(g)' /\ pc # "idle" /\ key = g
        /\ \/ pc' = pc
           \/ pc' \in {"writeFailure", "removeFinalizer", First(Kinds)}
           \/ pc \in Kinds /\ pc' = AfterChild(pc) /\ EnsureStep
    BY <1>1, <1>2, <1>8, WorkingMoves, NoObjectType DEF Past, Working
  <2>2. CASE pc' = pc
    BY <1>8, <2>1, <2>2 DEF Past
  <2>3. CASE pc' \in {"writeFailure", "removeFinalizer", First(Kinds)}
    BY <1>3, <2>1, <2>3, FirstChild, StepNames DEF Past
  <2>4. CASE pc \in Kinds /\ pc' = AfterChild(pc) /\ EnsureStep
    <3>1. CASE k[3] = pc
      <4>1. fresh
        BY <1>8, <2>1 DEF ControlInv, WorkerInv, CopyInv, Queued
      <4>2. pc' # "idle"
        BY <2>1 DEF Working
      <4> QED
        BY <1>1, <1>3, <2>1, <2>4, <3>1, <4>1, <4>2, EnsuredIsInPlace
    <3>2. CASE k[3] # pc
      BY <1>3, <1>8, <2>1, <2>4, <3>2, NextChild, StepNames DEF Past
    <3> QED
      BY <3>1, <3>2
  <2> QED
    BY <2>1, <2>2, <2>3, <2>4
<1> QED
  BY <1>2, <1>4, <1>5, <1>6, <1>7, <1>8 DEF PresentInv

LEMMA PresentHolds ==
  ASSUME SoleTenants
  PROVE  Spec => []PresentInv
<1>1. Init => PresentInv
  BY NoObjectType DEF Init, PresentInv
<1>2. ControlInv /\ OwnerInv /\ PresentInv /\ [Next]_vars => PresentInv'
  BY NextPresent
<1> QED
  BY <1>1, <1>2, ControlHolds, OwnersHold, PTL DEF Spec

(* When the controller is through with an application, its watched         *)
(* children exist and the StatefulSet has the size asked for, whoever      *)
(* deleted or scaled one, and whatever the garbage collector took away.    *)
THEOREM WorkloadSettles ==
  ASSUME SoleTenants
  PROVE  Spec => []SettledMeansPresent
<1>1. PresentInv => SettledMeansPresent
  BY DEF PresentInv, SettledMeansPresent, Quiet, Queued, Working, InPlace, WatchedKeys
<1> QED
  BY <1>1, PresentHolds, PTL

-----------------------------------------------------------------------------
(* Incarnations: an AppDeployment that is deleted and created again has a  *)
(* new uid, and nothing that is around from before has that one.           *)

UidInv ==
  /\ \A g \in CRs : /\ ad[g].uid <= created[g] /\ adCache[g].uid <= created[g]
                    /\ ad[g].phase # "absent" => ad[g].uid # 0
                    /\ adCache[g].phase # "absent" => adCache[g].uid # 0
  /\ pc # "idle" => obj.uid # 0 /\ obj.uid <= created[key]
  /\ \A k \in ChildKeys : child[k] # NoChild =>
       child[k].uid # 0 /\ child[k].uid <= created[child[k].owner]

LEMMA CreatedGrows ==
  ASSUME ControlInv, Next, NEW g \in CRs
  PROVE  /\ created[g] \in Nat /\ created'[g] \in Nat /\ created[g] <= created'[g]
         /\ created'[g] \in {created[g], created[g] + 1}
<1>1. created \in [CRs -> Nat]
  BY DEF ControlInv, ClusterInv, ClusterType
<1>2. UNCHANGED created \/ \E h \in CRs : created' = [created EXCEPT ![h] = @ + 1]
  <2>1. CASE Users
    BY <2>1 DEF Users, UserCreate, UserEdit, UserDelete, Prune, Scale, ChildWrite,
       ToggleConfig
  <2>2. ASSUME NEW h \in CRs, Reconcile(h) PROVE UNCHANGED created
    BY <2>2 DEF Reconcile, ReconcileNothing, ReconcileDeletion, ReconcileAddFinalizer,
       ReconcileConfigMissing, ReconcileRegister, ReconcileWorkload, Start, Take, cluster
  <2>3. ASSUME NEW out \in Outcomes, Step(out) PROVE UNCHANGED created
    BY <2>3 DEF Step, OidcRequest, AddFinalizer, WriteFailure, EnsureChild,
       EnsureStatefulSet, WriteReady, RemoveFinalizer, Calls, cluster
  <2> QED
    BY <2>1, <2>2, <2>3 DEF Next, Registered, CleanedUp, CacheSync, TimerFire, Resync,
       ChildSync, Collect, Services, Restart, cluster
<1>3. created'[g] \in {created[g], created[g] + 1} /\ created[g] \in Nat
  BY <1>1, <1>2
<1> QED
  BY <1>3

(* An AppDeployment stays what it is, or is gone, or is a new one.         *)
LEMMA Incarnation ==
  ASSUME ControlInv, Next, NEW g \in CRs
  PROVE  \/ /\ ad'[g].uid = ad[g].uid
            /\ ad[g].phase = "absent" => ad'[g].phase = "absent"
            /\ "edit" \notin UserActions => ad'[g].spec = ad[g].spec
         \/ ad'[g].uid = 0 /\ ad'[g].phase = "absent"
         \/ ad'[g].uid = created[g] + 1 /\ created'[g] = created[g] + 1
<1>1. CASE ad'[g] = ad[g]
  BY <1>1
<1>2. CASE WorkerWrites(g)
  <2>1. ControlInv'
    BY NextControl
  <2>2. ad'[g].phase = "absent" => ad'[g].uid = 0
    BY <2>1, NoObjectType DEF ControlInv, ClusterInv
  <2> QED
    BY <1>2, <2>2, ReportStep
<1>3. CASE UserWrites(g)
  <2>1. DOMAIN created = CRs
    BY DEF ControlInv, ClusterInv, ClusterType
  <2> QED
    BY <1>3, <2>1, UserWritesWhat, NoObjectType
<1> QED
  BY <1>1, <1>2, <1>3, WhoWrites

LEMMA NextUid == ControlInv /\ UidInv /\ [Next]_vars => UidInv'
<1> SUFFICES ASSUME ControlInv, UidInv, [Next]_vars PROVE UidInv'
  OBVIOUS
<1>1. CASE UNCHANGED vars
  BY <1>1 DEF UidInv, vars, cluster, caches, worker
<1>2. CASE Next
  <2>1. ASSUME NEW g \in CRs
        PROVE  /\ ad'[g].uid <= created'[g] /\ adCache'[g].uid <= created'[g]
               /\ ad'[g].phase # "absent" => ad'[g].uid # 0
               /\ adCache'[g].phase # "absent" => adCache'[g].uid # 0
    <3>1. /\ ad[g].uid \in Nat /\ adCache[g].uid \in Nat
          /\ ad[g].uid <= created[g] /\ adCache[g].uid <= created[g]
          /\ ad[g].phase # "absent" => ad[g].uid # 0
          /\ adCache[g].phase # "absent" => adCache[g].uid # 0
      BY ObjectFields DEF ControlInv, ClusterInv, ClusterType, UidInv
    <3>2. /\ created[g] \in Nat /\ created'[g] \in Nat /\ created[g] <= created'[g]
      BY <1>2, CreatedGrows
    <3>3. /\ ad'[g].uid <= created'[g]
          /\ ad'[g].phase # "absent" => ad'[g].uid # 0
      BY <1>2, <3>1, <3>2, Incarnation
    <3> QED
      BY <1>2, <3>1, <3>2, <3>3, WhoCaches
  <2>2. pc' # "idle" => obj'.uid # 0 /\ obj'.uid <= created'[key']
    <3> SUFFICES ASSUME pc' # "idle" PROVE obj'.uid # 0 /\ obj'.uid <= created'[key']
      OBVIOUS
    <3>1. CASE pc # "idle" /\ key' = key /\ obj'.uid = obj.uid
      <4>1. key \in CRs /\ obj.uid \in Nat /\ obj.uid # 0 /\ obj.uid <= created[key]
        BY <3>1, ObjectFields DEF ControlInv, WorkerInv, WorkerType, UidInv
      <4>2. created[key] \in Nat /\ created'[key] \in Nat /\ created[key] <= created'[key]
        BY <1>2, <4>1, CreatedGrows
      <4> QED
        BY <3>1, <4>1, <4>2
    <3>2. CASE /\ key' \in CRs /\ adCache[key'].phase # "absent"
               /\ obj'.uid = adCache[key'].uid /\ UNCHANGED created
      BY <3>2 DEF UidInv
    <3> QED
      BY <1>2, <3>1, <3>2, CopyMoves
  <2>3. ASSUME NEW k \in ChildKeys, child'[k] # NoChild
        PROVE  child'[k].uid # 0 /\ child'[k].uid <= created'[child'[k].owner]
    <3>1. ASSUME NEW g \in CRs, NEW u \in Nat, u # 0, u <= created[g],
                 child'[k].owner = g, child'[k].uid = u
          PROVE  child'[k].uid # 0 /\ child'[k].uid <= created'[child'[k].owner]
      BY <1>2, <3>1, CreatedGrows
    <3>2. child[k] # NoChild => /\ child[k].owner \in CRs /\ child[k].uid \in Nat
                                /\ child[k].uid # 0 /\ child[k].uid <= created[child[k].owner]
      BY ChildFields DEF ControlInv, ClusterInv, ClusterType, UidInv
    <3>3. CASE UNCHANGED child[k]
      BY <2>3, <3>1, <3>2, <3>3
    <3>4. ASSUME NEW c, StoreChild(k, c), WritesChild(k, c)
          PROVE  child'[k].uid # 0 /\ child'[k].uid <= created'[child'[k].owner]
      <4>1. child'[k] = c
        BY <3>4, WrittenChild
      <4>2. CASE child[k] # NoChild /\ c.owner = child[k].owner /\ c.uid = child[k].uid
        BY <3>1, <3>2, <4>1, <4>2
      <4>3. CASE pc \in Kinds /\ c = Child(key, obj, pc)
        <5>1. key \in CRs /\ obj.uid \in Nat /\ obj.uid # 0 /\ obj.uid <= created[key]
          BY <4>3, ObjectFields, StepNames DEF ControlInv, WorkerInv, WorkerType, UidInv
        <5>2. c.owner = key /\ c.uid = obj.uid
          BY <4>3 DEF Child
        <5> QED
          BY <3>1, <4>1, <5>1, <5>2
      <4> QED
        BY <2>3, <3>4, <4>1, <4>2, <4>3, WrittenChild
    <3> QED
      BY <1>2, <3>3, <3>4, WhoWritesChild
  <2> QED
    BY <2>1, <2>2, <2>3 DEF UidInv
<1> QED
  BY <1>1, <1>2

LEMMA UidsHold == Spec => []UidInv
<1>1. Init => UidInv
  BY NoObjectType DEF Init, UidInv
<1> QED
  BY <1>1, NextUid, ControlHolds, PTL DEF Spec

-----------------------------------------------------------------------------
(* Where nobody edits a spec, all that has the uid of an AppDeployment is  *)
(* built from its spec.                                                    *)

SameButSize(c, s) == c = [s EXCEPT !.replicas = c.replicas]

BuiltFrom(c, s, kind) == IF kind = "statefulSet" THEN SameButSize(c, s) ELSE c = s

CacheBorn == \A g \in CRs : adCache[g].uid = ad[g].uid /\ ad[g].uid # 0
                               => adCache[g].spec = ad[g].spec

CopyBorn == pc # "idle" /\ obj.uid = ad[key].uid => obj.spec = ad[key].spec

ChildBorn ==
  \A k \in ChildKeys :
    child[k] # NoChild /\ child[k].uid = ad[child[k].owner].uid =>
      LET s == ad[child[k].owner].spec IN
      k = ChildKey(child[k].owner, s, k[3]) /\ BuiltFrom(child[k].spec, s, k[3])

BornInv == CacheBorn /\ CopyBorn /\ ChildBorn

(* What has a uid from before has the spec from before. *)
LEMMA SameIncarnation ==
  ASSUME "edit" \notin UserActions, ControlInv, Next, NEW g \in CRs, NEW u \in Nat,
         u # 0, u <= created[g], u = ad'[g].uid
  PROVE  ad'[g].uid = ad[g].uid /\ ad'[g].spec = ad[g].spec
<1>1. created[g] \in Nat
  BY CreatedGrows
<1> QED
  BY <1>1, Incarnation

LEMMA ResizedIsBuilt ==
  ASSUME NEW c \in Children, NEW s \in Specs, NEW t, BuiltFrom(c.spec, s, "statefulSet")
  PROVE  BuiltFrom(Resized(c, t).spec, s, "statefulSet")
<1>1. "replicas" \in DOMAIN s
  BY SpecsAssumption DEF SpecType
<1> DEFINE d == [c.spec EXCEPT !.replicas = Replicas(t)]
<1>2. Resized(c, t).spec = d
  BY DEF Resized, Children
<1>3. c.spec = [s EXCEPT !.replicas = c.spec.replicas]
  BY DEF BuiltFrom, SameButSize
<1>4. d = [s EXCEPT !.replicas = Replicas(t)] /\ d.replicas = Replicas(t)
  BY <1>1, <1>3
<1> HIDE DEF d
<1> QED
  BY <1>2, <1>4 DEF BuiltFrom, SameButSize

LEMMA ChildIsBuilt ==
  ASSUME NEW g \in CRs, NEW o \in Objects, NEW kind
  PROVE  /\ BuiltFrom(Child(g, o, kind).spec, o.spec, kind)
         /\ Child(g, o, kind).owner = g /\ Child(g, o, kind).uid = o.uid
<1>1. "replicas" \in DOMAIN o.spec
  BY ObjectFields, SpecsAssumption DEF SpecType
<1> DEFINE d == [o.spec EXCEPT !.replicas = Replicas(o.spec)]
<1>2. d = [o.spec EXCEPT !.replicas = d.replicas]
  BY <1>1
<1> HIDE DEF d
<1>3. Child(g, o, kind).spec = IF kind = "statefulSet" THEN d ELSE o.spec
  BY DEF Child, d
<1> QED
  BY <1>2, <1>3 DEF Child, BuiltFrom, SameButSize

LEMMA NextBorn ==
  ASSUME "edit" \notin UserActions, ControlInv, UidInv, BornInv, [Next]_vars
  PROVE  BornInv'
<1>1. CASE UNCHANGED vars
  BY <1>1 DEF BornInv, CacheBorn, CopyBorn, ChildBorn, vars, cluster, caches, worker
<1>2. CASE Next
  <2>1. ASSUME NEW g \in CRs, adCache'[g].uid = ad'[g].uid, ad'[g].uid # 0
        PROVE  adCache'[g].spec = ad'[g].spec
    <3>1. CASE adCache'[g] = ad[g] /\ UNCHANGED ad
      BY <3>1
    <3>2. CASE adCache'[g] = adCache[g]
      <4>1. adCache[g].uid \in Nat /\ adCache[g].uid <= created[g]
        BY ObjectFields DEF ControlInv, ClusterInv, ClusterType, UidInv
      <4>2. ad'[g].uid = ad[g].uid /\ ad'[g].spec = ad[g].spec
        BY <1>2, <2>1, <3>2, <4>1, SameIncarnation
      <4> QED
        BY <2>1, <3>2, <4>2 DEF BornInv, CacheBorn
    <3> QED
      BY <1>2, <3>1, <3>2, WhoCaches
  <2>2. ASSUME pc' # "idle", obj'.uid = ad'[key'].uid
        PROVE  obj'.spec = ad'[key'].spec
    <3>1. CASE pc # "idle" /\ key' = key /\ obj'.uid = obj.uid /\ obj'.spec = obj.spec
      <4>1. key \in CRs /\ obj.uid \in Nat /\ obj.uid # 0 /\ obj.uid <= created[key]
        BY <3>1, ObjectFields DEF ControlInv, WorkerInv, WorkerType, UidInv
      <4>2. ad'[key].uid = ad[key].uid /\ ad'[key].spec = ad[key].spec
        BY <1>2, <2>2, <3>1, <4>1, SameIncarnation
      <4> QED
        BY <2>2, <3>1, <4>2 DEF BornInv, CopyBorn
    <3>2. CASE /\ key' \in CRs /\ adCache[key'].phase # "absent"
               /\ obj'.uid = adCache[key'].uid /\ obj'.spec = adCache[key'].spec
               /\ UNCHANGED <<ad, created>>
      BY <2>2, <3>2 DEF BornInv, CacheBorn, UidInv
    <3> QED
      BY <1>2, <2>2, <3>1, <3>2, CopyMoves
  <2>3. ASSUME NEW k \in ChildKeys, child'[k] # NoChild,
               child'[k].uid = ad'[child'[k].owner].uid
        PROVE  LET s == ad'[child'[k].owner].spec IN
               k = ChildKey(child'[k].owner, s, k[3]) /\ BuiltFrom(child'[k].spec, s, k[3])
    <3>1. ASSUME NEW g \in CRs, NEW u \in Nat, NEW s, child'[k].owner = g, child'[k].uid = u,
                 u # 0, u <= created[g],
                 u = ad[g].uid => /\ k = ChildKey(g, ad[g].spec, k[3])
                                  /\ BuiltFrom(child'[k].spec, ad[g].spec, k[3])
          PROVE  LET t == ad'[child'[k].owner].spec IN
                 k = ChildKey(child'[k].owner, t, k[3]) /\ BuiltFrom(child'[k].spec, t, k[3])
      BY <1>2, <2>3, <3>1, SameIncarnation
    <3>2. ASSUME child[k] # NoChild
          PROVE  /\ child[k] \in Children /\ child[k].owner \in CRs /\ child[k].uid \in Nat
                 /\ child[k].uid # 0 /\ child[k].uid <= created[child[k].owner]
                 /\ ad[child[k].owner].spec \in Specs
      <4>1. child[k] \in Children /\ child[k].owner \in CRs /\ child[k].uid \in Nat
        BY <3>2, ChildFields DEF ControlInv, ClusterInv, ClusterType
      <4>2. ad[child[k].owner].spec \in Specs
        BY <4>1, ObjectFields DEF ControlInv, ClusterInv, ClusterType
      <4> QED
        BY <3>2, <4>1, <4>2 DEF UidInv
    <3>3. CASE UNCHANGED child[k]
      BY <2>3, <3>1, <3>2, <3>3 DEF BornInv, ChildBorn
    <3>4. ASSUME NEW c, StoreChild(k, c), WritesChild(k, c)
          PROVE  LET t == ad'[child'[k].owner].spec IN
                 k = ChildKey(child'[k].owner, t, k[3]) /\ BuiltFrom(child'[k].spec, t, k[3])
      <4>1. child'[k] = c /\ c # NoChild
        BY <2>3, <3>4, WrittenChild
      <4>2. ASSUME NEW t, child[k] # NoChild, k[3] = "statefulSet", c = Resized(child[k], t)
            PROVE  child[k].uid = ad[child[k].owner].uid =>
                     /\ k = ChildKey(child[k].owner, ad[child[k].owner].spec, k[3])
                     /\ BuiltFrom(c.spec, ad[child[k].owner].spec, k[3])
        BY <3>2, <4>2, ResizedIsBuilt DEF BornInv, ChildBorn
      <4>3. ASSUME NEW t, child[k] # NoChild, k[3] = "statefulSet", c = Resized(child[k], t)
            PROVE  c.owner = child[k].owner /\ c.uid = child[k].uid
        BY <3>2, <4>3 DEF Resized, Children
      <4>4. ASSUME NEW t, child[k] # NoChild, k[3] = "statefulSet", c = Resized(child[k], t)
            PROVE  LET s == ad'[child'[k].owner].spec IN
                   k = ChildKey(child'[k].owner, s, k[3]) /\ BuiltFrom(child'[k].spec, s, k[3])
        BY <3>1, <3>2, <4>1, <4>2, <4>3, <4>4
      <4>5. CASE pc \in Kinds /\ c = Child(key, obj, pc) /\ k = ChildKey(key, obj.spec, pc)
        <5>1. /\ key \in CRs /\ obj \in Objects /\ obj.uid \in Nat
              /\ obj.uid # 0 /\ obj.uid <= created[key] /\ pc # "idle"
          BY <4>5, ObjectFields, StepNames DEF ControlInv, WorkerInv, WorkerType, UidInv
        <5>2. c.owner = key /\ c.uid = obj.uid /\ BuiltFrom(c.spec, obj.spec, pc) /\ k[3] = pc
          BY <4>5, <5>1, ChildIsBuilt DEF ChildKey
        <5>3. obj.uid = ad[key].uid => obj.spec = ad[key].spec
          BY <5>1 DEF BornInv, CopyBorn
        <5> QED
          BY <3>1, <4>1, <4>5, <5>1, <5>2, <5>3
      <4>6. CASE \E s \in Specs : Scale(k, s) /\ c = Resized(child[k], s)
        BY <4>4, <4>6 DEF Scale, ChildWrite
      <4>7. CASE /\ k = ChildKey(key, obj.spec, pc) /\ pc = "statefulSet"
                 /\ child[k] # NoChild /\ c = Resized(child[k], obj.spec)
        BY <4>4, <4>7 DEF ChildKey
      <4> QED
        BY <3>4, <4>1, <4>5, <4>6, <4>7 DEF WritesChild
    <3> QED
      BY <1>2, <3>3, <3>4, WhoWritesChild
  <2> QED
    BY <2>1, <2>2, <2>3 DEF BornInv, CacheBorn, CopyBorn, ChildBorn
<1> QED
  BY <1>1, <1>2

LEMMA BornHolds ==
  ASSUME "edit" \notin UserActions
  PROVE  Spec => []BornInv
<1>1. Init => BornInv
  BY NoObjectType DEF Init, BornInv, CacheBorn, CopyBorn, ChildBorn
<1>2. ControlInv /\ UidInv /\ BornInv /\ [Next]_vars => BornInv'
  BY NextBorn
<1> QED
  BY <1>1, <1>2, ControlHolds, UidsHold, PTL DEF Spec

(* In a settled application a child is what its spec asks for. *)
LEMMA SettledChild ==
  ASSUME SoleTenants, ControlInv, OwnerInv, PresentInv, BornInv,
         NEW g \in CRs, ad[g].phase = "live", Quiet(g), NEW k \in WatchedKeys(g)
  PROVE  child[k] = Child(g, ad[g], k[3])
<1>1. InPlace(g, k) /\ k \in OwnKeys(g) /\ ~Garbage(k)
  BY DEF PresentInv, Quiet, Queued, Working, WatchedKeys
<1>2. /\ k \in ChildKeys /\ k[1] = g.namespace
  BY WatchedKey
<1>3. /\ child[k] # NoChild /\ child[k] \in Children /\ child[k].owner \in CRs
  BY <1>1, <1>2, ChildFields DEF InPlace, ControlInv, ClusterInv, ClusterType
<1>4. child[k].owner = g /\ child[k].uid = ad[g].uid
  BY <1>1, <1>2, <1>3 DEF OwnerInv, SoleTenants, Garbage
<1>5. BuiltFrom(child[k].spec, ad[g].spec, k[3])
  BY <1>2, <1>3, <1>4 DEF BornInv, ChildBorn
<1>6. child[k].spec = Child(g, ad[g], k[3]).spec
  <2>1. CASE k[3] = "statefulSet"
    <3>1. child[k].spec.replicas = Replicas(ad[g].spec)
      BY <1>1, <2>1 DEF InPlace
    <3>2. child[k].spec = [ad[g].spec EXCEPT !.replicas = child[k].spec.replicas]
      BY <1>5, <2>1 DEF BuiltFrom, SameButSize
    <3> QED
      BY <2>1, <3>1, <3>2 DEF Child
  <2>2. CASE k[3] # "statefulSet"
    BY <1>5, <2>2 DEF BuiltFrom, Child
  <2> QED
    BY <2>1, <2>2
<1> QED
  BY <1>3, <1>4, <1>6 DEF Children, Child

(* Where nobody edits a spec, the children of a settled application are    *)
(* its own, and were built for its spec: none is left of a namesake that   *)
(* was deleted before it.                                                  *)
THEOREM WorkloadIsItsOwn ==
  ASSUME SoleTenants, "edit" \notin UserActions
  PROVE  Spec => []SettledMeansCurrent
<1>1. ControlInv /\ OwnerInv /\ PresentInv /\ BornInv => SettledMeansCurrent
  BY SettledChild DEF SettledMeansCurrent
<1> QED
  BY <1>1, ControlHolds, OwnersHold, PresentHolds, BornHolds, PTL

-----------------------------------------------------------------------------
(* Who can be reached. *)

LEMMA SamePod ==
  ASSUME NEW c, NEW s \in Specs, BuiltFrom(c, s, "statefulSet")
  PROVE  Pod(c) = Pod(s) /\ c.oidc = s.oidc
<1>1. c.oidc = s.oidc /\ c.port = s.port
  <2>1. DOMAIN s = {"appName", "oidc", "port", "replicas"}
    BY SpecsAssumption DEF SpecType
  <2> QED
    BY <2>1 DEF BuiltFrom, SameButSize
<1> QED
  BY <1>1 DEF Pod, AppContainer, ADCContainer

(* In a settled application whose spec nobody edits, a request to the      *)
(* traffic Service gets to the application; with OIDC, and an application  *)
(* that leaves the proxy its port, there is no other way in.               *)
THEOREM SettledIsServed ==
  ASSUME SoleTenants, "edit" \notin UserActions, {"allowIngress", "traffic"} \subseteq Kinds,
         \A s \in Specs : s.oidc => s.port # ProxyPort
  PROVE  Spec => []SettledMeansServed
<1>1. ASSUME ControlInv, OwnerInv, PresentInv, BornInv,
             NEW g \in CRs, ad[g].phase = "live", Quiet(g)
      PROVE  LET a       == ad[g].spec.appName
                 service == child[ChildKey(g, ad[g].spec, "traffic")]
                 pods    == child[ChildKey(g, ad[g].spec, "statefulSet")]
                 around  == PoliciesAround(g.namespace, a)
             IN /\ AppServed(TrafficService(service.spec), Pod(pods.spec), around)
                /\ ad[g].spec.oidc => Gated(Pod(pods.spec), around)
  <2> DEFINE s == ad[g].spec
             K == Kinds \cap PolicyKinds
             at(kind) == child[ChildKey(g, s, kind)]
             around == PoliciesAround(g.namespace, s.appName)
  <2>1. /\ s \in Specs /\ SpecType(s) /\ ad[g] \in Objects
        /\ K \in SUBSET PolicyKinds /\ "allowIngress" \in K
        /\ \A kind \in K : kind # "statefulSet" /\ kind # "fluentBit"
    BY <1>1, ObjectFields, SpecsAssumption DEF ControlInv, ClusterInv, ClusterType, PolicyKinds
  <2>2. ASSUME NEW kind \in Kinds, kind # "fluentBit"
        PROVE  at(kind) = Child(g, ad[g], kind) /\ at(kind) # NoChild
    <3>1. ChildKey(g, s, kind) \in WatchedKeys(g) /\ ChildKey(g, s, kind)[3] = kind
      BY <2>1, <2>2, KindsAssumption, ChildKeyType DEF WatchedKeys, OwnKeys, Watched
    <3>2. at(kind) = Child(g, ad[g], kind)
      BY <1>1, <3>1, SettledChild
    <3> QED
      BY <2>1, <3>2, ChildType, ChildFields
  <2>3. /\ at("traffic").spec = s
        /\ BuiltFrom(at("statefulSet").spec, s, "statefulSet")
        /\ \A kind \in K : at(kind) # NoChild /\ at(kind).spec = s
    BY <2>1, <2>2, ChildIsBuilt, KindsAssumption DEF BuiltFrom
  <2>4. around = Policies(K, s)
    <3>1. \A kind : child[<<g.namespace, s.appName, kind>>] = at(kind)
      BY DEF ChildKey
    <3> HIDE DEF at
    <3>2. {i \in K : child[<<g.namespace, s.appName, i>>] # NoChild} = K
      BY <2>3, <3>1
    <3> QED
      BY <2>3, <3>1, <3>2 DEF PoliciesAround, Policies
  <2>5. Pod(at("statefulSet").spec) = Pod(s)
    BY <2>1, <2>3, SamePod
  <2> HIDE DEF K, at, around
  <2>6. /\ AppServed(TrafficService(at("traffic").spec), Pod(at("statefulSet").spec), around)
        /\ s.oidc => Gated(Pod(at("statefulSet").spec), around)
    BY <2>1, <2>3, <2>4, <2>5, OneSpecIsServedAndGated
  <2> QED
    BY <2>6 DEF at, around
<1>2. ControlInv /\ OwnerInv /\ PresentInv /\ BornInv => SettledMeansServed
  BY <1>1 DEF SettledMeansServed
<1> QED
  BY <1>2, ControlHolds, OwnersHold, PresentHolds, BornHolds, PTL

-----------------------------------------------------------------------------
(* The policies are there before the pods. *)

LEMMA WhoChildCaches ==
  ASSUME ControlInv, Next, NEW k \in ChildKeys
  PROVE  childCache'[k] \in {childCache[k], child[k]}
<1>1. childCache \in [ChildKeys -> Children \cup {NoChild}]
  BY DEF ControlInv, ClusterInv, ClusterType
<1>2. ASSUME NEW h \in CRs, Reconcile(h) PROVE UNCHANGED childCache
  BY <1>2 DEF Reconcile, ReconcileNothing, ReconcileDeletion, ReconcileAddFinalizer,
     ReconcileConfigMissing, ReconcileRegister, ReconcileWorkload, Start, Take, caches
<1>3. ASSUME NEW out \in Outcomes, Step(out) PROVE UNCHANGED childCache
  BY <1>3 DEF Step, OidcRequest, AddFinalizer, WriteFailure, EnsureChild,
     EnsureStatefulSet, WriteReady, RemoveFinalizer, Calls, caches
<1>4. CASE Users
  <2>1. \A a : UserAction(a) => UNCHANGED childCache
    BY DEF UserAction
  <2> QED
    BY <1>4, <2>1 DEF Users, UserCreate, UserEdit, UserDelete, UserWrite, Prune, Scale,
       ChildWrite, ToggleConfig
<1>5. CASE (\E j \in ChildKeys : ChildSync(j)) \/ Restart
  BY <1>1, <1>5 DEF ChildSync, Restart
<1> QED
  BY <1>2, <1>3, <1>4, <1>5 DEF Next, Registered, CleanedUp, CacheSync, TimerFire, Resync,
     Collect, Services, caches

(* The worker gets to the children one by one, from the first. *)
LEMMA StepMoves ==
  ASSUME ControlInv, Next, pc' # "idle"
  PROVE  \/ pc' = pc /\ key' = key
         \/ pc' \in {"addFinalizer", "register", "cleanup", "writeFailure",
                     "removeFinalizer", First(Kinds)}
         \/ pc \in Kinds /\ pc' = AfterChild(pc) /\ key' = key /\ EnsureStep
<1>1. ASSUME NEW g \in CRs, Reconcile(g)
      PROVE  \/ pc' = pc /\ key' = key
             \/ pc' \in {"addFinalizer", "register", "cleanup", "writeFailure",
                         "removeFinalizer", First(Kinds)}
  BY <1>1 DEF Reconcile, ReconcileNothing, ReconcileDeletion, ReconcileAddFinalizer,
     ReconcileConfigMissing, ReconcileRegister, ReconcileWorkload, Start, worker
<1>2. CASE Registered
  BY <1>2 DEF Registered, Continue
<1>3. CASE CleanedUp
  BY <1>3 DEF CleanedUp, Continue
<1>4. ASSUME NEW out \in Outcomes, EnsureChild(out) \/ EnsureStatefulSet(out)
      PROVE  pc \in Kinds /\ pc' = AfterChild(pc) /\ key' = key /\ EnsureStep
  <2>1. /\ pc \in Kinds /\ EnsureStep
        /\ Requeue \/ Continue(AfterChild(pc), obj)
    BY <1>4, KindsAssumption DEF EnsureChild, EnsureStatefulSet, EnsureStep
  <2> QED
    BY <2>1 DEF Requeue, Return, Continue
<1>5. ASSUME NEW out \in Outcomes,
             AddFinalizer(out) \/ WriteFailure(out) \/ WriteReady(out) \/ RemoveFinalizer(out)
      PROVE  FALSE
  BY <1>5 DEF AddFinalizer, WriteFailure, WriteReady, RemoveFinalizer, Requeue,
     RequeueLater, Done, Return
<1>6. CASE Users
  <2>1. \A a : UserAction(a) => UNCHANGED <<pc, key>>
    BY DEF UserAction
  <2> QED
    BY <1>6, <2>1 DEF Users, UserCreate, UserEdit, UserDelete, UserWrite, Prune, Scale,
       ChildWrite, ToggleConfig
<1>7. ASSUME Services \/ (\E out \in Outcomes : OidcRequest(out))
             \/ (\E h \in CRs : CacheSync(h) \/ TimerFire(h) \/ Resync(h))
             \/ (\E k \in ChildKeys : ChildSync(k) \/ Collect(k))
      PROVE  pc' = pc /\ key' = key
  BY <1>7 DEF Services, OidcRequest, CacheSync, TimerFire, Resync, ChildSync, Collect, worker
<1>8. ~Restart
  BY DEF Restart, Return
<1> QED
  BY <1>1, <1>2, <1>3, <1>4, <1>5, <1>6, <1>7, <1>8 DEF Next, Step

(* The worker has dealt with allow-ingress only if it just did, or had.    *)
LEMMA PastMoves ==
  ASSUME ControlInv, Next, NEW kind \in Kinds, pc' # "idle", Past(kind)'
  PROVE  \/ Past(kind) /\ key' = key /\ pc # "idle"
         \/ pc = kind /\ EnsureStep /\ key' = key
<1>1. CASE pc' = pc /\ key' = key
  BY <1>1 DEF Past
<1>2. CASE pc' \in {"addFinalizer", "register", "cleanup", "writeFailure",
                   "removeFinalizer", First(Kinds)}
  BY <1>2, FirstChild, StepNames DEF Past
<1>3. CASE pc \in Kinds /\ pc' = AfterChild(pc) /\ key' = key /\ EnsureStep
  BY <1>3, NextChild, StepNames DEF Past
<1> QED
  BY <1>1, <1>2, <1>3, StepMoves

(* Before the first AppDeployment of a name there is nothing of it.        *)
Untouched(g) ==
  /\ ~Working(g)
  /\ \A k \in ChildKeys : k[1] = g.namespace => child[k] = NoChild /\ childCache[k] = NoChild

LEMMA UntouchedStays ==
  ASSUME SoleTenants, ControlInv, OwnerInv, UidInv, Next, NEW g \in CRs,
         Untouched(g), created'[g] = 0
  PROVE  Untouched(g)'
<1>1. ControlInv' /\ OwnerInv' /\ UidInv'
  BY NextControl, NextOwner, NextUid
<1>2. ~Working(g)'
  <2>1. obj'.uid \in Nat
    BY <1>1, ObjectFields DEF ControlInv, WorkerInv, WorkerType
  <2> QED
    BY <1>1, <2>1 DEF UidInv, Working
<1>3. ASSUME NEW k \in ChildKeys, k[1] = g.namespace, child'[k] # NoChild PROVE FALSE
  <2>1. child'[k] \in Children /\ child'[k].owner = g /\ child'[k].uid \in Nat
    BY <1>1, <1>3, ChildFields DEF ControlInv, ClusterInv, ClusterType, OwnerInv, SoleTenants
  <2> QED
    BY <1>1, <1>3, <2>1 DEF UidInv
<1>4. ASSUME NEW k \in ChildKeys, k[1] = g.namespace PROVE childCache'[k] = NoChild
  BY <1>4, WhoChildCaches DEF Untouched
<1> QED
  BY <1>2, <1>3, <1>4 DEF Untouched

(* Neither pods nor a worker on its way to them, and no allow-ingress that *)
(* createOrSkip could take to be there.                                    *)
Podless(g, s) ==
  /\ ~(Working(g) /\ Past("allowIngress"))
  /\ childCache[ChildKey(g, s, "allowIngress")] = NoChild
  /\ child[ChildKey(g, s, "statefulSet")] = NoChild

Ingress(g, s) == child[ChildKey(g, s, "allowIngress")] # NoChild

InOrder(g) == \E s \in Specs : s = ad[g].spec /\ (Ingress(g, s) \/ Podless(g, s))

GateInv ==
  \A g \in CRs :
    /\ created[g] = 0 => Untouched(g)
    /\ created[g] = 1 /\ ad[g].uid = 1 => InOrder(g)

(* Nobody takes away the only child there has ever been. *)
LEMMA FirstChildStays ==
  ASSUME SoleTenants, "prune" \notin UserActions, ControlInv, OwnerInv, UidInv, Next,
         NEW g \in CRs, created[g] = 1, ad[g].uid = 1,
         NEW k \in ChildKeys, k[1] = g.namespace, child[k] # NoChild
  PROVE  child'[k] # NoChild
<1>1. child[k] \in Children /\ child[k].owner = g /\ child[k].uid \in Nat
  BY ChildFields DEF ControlInv, ClusterInv, ClusterType, OwnerInv, SoleTenants
<1>2. child[k].uid = 1
  BY <1>1 DEF UidInv
<1>3. ~Collect(k) /\ ~Prune(k)
  BY <1>1, <1>2 DEF Collect, Garbage, Prune, ChildWrite, UserAction
<1>4. ASSUME NEW c, StoreChild(k, c), WritesChild(k, c) PROVE child'[k] # NoChild
  <2>1. \A s \in Specs : Resized(child[k], s) # NoChild
    BY <1>1, ScaledType, ChildFields DEF Resized
  <2>2. obj.spec \in Specs
    BY ObjectFields DEF ControlInv, WorkerInv, WorkerType
  <2> QED
    BY <1>3, <1>4, <2>1, <2>2, WrittenChild DEF WritesChild
<1> QED
  BY <1>4, WhoWritesChild

(* The worker makes sure of allow-ingress before it gets to the pods. *)
LEMMA IngressComesFirst ==
  ASSUME SoleTenants, "allowIngress" \in Kinds, ControlInv, OwnerInv, UidInv, BornInv, Next,
         NEW g \in CRs, NEW s \in Specs, Podless(g, s), ~Ingress(g, s),
         Working(g) => obj.spec = s
  PROVE  Ingress(g, s)' \/ Podless(g, s)'
<1> DEFINE k == ChildKey(g, s, "allowIngress")
           p == ChildKey(g, s, "statefulSet")
<1>1. /\ k \in ChildKeys /\ p \in ChildKeys /\ k[3] = "allowIngress" /\ p[3] = "statefulSet"
      /\ k[1] = g.namespace /\ p[1] = g.namespace
  BY KindsAssumption, ChildKeyType
<1>2. child[k] = NoChild /\ childCache[k] = NoChild /\ child[p] = NoChild
  BY DEF Podless, Ingress
<1>3. childCache'[k] = NoChild
  BY <1>1, <1>2, WhoChildCaches
<1>4. child'[p] = NoChild
  <2>1. ASSUME NEW c, StoreChild(p, c), WritesChild(p, c) PROVE FALSE
    <3>1. /\ pc \in Kinds /\ key \in CRs /\ p = ChildKey(key, obj.spec, pc)
      BY <1>1, <1>2, <2>1 DEF WritesChild, ControlInv, WorkerInv, WorkerType
    <3>2. pc = "statefulSet" /\ key = g
      BY <1>1, <3>1 DEF ChildKey, SoleTenants
    <3>3. Working(g) /\ Past("allowIngress")
      BY <3>1, <3>2, StepNames DEF Working, Past, Rank
    <3> QED
      BY <3>3 DEF Podless
  <2> QED
    BY <1>1, <1>2, <2>1, WhoWritesChild
<1>5. ASSUME Working(g)', Past("allowIngress")' PROVE child'[k] # NoChild
  <2>1. /\ pc = "allowIngress" /\ EnsureStep /\ key = g /\ pc' # "idle"
    BY <1>5, PastMoves DEF Working, Podless
  <2>2. k = ChildKey(key, obj.spec, pc)
    BY <2>1, StepNames DEF Working
  <2> HIDE DEF k
  <2>3. \E c \in Children : StoreChild(k, c)
    BY <1>2, <2>1, <2>2, EnsureWrites
  <2> QED
    BY <1>1, <2>3, ChildFields DEF StoreChild, ControlInv, ClusterInv, ClusterType
<1> QED
  BY <1>3, <1>4, <1>5 DEF Ingress, Podless

LEMMA NextGate ==
  ASSUME SoleTenants, "edit" \notin UserActions, "prune" \notin UserActions,
         "allowIngress" \in Kinds, ControlInv, OwnerInv, UidInv, BornInv, GateInv, [Next]_vars
  PROVE  GateInv'
<1>1. CASE UNCHANGED vars
  BY <1>1 DEF GateInv, InOrder, Untouched, Podless, Ingress, Working, Past,
     vars, cluster, caches, worker
<1>2. CASE Next
  <2> SUFFICES ASSUME NEW g \in CRs
               PROVE  /\ created'[g] = 0 => Untouched(g)'
                      /\ created'[g] = 1 /\ ad'[g].uid = 1 => InOrder(g)'
    BY DEF GateInv
  <2>1. /\ created[g] \in Nat /\ created'[g] \in {created[g], created[g] + 1}
        /\ ad[g].uid <= created[g] /\ ad[g].uid \in Nat
    BY <1>2, CreatedGrows, ObjectFields DEF UidInv, ControlInv, ClusterInv, ClusterType
  <2>2. created'[g] = 0 => Untouched(g)'
    BY <1>2, <2>1, UntouchedStays DEF GateInv
  <2>3. ASSUME created'[g] = 1, ad'[g].uid = 1, NEW s \in Specs, s = ad'[g].spec
        PROVE  Ingress(g, s)' \/ Podless(g, s)'
    <3> DEFINE k == ChildKey(g, s, "allowIngress")
               p == ChildKey(g, s, "statefulSet")
    <3>1. k \in ChildKeys /\ p \in ChildKeys /\ k[1] = g.namespace /\ p[1] = g.namespace
      BY KindsAssumption, ChildKeyType
    <3>2. CASE created[g] = 0
      <4>1. ~Working(g) /\ child[k] = NoChild /\ childCache[k] = NoChild /\ child[p] = NoChild
        BY <3>1, <3>2 DEF GateInv, Untouched
      <4>2. Podless(g, s) /\ ~Ingress(g, s)
        BY <4>1 DEF Podless, Ingress
      <4> QED
        BY <1>2, <4>1, <4>2, IngressComesFirst
    <3>3. CASE created[g] = 1
      <4>1. ad[g].uid = 1 /\ s = ad[g].spec
        BY <1>2, <2>3, <3>3, SameIncarnation
      <4>2. CASE Ingress(g, s)
        BY <1>2, <3>1, <3>3, <4>1, <4>2, FirstChildStays DEF Ingress
      <4>3. CASE Podless(g, s) /\ ~Ingress(g, s)
        <5>1. ASSUME Working(g) PROVE obj.spec = s
          <6>1. obj.uid \in Nat
            BY ObjectFields DEF ControlInv, WorkerInv, WorkerType
          <6>2. key = g /\ obj.uid # 0 /\ obj.uid <= 1
            BY <3>3, <5>1 DEF UidInv, Working
          <6>3. obj.uid = ad[key].uid
            BY <4>1, <6>1, <6>2
          <6> QED
            BY <4>1, <5>1, <6>2, <6>3 DEF BornInv, CopyBorn, Working
        <5> QED
          BY <1>2, <4>3, <5>1, IngressComesFirst
      <4> QED
        BY <3>3, <4>1, <4>2, <4>3 DEF GateInv, InOrder
    <3> QED
      BY <2>1, <2>3, <3>2, <3>3
  <2>4. ad'[g].spec \in Specs
    BY NextControl, ObjectFields DEF ControlInv, ClusterInv, ClusterType
  <2> QED
    BY <2>2, <2>3, <2>4 DEF InOrder
<1> QED
  BY <1>1, <1>2

LEMMA GateHolds ==
  ASSUME SoleTenants, "edit" \notin UserActions, "prune" \notin UserActions,
         "allowIngress" \in Kinds
  PROVE  Spec => []GateInv
<1>1. Init => GateInv
  BY NoObjectType DEF Init, GateInv, Untouched, Working
<1>2. ControlInv /\ OwnerInv /\ UidInv /\ BornInv /\ GateInv /\ [Next]_vars => GateInv'
  BY NextGate
<1> QED
  BY <1>1, <1>2, ControlHolds, OwnersHold, UidsHold, BornHolds, PTL DEF Spec

(* Of one policy the pods know at most one child, and it was built for     *)
(* their AppDeployment.                                                    *)
LEMMA PoliciesOfOne ==
  ASSUME SoleTenants, ControlInv, OwnerInv, UidInv, BornInv,
         NEW g \in CRs, created[g] = 1, ad[g].uid = 1,
         NEW s \in Specs, s = ad[g].spec, NEW kind \in Kinds, kind # "statefulSet",
         child[ChildKey(g, s, kind)] # NoChild
  PROVE  child[ChildKey(g, s, kind)].spec = s
<1> DEFINE k == ChildKey(g, s, kind)
<1>1. k \in ChildKeys /\ k[1] = g.namespace /\ k[3] = kind /\ child[k] # NoChild
  BY ChildKeyType
<1> HIDE DEF k
<1>2. child[k] \in Children /\ child[k].owner = g /\ child[k].uid \in Nat
  BY <1>1, ChildFields DEF ControlInv, ClusterInv, ClusterType, OwnerInv, SoleTenants
<1>3. child[k].uid # 0 /\ child[k].uid <= 1
  BY <1>1, <1>2 DEF UidInv
<1>4. child[k].uid = ad[child[k].owner].uid
  BY <1>2, <1>3
<1>5. BuiltFrom(child[k].spec, s, kind)
  BY <1>1, <1>2, <1>4 DEF BornInv, ChildBorn
<1>6. child[k].spec = s
  BY <1>5 DEF BuiltFrom
<1> QED
  BY <1>6 DEF k

(* From the moment they exist, pods that have a proxy, and leave it its    *)
(* port, can be reached through it only, whatever fails, is restarted or   *)
(* comes late.                                                             *)
THEOREM PodsAreAlwaysGated ==
  ASSUME SoleTenants, "edit" \notin UserActions, "prune" \notin UserActions,
         "allowIngress" \in Kinds, \A s \in Specs : s.oidc => s.port # ProxyPort
  PROVE  Spec => []PodsAreGated
<1>1. ASSUME ControlInv, OwnerInv, UidInv, BornInv, GateInv,
             NEW g \in CRs, NEW p \in ChildKeys, p[3] = "statefulSet", child[p] # NoChild,
             child[p].owner = g, ~Garbage(p), created[g] = 1, child[p].spec.oidc
      PROVE  Gated(Pod(child[p].spec), PoliciesAround(p[1], p[2]))
  <2>1. child[p].uid \in Nat /\ child[p].uid = ad[g].uid /\ child[p].uid # 0
        /\ child[p].uid <= 1
    BY <1>1, ChildFields DEF ControlInv, ClusterInv, ClusterType, UidInv, Garbage
  <2>2. ad[g].uid = 1
    BY <2>1
  <2>3. PICK s \in Specs : s = ad[g].spec /\ (Ingress(g, s) \/ Podless(g, s))
    BY <1>1, <2>2 DEF GateInv, InOrder
  <2> DEFINE K == {i \in Kinds \cap PolicyKinds : child[ChildKey(g, s, i)] # NoChild}
             around == PoliciesAround(p[1], p[2])
  <2>4. p = ChildKey(g, s, "statefulSet") /\ BuiltFrom(child[p].spec, s, "statefulSet")
    BY <1>1, <2>1, <2>3 DEF BornInv, ChildBorn
  <2>5. Pod(child[p].spec) = Pod(s) /\ s.oidc
    BY <1>1, <2>4, SamePod
  <2>6. K \in SUBSET PolicyKinds /\ "allowIngress" \in K
    BY <1>1, <2>3, <2>4 DEF Ingress, Podless, PolicyKinds
  <2>7. \A i \in K : child[ChildKey(g, s, i)].spec = s
    BY <1>1, <2>2, <2>3, PoliciesOfOne DEF PolicyKinds
  <2>8. around = Policies(K, s)
    <3>1. \A i : child[<<p[1], p[2], i>>] = child[ChildKey(g, s, i)]
      BY <2>4 DEF ChildKey
    <3>2. {i \in Kinds \cap PolicyKinds : child[<<p[1], p[2], i>>] # NoChild} = K
      BY <3>1
    <3> HIDE DEF K
    <3> QED
      BY <2>7, <3>1, <3>2 DEF PoliciesAround, Policies
  <2> HIDE DEF K, around
  <2>9. Gated(Pod(s), Policies(K, s))
    BY <1>1, <2>5, <2>6, SpecsAssumption, OneSpecIsServedAndGated
  <2> QED
    BY <2>5, <2>8, <2>9 DEF around
<1>2. ControlInv /\ OwnerInv /\ UidInv /\ BornInv /\ GateInv => PodsAreGated
  BY <1>1 DEF PodsAreGated
<1> QED
  BY <1>2, ControlHolds, OwnersHold, UidsHold, BornHolds, GateHolds, PTL

-----------------------------------------------------------------------------
(* All children are present, the one that is not watched included, where   *)
(* no AppDeployment is created again under its name and nobody deletes     *)
(* children by hand.                                                       *)

LEMMA CreatedOnce ==
  ASSUME "recreate" \notin UserActions, ControlInv, Next, NEW g \in CRs, created[g] <= 1
  PROVE  created'[g] <= 1
<1>1. created \in [CRs -> Nat]
  BY DEF ControlInv, ClusterInv, ClusterType
<1>2. \/ UNCHANGED created
      \/ \E h \in CRs : created[h] = 0 /\ created' = [created EXCEPT ![h] = @ + 1]
  <2>1. ASSUME NEW h \in CRs, NEW s \in Specs, UserCreate(h, s)
        PROVE  created[h] = 0 /\ created' = [created EXCEPT ![h] = @ + 1]
    BY <2>1 DEF UserCreate, UserWrite, UserAction
  <2>2. CASE Users
    BY <2>1, <2>2 DEF Users, UserEdit, UserDelete, Prune, Scale, ChildWrite, ToggleConfig
  <2>3. ASSUME NEW h \in CRs, Reconcile(h) PROVE UNCHANGED created
    BY <2>3 DEF Reconcile, ReconcileNothing, ReconcileDeletion, ReconcileAddFinalizer,
       ReconcileConfigMissing, ReconcileRegister, ReconcileWorkload, Start, Take, cluster
  <2>4. ASSUME NEW out \in Outcomes, Step(out) PROVE UNCHANGED created
    BY <2>4 DEF Step, OidcRequest, AddFinalizer, WriteFailure, EnsureChild,
       EnsureStatefulSet, WriteReady, RemoveFinalizer, Calls, cluster
  <2> QED
    BY <2>2, <2>3, <2>4 DEF Next, Registered, CleanedUp, CacheSync, TimerFire, Resync,
       ChildSync, Collect, Services, Restart, cluster
<1> QED
  BY <1>1, <1>2

(* The first AppDeployment of a name is the only one, and a child of it    *)
(* that the cache shows is there.                                          *)
OnceInv ==
  \A g \in CRs :
    /\ created[g] <= 1
    /\ created[g] = 0 => Untouched(g)
    /\ ad[g].uid # 0 =>
         \A k \in ChildKeys :
           k[1] = g.namespace /\ childCache[k] # NoChild => child[k] # NoChild

LEMMA NextOnce ==
  ASSUME SoleTenants, {"recreate", "prune"} \cap UserActions = {},
         ControlInv, OwnerInv, UidInv, OnceInv, [Next]_vars
  PROVE  OnceInv'
<1>1. CASE UNCHANGED vars
  BY <1>1 DEF OnceInv, Untouched, Working, vars, cluster, caches, worker
<1>2. CASE Next
  <2> SUFFICES ASSUME NEW g \in CRs
               PROVE  /\ created'[g] <= 1
                      /\ created'[g] = 0 => Untouched(g)'
                      /\ ad'[g].uid # 0 =>
                           \A k \in ChildKeys :
                             k[1] = g.namespace /\ childCache'[k] # NoChild => child'[k] # NoChild
    BY DEF OnceInv
  <2>1. /\ created[g] \in Nat /\ created'[g] \in {created[g], created[g] + 1}
        /\ ad[g].uid <= created[g] /\ ad[g].uid \in Nat
    BY <1>2, CreatedGrows, ObjectFields DEF UidInv, ControlInv, ClusterInv, ClusterType
  <2>2. created'[g] <= 1 /\ created[g] <= 1
    BY <1>2, CreatedOnce DEF OnceInv
  <2>3. created'[g] = 0 => Untouched(g)'
    BY <1>2, <2>1, UntouchedStays DEF OnceInv
  <2>4. ASSUME ad'[g].uid # 0, NEW k \in ChildKeys, k[1] = g.namespace,
               childCache'[k] # NoChild
        PROVE  child'[k] # NoChild
    <3>1. childCache'[k] \in {childCache[k], child[k]}
      BY <1>2, WhoChildCaches
    <3>2. created[g] = 1
      BY <2>1, <2>2, <2>4, <3>1 DEF OnceInv, Untouched
    <3>3. ad[g].uid = 1
      BY <1>2, <2>1, <2>2, <2>4, <3>2, Incarnation
    <3>4. child[k] # NoChild
      BY <2>4, <3>1, <3>3 DEF OnceInv
    <3> QED
      BY <1>2, <2>4, <3>2, <3>3, <3>4, FirstChildStays
  <2> QED
    BY <2>2, <2>3, <2>4
<1> QED
  BY <1>1, <1>2

(* A child is there, or its owner is to be looked at, or the worker still  *)
(* comes to it.                                                            *)
EnsuredInv ==
  \A g \in CRs : ad[g].phase = "live" =>
    \A k \in OwnKeys(g) :
      child[k] # NoChild \/ Queued(g) \/ (Working(g) /\ ~Past(k[3]))

LEMMA NextEnsured ==
  ASSUME SoleTenants, {"recreate", "prune"} \cap UserActions = {},
         ControlInv, OwnerInv, UidInv, OnceInv, EnsuredInv, [Next]_vars
  PROVE  EnsuredInv'
<1> SUFFICES ASSUME NEW g \in CRs, ad'[g].phase = "live", ~Queued(g)',
                    NEW k \in OwnKeys(g)'
             PROVE  child'[k] # NoChild \/ (Working(g)' /\ ~Past(k[3])')
  BY DEF EnsuredInv
<1>1. ad'[g] = ad[g] /\ g \notin behind'
  BY WhoWrites DEF Queued, vars, cluster
<1>2. ad[g].phase = "live" /\ k \in OwnKeys(g)
  BY <1>1 DEF OwnKeys
<1>3. /\ k \in ChildKeys /\ k[1] = g.namespace /\ k[3] \in Kinds
      /\ k = ChildKey(g, ad[g].spec, k[3])
  <2>1. ad[g].spec \in Specs
    BY ObjectFields DEF ControlInv, ClusterInv, ClusterType
  <2>2. PICK kind \in Kinds : k = ChildKey(g, ad[g].spec, kind)
    BY <1>2 DEF OwnKeys
  <2> QED
    BY <2>1, <2>2, ChildKeyType
<1>4. created[g] = 1 /\ ad[g].uid = 1
  <2>1. created[g] \in Nat /\ ad[g].uid \in Nat
    BY ObjectFields DEF ControlInv, ClusterInv, ClusterType
  <2> QED
    BY <1>2, <2>1 DEF UidInv, OnceInv
<1>5. CASE UNCHANGED vars
  BY <1>1, <1>2, <1>5 DEF EnsuredInv, Queued, Working, Past, vars, cluster, caches,
     scheduler, worker
<1>6. CASE Next /\ Queued(g)
  <2>1. Reconcile(g)
    BY <1>2, <1>6, QueuedStays
  <2>2. Working(g)' /\ pc' # "writeReady" /\ (pc' \in Kinds => pc' = First(Kinds))
    BY <1>2, <2>1, TakenIsWorkedOn
  <2> QED
    BY <1>3, <2>2, FirstChild DEF Past
<1>7. CASE Next /\ child[k] # NoChild
  BY <1>3, <1>4, <1>7, FirstChildStays
<1>8. CASE Next /\ Working(g) /\ ~Past(k[3]) /\ ~Queued(g)
  <2>1. /\ Working(g)' /\ pc # "idle" /\ key = g
        /\ \/ pc' = pc
           \/ pc' \in {"writeFailure", "removeFinalizer", First(Kinds)}
           \/ pc \in Kinds /\ pc' = AfterChild(pc) /\ EnsureStep
    BY <1>1, <1>2, <1>8, WorkingMoves, NoObjectType DEF Past, Working
  <2>2. CASE pc' = pc
    BY <1>8, <2>1, <2>2 DEF Past
  <2>3. CASE pc' \in {"writeFailure", "removeFinalizer", First(Kinds)}
    BY <1>3, <2>1, <2>3, FirstChild, StepNames DEF Past
  <2>4. CASE pc \in Kinds /\ pc' = AfterChild(pc) /\ EnsureStep /\ k[3] = pc
    <3>1. obj.spec = ad[g].spec
      BY <1>8, <2>1, <2>4, StepNames
         DEF ControlInv, WorkerInv, CopyInv, SameButStatus, Queued
    <3>2. k = ChildKey(key, obj.spec, pc) /\ pc' # "idle"
      BY <1>3, <2>1, <2>4, <3>1 DEF Working
    <3>3. \/ UNCHANGED child /\ childCache[k] # NoChild
          \/ \E c \in Children : StoreChild(k, c)
      BY <2>4, <3>2, EnsureWrites
    <3>4. CASE UNCHANGED child /\ childCache[k] # NoChild
      BY <1>3, <1>4, <3>4 DEF OnceInv
    <3>5. ASSUME NEW c \in Children, StoreChild(k, c) PROVE child'[k] # NoChild
      BY <1>3, <3>5, ChildFields DEF StoreChild, ControlInv, ClusterInv, ClusterType
    <3> QED
      BY <3>3, <3>4, <3>5
  <2>5. CASE pc \in Kinds /\ pc' = AfterChild(pc) /\ k[3] # pc
    BY <1>3, <1>8, <2>1, <2>5, NextChild, StepNames DEF Past
  <2> QED
    BY <2>1, <2>2, <2>3, <2>4, <2>5
<1> QED
  BY <1>2, <1>5, <1>6, <1>7, <1>8 DEF EnsuredInv

(* "All workload resources are present", the ConfigMap included, although  *)
(* nothing watches it: where no AppDeployment is created again under its   *)
(* name and nobody deletes children, none ever goes missing unnoticed,     *)
(* whatever fails, is edited, scaled, restarted or comes late.             *)
THEOREM AllChildrenArePresent ==
  ASSUME SoleTenants, {"recreate", "prune"} \cap UserActions = {}
  PROVE  Spec => []SettledMeansAllPresent
<1>1. Init => OnceInv /\ EnsuredInv
  BY NoObjectType DEF Init, OnceInv, EnsuredInv, Untouched, Working
<1>2. /\ ControlInv /\ OwnerInv /\ UidInv /\ OnceInv /\ EnsuredInv /\ [Next]_vars
      => OnceInv' /\ EnsuredInv'
  BY NextOnce, NextEnsured
<1>3. EnsuredInv => SettledMeansAllPresent
  BY DEF EnsuredInv, SettledMeansAllPresent, Quiet, Queued, Working
<1> QED
  BY <1>1, <1>2, <1>3, ControlHolds, OwnersHold, UidsHold, PTL DEF Spec

-----------------------------------------------------------------------------
(* What happens to the client, the worker and the cache. *)

(* Whoever is not calling leaves the services alone. *)
LEMMA ClientMoves ==
  ASSUME ControlInv, Next
  PROVE  \/ \E out \in Outcomes : OidcRequest(out)
         \/ Services
         \/ /\ UNCHANGED <<services, cookies>> /\ result' \in {result, "none"}
            /\ \/ call' = "token" /\ found' = found
               \/ call' = "idle" /\ pc' = "idle" /\ found' = 0
               \/ UNCHANGED <<call, op, app, found, creds>>
<1> DEFINE Kept == /\ UNCHANGED <<services, cookies>> /\ result' \in {result, "none"}
                   /\ UNCHANGED <<call, op, app, found, creds>>
<1>1. UNCHANGED oidcVars => Kept
  BY DEF oidcVars, request
<1>2. ASSUME NEW g \in CRs, Reconcile(g)
      PROVE  \/ Kept
             \/ /\ UNCHANGED <<services, cookies>> /\ call' = "token"
                /\ found' = found /\ result' = "none"
  BY <1>1, <1>2 DEF Reconcile, ReconcileNothing, ReconcileDeletion, ReconcileAddFinalizer,
     ReconcileConfigMissing, ReconcileRegister, ReconcileWorkload, StartRegister,
     StartDeregister, Begin
<1>3. ASSUME NEW c, NEW out, Calls(c, out) PROVE Kept
  BY <1>3 DEF Calls, request
<1>4. ASSUME NEW out \in Outcomes, Step(out) PROVE OidcRequest(out) \/ Kept
  BY <1>3, <1>4 DEF Step, AddFinalizer, WriteFailure, EnsureChild, EnsureStatefulSet,
     WriteReady, RemoveFinalizer
<1>5. CASE Registered \/ CleanedUp
  BY <1>5 DEF Registered, CleanedUp
<1>6. CASE Users
  <2>1. \A a : UserAction(a) => Kept
    BY <1>1 DEF UserAction
  <2> QED
    BY <1>6, <2>1 DEF Users, UserCreate, UserEdit, UserDelete, UserWrite, Prune, Scale,
       ChildWrite, ToggleConfig
<1>7. CASE Restart
  BY <1>7 DEF Restart, Abandon, Finish, Return
<1>8. ASSUME (\E h \in CRs : CacheSync(h) \/ TimerFire(h) \/ Resync(h))
             \/ (\E k \in ChildKeys : ChildSync(k) \/ Collect(k))
      PROVE  Kept
  BY <1>1, <1>8 DEF CacheSync, TimerFire, Resync, ChildSync, Collect
<1> QED
  BY <1>2, <1>4, <1>5, <1>6, <1>7, <1>8 DEF Next

(* The copy is no staler than it was. *)
StaysFresh == fresh' => fresh /\ (key \in behind' => key \in behind)

(* The ways the worker is at work after a step. *)
LEMMA WorkerGoesOn ==
  ASSUME ControlInv, Next, pc' # "idle"
  PROVE  \/ UNCHANGED <<pc, key, obj>> /\ StaysFresh
         \/ Registered
         \/ CleanedUp
         \/ /\ pc \in Kinds /\ pc' \in Kinds \cup {"writeReady"}
            /\ UNCHANGED <<key, obj, fresh, ad, behind>>
         \/ pc = "idle" /\ \E g \in CRs : Reconcile(g) /\ key' = g
<1>1. ASSUME NEW g \in CRs, Reconcile(g)
      PROVE  pc = "idle" /\ Reconcile(g) /\ key' = g
  BY <1>1 DEF Reconcile, ReconcileNothing, ReconcileDeletion, ReconcileAddFinalizer,
     ReconcileConfigMissing, ReconcileRegister, ReconcileWorkload, Start, Take, worker
<1>2. ASSUME NEW out \in Outcomes, EnsureChild(out) \/ EnsureStatefulSet(out)
      PROVE  /\ pc \in Kinds /\ pc' \in Kinds \cup {"writeReady"}
             /\ UNCHANGED <<key, obj, fresh, ad, behind>>
  <2>1. /\ pc \in Kinds /\ (Requeue \/ Continue(AfterChild(pc), obj))
        /\ UNCHANGED <<ad, behind>>
    BY <1>2, KindsAssumption DEF EnsureChild, EnsureStatefulSet
  <2>2. AfterChild(pc) \in Kinds \cup {"writeReady"}
    BY <2>1, NextChild
  <2> QED
    BY <2>1, <2>2 DEF Requeue, Return, Continue
<1>3. ASSUME NEW out \in Outcomes,
             AddFinalizer(out) \/ WriteFailure(out) \/ WriteReady(out) \/ RemoveFinalizer(out)
      PROVE  FALSE
  BY <1>3 DEF AddFinalizer, WriteFailure, WriteReady, RemoveFinalizer, Requeue,
     RequeueLater, Done, Return
<1>4. ASSUME NEW out \in Outcomes, OidcRequest(out)
      PROVE  UNCHANGED <<pc, key, obj>> /\ StaysFresh
  BY <1>4 DEF OidcRequest, worker, caches, StaysFresh
<1>5. CASE Users
  <2>1. \A a : UserAction(a) => UNCHANGED <<pc, key, obj>>
    BY DEF UserAction
  <2>2. ASSUME NEW a, NEW h, NEW o, UserWrite(a, h, o)
        PROVE  UNCHANGED <<pc, key, obj>> /\ StaysFresh
    <3>1. fresh' = (fresh /\ key # h) /\ behind' \subseteq behind \cup {h}
      BY <2>2 DEF UserWrite, Store
    <3> QED
      BY <2>1, <2>2, <3>1 DEF UserWrite, StaysFresh
  <2>3. ASSUME NEW a, NEW k, NEW c, ChildWrite(a, k, c)
        PROVE  UNCHANGED <<pc, key, obj>> /\ StaysFresh
    BY <2>1, <2>3 DEF ChildWrite, StaysFresh
  <2>4. ASSUME NEW n, ToggleConfig(n)
        PROVE  UNCHANGED <<pc, key, obj>> /\ StaysFresh
    BY <2>1, <2>4 DEF ToggleConfig, StaysFresh
  <2> QED
    BY <1>5, <2>2, <2>3, <2>4 DEF Users, UserCreate, UserEdit, UserDelete, Prune, Scale
<1>6. ASSUME Services \/ (\E h \in CRs : CacheSync(h) \/ TimerFire(h) \/ Resync(h))
             \/ (\E k \in ChildKeys : ChildSync(k) \/ Collect(k))
      PROVE  UNCHANGED <<pc, key, obj>> /\ StaysFresh
  BY <1>6 DEF Services, CacheSync, TimerFire, Resync, ChildSync, Collect, worker, caches,
     StaysFresh
<1>7. ~Restart
  BY DEF Restart, Return
<1> QED
  BY <1>1, <1>2, <1>3, <1>4, <1>5, <1>6, <1>7 DEF Next, Step

(* What the worker starts with, and on what grounds it starts where.       *)
LEMMA StartedFrom ==
  ASSUME ControlInv, NEW g \in CRs, Reconcile(g), pc' # "idle"
  PROVE  LET o == adCache[g] IN
         /\ UNCHANGED <<ad, cfg, adCache, behind>>
         /\ fresh' => g \notin behind
         /\ obj'.phase = o.phase /\ obj'.spec = o.spec /\ obj'.status.oidc = o.status.oidc
         /\ pc' \in {"addFinalizer", "writeFailure"} => obj'.finalizer
         /\ pc' = "register" => o.phase = "live" /\ o.finalizer /\ o.spec.oidc
         /\ pc' \in {"register", "cleanup"} => call' = "token"
         /\ pc' = "cleanup" => o.phase = "deleting"
         /\ pc' = "removeFinalizer" /\ o.spec.oidc => g.namespace \notin cfg
<1>1. adCache[g] \in Objects /\ pc = "idle"
  BY DEF ControlInv, ClusterInv, ClusterType, Reconcile, ReconcileNothing, ReconcileDeletion,
     ReconcileAddFinalizer, ReconcileConfigMissing, ReconcileRegister, ReconcileWorkload,
     Start, Take
<1> DEFINE From(o) ==
      \/ o.phase = "deleting" /\ ((Start(g, "cleanup", o) /\ call' = "token")
                                 \/ (Start(g, "removeFinalizer", o)
                                     /\ (o.spec.oidc => g.namespace \notin cfg)))
      \/ Start(g, "addFinalizer", [o EXCEPT !.finalizer = TRUE])
      \/ o.finalizer /\ Start(g, "writeFailure", ConfigMissing(o))
      \/ /\ o.phase = "live" /\ o.finalizer /\ o.spec.oidc
         /\ Start(g, "register", o) /\ call' = "token"
      \/ Start(g, First(Kinds), o)
<1>2. From(adCache[g])
  BY <1>1 DEF Reconcile, ReconcileNothing, ReconcileDeletion, ReconcileAddFinalizer,
     ReconcileConfigMissing, ReconcileRegister, ReconcileWorkload, Deleting, Reconcilable,
     StartRegister, StartDeregister, Begin, Take, worker
<1>3. ASSUME NEW o \in Objects
      PROVE  /\ [o EXCEPT !.finalizer = TRUE].finalizer
             /\ [o EXCEPT !.finalizer = TRUE].status = o.status
             /\ ConfigMissing(o).finalizer = o.finalizer
             /\ ConfigMissing(o).status.oidc = o.status.oidc
             /\ [o EXCEPT !.finalizer = TRUE].phase = o.phase
             /\ [o EXCEPT !.finalizer = TRUE].spec = o.spec
             /\ ConfigMissing(o).phase = o.phase /\ ConfigMissing(o).spec = o.spec
  <2>1. /\ SameButStatus(ConfigMissing(o), o)
        /\ SameButStatus([o EXCEPT !.finalizer = TRUE], o)
    BY StatusType
  <2>2. /\ [o EXCEPT !.finalizer = TRUE].finalizer
        /\ [o EXCEPT !.finalizer = TRUE].status = o.status
    BY DEF Objects
  <2>3. /\ ConfigMissing(o).finalizer = o.finalizer
        /\ ConfigMissing(o).status.oidc = o.status.oidc
    BY DEF Objects, Statuses, ConfigMissing
  <2> QED
    BY <2>1, <2>2, <2>3 DEF SameButStatus
<1>4. ASSUME NEW step, NEW p, Start(g, step, p)
      PROVE  /\ pc' = step /\ obj' = p /\ (fresh' => g \notin behind)
             /\ UNCHANGED <<ad, cfg, adCache, behind>>
  BY <1>4 DEF Start, Take, cluster, caches
<1>5. First(Kinds) \notin {"addFinalizer", "writeFailure", "register", "cleanup", "removeFinalizer"}
  BY FirstChild, StepNames
<1> SUFFICES ASSUME NEW o \in Objects, From(o)
             PROVE  /\ UNCHANGED <<ad, cfg, adCache, behind>>
                    /\ fresh' => g \notin behind
                    /\ obj'.phase = o.phase /\ obj'.spec = o.spec
                    /\ obj'.status.oidc = o.status.oidc
                    /\ pc' \in {"addFinalizer", "writeFailure"} => obj'.finalizer
                    /\ pc' = "register" => o.phase = "live" /\ o.finalizer /\ o.spec.oidc
                    /\ pc' \in {"register", "cleanup"} => call' = "token"
                    /\ pc' = "cleanup" => o.phase = "deleting"
                    /\ pc' = "removeFinalizer" /\ o.spec.oidc => g.namespace \notin cfg
  BY <1>1, <1>2
<1>6. CASE \E step \in {"cleanup", "removeFinalizer", "register", First(Kinds)} : Start(g, step, o)
  <2>1. obj' = o /\ pc' \in {"cleanup", "removeFinalizer", "register", First(Kinds)}
    BY <1>4, <1>6
  <2>2. UNCHANGED <<ad, cfg, adCache, behind>> /\ (fresh' => g \notin behind)
    BY <1>4, <1>6
  <2>3. ~ \E step \in {"addFinalizer", "writeFailure"} : \E p : Start(g, step, p)
    BY <1>4, <1>5, <2>1
  <2> QED
    BY <1>4, <1>5, <2>1, <2>2, <2>3
<1>7. ASSUME NEW step \in {"addFinalizer", "writeFailure"}, NEW p, Start(g, step, p),
             p.finalizer, p.status.oidc = o.status.oidc, p.phase = o.phase, p.spec = o.spec
      PROVE  /\ UNCHANGED <<ad, cfg, adCache, behind>> /\ (fresh' => g \notin behind)
             /\ obj'.phase = o.phase /\ obj'.spec = o.spec
             /\ obj'.status.oidc = o.status.oidc /\ obj'.finalizer
             /\ pc' \in {"addFinalizer", "writeFailure"}
  BY <1>4, <1>7
<1>8. Start(g, "addFinalizer", [o EXCEPT !.finalizer = TRUE]) =>
        \E p : /\ Start(g, "addFinalizer", p) /\ p.finalizer /\ p.status.oidc = o.status.oidc
               /\ p.phase = o.phase /\ p.spec = o.spec
  BY <1>3
<1>9. o.finalizer /\ Start(g, "writeFailure", ConfigMissing(o)) =>
        \E p : /\ Start(g, "writeFailure", p) /\ p.finalizer /\ p.status.oidc = o.status.oidc
               /\ p.phase = o.phase /\ p.spec = o.spec
  BY <1>3
<1> QED
  BY <1>6, <1>7, <1>8, <1>9

-----------------------------------------------------------------------------
(* A copy with the newest resourceVersion came from a cache that has it.   *)

FreshInv ==
  /\ pc # "idle" /\ fresh => key \notin behind
  /\ pc \in {"addFinalizer", "writeFailure"} => obj.finalizer

LEMMA NextFresh == ControlInv /\ FreshInv /\ [Next]_vars => FreshInv'
<1> SUFFICES ASSUME ControlInv, FreshInv, [Next]_vars, pc' # "idle"
             PROVE  FreshInv'
  BY DEF FreshInv
<1>1. CASE UNCHANGED vars
  BY <1>1 DEF vars, worker, caches, FreshInv
<1>2. ASSUME NEW g \in CRs, Reconcile(g), key' = g PROVE FreshInv'
  BY <1>2, StartedFrom DEF FreshInv
<1>3. CASE Registered
  <2>1. /\ pc = "register" /\ UNCHANGED <<key, fresh, behind>>
        /\ pc' \in {"writeFailure", First(Kinds)} /\ obj' = Registration(obj, result)
    BY <1>3 DEF Registered, Continue, caches
  <2>2. /\ obj \in Objects /\ obj.finalizer /\ result \in Results
    BY <1>3, <2>1 DEF Registered, ControlInv, WorkerInv, WorkerType, WorkInv, ClientInv
  <2>3. obj'.finalizer
    BY <2>1, <2>2, RegistrationType
  <2> QED
    BY <2>1, <2>3 DEF FreshInv
<1>4. CASE CleanedUp
  BY <1>4 DEF CleanedUp, Continue, caches, FreshInv
<1>5. CASE pc' \in Kinds \cup {"writeReady"} /\ pc \in Kinds /\ UNCHANGED <<key, obj, fresh, ad, behind>>
  BY <1>5, StepNames DEF FreshInv
<1>6. CASE UNCHANGED <<pc, key, obj>> /\ StaysFresh
  BY <1>6 DEF FreshInv, StaysFresh
<1> QED
  BY <1>1, <1>2, <1>3, <1>4, <1>5, <1>6, WorkerGoesOn

LEMMA FreshHolds == Spec => []FreshInv
<1>1. Init => FreshInv
  BY DEF Init, FreshInv
<1> QED
  BY <1>1, NextFresh, ControlHolds, PTL DEF Spec
-----------------------------------------------------------------------------
(* Credentials. *)

LEMMA LateHolds == Spec => []InFlightIsLate
<1>1. ControlInv /\ InFlightIsLate /\ [Next]_vars => InFlightIsLate'
  <2> SUFFICES ASSUME ControlInv, InFlightIsLate, [Next]_vars PROVE InFlightIsLate'
    OBVIOUS
  <2>1. CASE UNCHANGED vars
    BY <2>1 DEF vars, oidcVars, services, InFlightIsLate
  <2>2. CASE UNCHANGED services
    BY <2>2 DEF services, InFlightIsLate
  <2> QED
    BY <2>1, <2>2, ClientMoves, HttpLate, ServiceLate DEF OidcRequest, Services
<1> QED
  BY <1>1, InitLate, ControlHolds, PTL DEF Spec, Init

LEMMA HeldHolds ==
  ASSUME "delete" \notin LateCalls, "client" \notin Losses
  PROVE  Spec => []ClientIsHeld
<1>1. ControlInv /\ InFlightIsLate /\ ClientIsHeld /\ [Next]_vars => ClientIsHeld'
  <2> SUFFICES ASSUME ControlInv, InFlightIsLate, ClientIsHeld, [Next]_vars
               PROVE  ClientIsHeld'
    OBVIOUS
  <2>1. CASE UNCHANGED vars
    BY <2>1 DEF vars, oidcVars, services, request, ClientIsHeld
  <2>2. CASE Services
    BY <2>2, ServiceHeld DEF ControlInv, Services
  <2>3. ASSUME NEW out \in Outcomes, OidcRequest(out) PROVE ClientIsHeld'
    BY <2>3, HttpHeld DEF ControlInv, OidcRequest
  <2>4. CASE call' \in {"token", "idle"}
    BY <2>4 DEF ClientIsHeld
  <2>5. CASE UNCHANGED services /\ UNCHANGED <<call, op, app, found, creds>>
    BY <2>5 DEF services, ClientIsHeld
  <2> QED
    BY <2>1, <2>2, <2>3, <2>4, <2>5, ClientMoves
<1> QED
  BY <1>1, InitHeld, LateHolds, ControlHolds, PTL DEF Spec, Init

(* "Registered" is the truth at the moment it is said, for the controller  *)
(* and its client together, restarts included.                             *)
THEOREM RegistrationIsUsable ==
  ASSUME "delete" \notin LateCalls, "client" \notin Losses
  PROVE  Spec => RegisteredMeansUsable
<1>1. ControlInv /\ ClientIsHeld /\ [Next]_vars =>
        [result # "Registered" /\ result' = "Registered" =>
           clients'[app] # 0 /\ vault'[app].secret = clients'[app]]_oidcVars
  <2> SUFFICES ASSUME ControlInv, ClientIsHeld, [Next]_vars,
                      result # "Registered", result' = "Registered", NEW a, a = app
               PROVE  clients'[a] # 0 /\ vault'[a].secret = clients'[a]
    OBVIOUS
  <2>1. PICK out \in Outcomes : Http(out)
    BY ClientMoves DEF OidcRequest, Services, ServiceStep, Land, Lose, request, vars, oidcVars
  <2> QED
    BY <2>1, HttpRegisters DEF Usable, ControlInv
<1> QED
  BY <1>1, HeldHolds, ControlHolds, PTL DEF Spec, RegisteredMeansUsable

(* Whatever fails and whenever the operator stops, Vault never holds half  *)
(* an entry, nor a number nobody issued.                                   *)
THEOREM CredentialsStayWhole == Spec => []OidcInv
<1>1. ControlInv /\ OidcInv /\ [Next]_vars => OidcInv'
  <2> SUFFICES ASSUME ControlInv, HeldIsIssued, StoredIsIssued, [Next]_vars
               PROVE  HeldIsIssued' /\ StoredIsIssued'
    BY InvParts
  <2>1. OidcTypeOK
    BY DEF ControlInv
  <2>2. CASE UNCHANGED vars
    BY <2>2 DEF vars, oidcVars, services, request, HeldIsIssued, StoredIsIssued, Whole
  <2>3. CASE (\E out \in Outcomes : OidcRequest(out)) \/ Services
    BY <2>1, <2>3, HttpInv, ServiceInv DEF OidcRequest, Services
  <2>4. CASE /\ UNCHANGED <<services, cookies>>
             /\ \/ call' = "token" /\ found' = found
                \/ call' = "idle" /\ found' = 0
                \/ UNCHANGED <<call, found, creds>>
    <3>1. StoredIsIssued'
      BY <2>1, <2>4, SameStoreIssued
    <3>2. HeldIsIssued'
      BY <2>1, <2>4 DEF OidcTypeOK, services, HeldIsIssued
    <3> QED
      BY <3>1, <3>2
  <2> QED
    BY <2>2, <2>3, <2>4, ClientMoves
<1>2. OidcInit => OidcInv
  BY DEF OidcInit, OidcInv, NumbersAreIssued, CredentialsAreWhole, Empty
<1> QED
  BY <1>1, <1>2, ControlHolds, PTL DEF Spec, Init

(* The cleanup is told "Deleted" only when Keycloak has no client of the   *)
(* application any more.                                                   *)
THEOREM DeletionIsTrue == Spec => DeletedMeansGone
<1>1. ControlInv /\ [Next]_vars =>
        [result # "Deleted" /\ result' = "Deleted" => clients'[app] = 0]_oidcVars
  <2> SUFFICES ASSUME ControlInv, [Next]_vars, result # "Deleted", result' = "Deleted",
                      NEW a, a = app
               PROVE  clients'[a] = 0
    OBVIOUS
  <2>1. PICK out \in Outcomes : Http(out)
    BY ClientMoves DEF OidcRequest, Services, ServiceStep, Land, Lose, request, vars, oidcVars
  <2> QED
    BY <2>1, HttpDeletes DEF ControlInv
<1> QED
  BY <1>1, ControlHolds, PTL DEF Spec, DeletedMeansGone

(* The sessions of the users survive everything the controller does, over  *)
(* repeated registrations and restarts, unless a read of Vault fails or a  *)
(* write is carried out after it has been given up on.                     *)
THEOREM CookiesStay ==
  ASSUME "readVault" \notin FaultyCalls, "writeVault" \notin LateCalls
  PROVE  Spec => CookiePreserved
<1>1. ControlInv /\ InFlightIsLate /\ CookieIsHeld /\ [Next]_vars => CookieIsHeld' /\ SameCookies
  <2> SUFFICES ASSUME ControlInv, InFlightIsLate, CookieIsHeld, [Next]_vars
               PROVE  CookieIsHeld' /\ SameCookies
    OBVIOUS
  <2>1. CASE UNCHANGED vars
    BY <2>1 DEF vars, oidcVars, services, request, CookieIsHeld, SameCookies
  <2>2. CASE (\E out \in Outcomes : OidcRequest(out)) \/ Services
    BY <2>2, HttpCookie, ServiceCookie DEF OidcRequest, Services, ControlInv
  <2>3. CASE /\ UNCHANGED services
             /\ call' \in {"token", "idle"} \/ UNCHANGED <<call, app, creds>>
    BY <2>3 DEF services, CookieIsHeld, SameCookies
  <2> QED
    BY <2>1, <2>2, <2>3, ClientMoves
<1>2. SameCookies => [\A a \in Apps : vault[a].cookie # 0 /\ vault'[a].cookie # 0
                        => vault'[a].cookie = vault[a].cookie]_oidcVars
  BY DEF SameCookies
<1> QED
  BY <1>1, <1>2, InitCookie, LateHolds, ControlHolds, PTL DEF Spec, Init, CookiePreserved

LEMMA HttpUsable ==
  ASSUME OidcTypeOK, ClientIsHeld, NEW out, Http(out), NEW a \in Apps, Usable(a),
         app = a => call # "delete"
  PROVE  Usable(a)'
<1>1. clients \in [Apps -> Nat] /\ vault \in [Apps -> Credentials] /\ app \in Apps
  BY DEF OidcTypeOK
<1>2. CASE UNCHANGED services
  BY <1>2 DEF services, Usable
<1>3. CASE CreateClient(out)
  BY <1>1, <1>3 DEF CreateClient, Usable
<1>4. CASE WriteVault(out)
  BY <1>1, <1>4 DEF WriteVault, ClientIsHeld, Usable
<1>5. CASE DeleteClient(out)
  BY <1>1, <1>5 DEF DeleteClient, Usable
<1> QED
  BY <1>2, <1>3, <1>4, <1>5 DEF Http, GetToken, ListClients, GetSecret, ReadVault

LEMMA ServiceUsable ==
  ASSUME Losses = {}, LateCalls \subseteq {"create"}, OidcTypeOK, InFlightIsLate,
         ServiceStep, NEW a \in Apps, Usable(a)
  PROVE  Usable(a)'
<1>1. PICK r \in inFlight : Land(r) /\ r.kind = "create"
  BY DEF ServiceStep, InFlightIsLate
<1>2. vault' = vault /\ (clients[a] # 0 => clients'[a] = clients[a])
  BY <1>1 DEF Land, OidcTypeOK
<1> QED
  BY <1>2 DEF Usable

(* Each AppDeployment is for an application of its own and stays with it.  *)
OneAppEach(Home) == \A g \in CRs : Exists(g) => ad[g].spec.appName = Home[g]

(* Then so are its copies. *)
AtHome(Home) ==
  /\ \A g \in CRs : adCache[g].phase # "absent" => adCache[g].spec.appName = Home[g]
  /\ pc # "idle" => obj.spec.appName = Home[key]

LEMMA HomesHold ==
  ASSUME NEW Home
  PROVE  Spec /\ []OneAppEach(Home) => []AtHome(Home)
<1>1. Init => AtHome(Home)
  BY NoObjectType DEF Init, AtHome
<1>2. ControlInv /\ OneAppEach(Home) /\ AtHome(Home) /\ [Next]_vars => AtHome(Home)'
  <2> SUFFICES ASSUME ControlInv, OneAppEach(Home), AtHome(Home), [Next]_vars
               PROVE  AtHome(Home)'
    OBVIOUS
  <2>1. CASE UNCHANGED vars
    BY <2>1 DEF vars, caches, worker, AtHome
  <2>2. CASE Next
    <3>1. ASSUME NEW g \in CRs, adCache'[g].phase # "absent"
          PROVE  adCache'[g].spec.appName = Home[g]
      BY <2>2, <3>1, WhoCaches DEF OneAppEach, AtHome, Exists
    <3>2. pc' # "idle" => obj'.spec.appName = Home[key']
      BY <2>2, CopyMoves DEF AtHome
    <3> QED
      BY <3>1, <3>2 DEF AtHome
  <2> QED
    BY <2>1, <2>2
<1> QED
  BY <1>1, <1>2, ControlHolds, PTL DEF Spec

(* What the worker writes when it is through with the registration. *)
Writing == pc \in Kinds \cup {"addFinalizer", "writeFailure", "writeReady"}

(* Who says that g is registered: what is stored, of which no old deletion *)
(* is still believed; the copy about to be written; the client.            *)
SaidInStore(g) == ad[g].phase = "live" /\ ad[g].status.oidc = "Registered"

SaidInCopy(g) ==
  /\ Working(g) /\ fresh /\ Writing
  /\ obj.phase = "live" /\ obj.status.oidc = "Registered"

SaidByClient(g) ==
  Working(g) /\ pc = "register" /\ call = "idle" /\ result = "Registered"

CleaningUp(g) == Working(g) /\ pc = "cleanup"

CredentialsInv(Home) ==
  \A g \in CRs :
    /\ SaidInStore(g) \/ SaidInCopy(g) \/ SaidByClient(g) => Usable(Home[g])
    /\ SaidInStore(g) => ~CleaningUp(g) /\ adCache[g].phase # "deleting"

(* Nobody takes from an application what it does not ask for itself. *)
LEMMA UsableStays ==
  ASSUME NEW Home \in [CRs -> Apps], \A g, h \in CRs : Home[g] = Home[h] => g = h,
         Losses = {}, LateCalls \subseteq {"create"},
         ControlInv, InFlightIsLate, ClientIsHeld, AtHome(Home), Next,
         NEW g \in CRs, Usable(Home[g]), ~CleaningUp(g)
  PROVE  Usable(Home[g])'
<1> DEFINE a == Home[g]
<1>1. a \in Apps /\ Usable(a) /\ OidcTypeOK
  BY DEF ControlInv
<1>2. ASSUME app = a, call = "delete" PROVE FALSE
  <2>1. pc = "cleanup" /\ app = obj.spec.appName /\ key \in CRs
    BY <1>2 DEF ControlInv, WorkerInv, WorkerType, ClientInv
  <2>2. pc # "idle" /\ Home[key] = Home[g]
    BY <1>2, <2>1 DEF AtHome
  <2> QED
    BY <2>1, <2>2 DEF CleaningUp, Working
<1> SUFFICES Usable(a)'
  OBVIOUS
<1> HIDE DEF a
<1>3. ASSUME NEW out \in Outcomes, OidcRequest(out) PROVE Usable(a)'
  BY <1>1, <1>2, <1>3, HttpUsable DEF OidcRequest
<1>4. Services => Usable(a)'
  BY <1>1, ServiceUsable DEF Services
<1>5. UNCHANGED services => Usable(a)'
  BY <1>1 DEF services, Usable
<1> QED
  BY <1>3, <1>4, <1>5, ClientMoves

(* A cleanup is begun for what the cache shows as being deleted. *)
LEMMA CleanupBegins ==
  ASSUME ControlInv, Next, NEW g \in CRs, CleaningUp(g)'
  PROVE  CleaningUp(g) \/ adCache[g].phase = "deleting"
<1>1. pc' = "cleanup" /\ key' = g /\ "cleanup" \notin Kinds \cup {"writeReady", "idle"}
      /\ First(Kinds) # "cleanup"
  BY StepNames, FirstChild DEF CleaningUp, Working
<1>2. ~Registered /\ ~CleanedUp
  BY <1>1 DEF Registered, CleanedUp, Continue
<1>3. ASSUME UNCHANGED <<pc, key, obj>> PROVE CleaningUp(g)
  BY <1>1, <1>3 DEF CleaningUp, Working
<1>4. Reconcile(g) => adCache[g].phase = "deleting"
  BY <1>1, StartedFrom
<1> QED
  BY <1>1, <1>2, <1>3, <1>4, WorkerGoesOn

(* What is stored says so because it said so before or was written now.    *)
LEMMA StoreSays ==
  ASSUME ControlInv, FreshInv, Next, NEW g \in CRs, SaidInStore(g)'
  PROVE  \/ SaidInStore(g)
         \/ SaidInCopy(g) /\ adCache[g].phase = "live"
<1>1. CASE ad'[g] = ad[g]
  BY <1>1 DEF SaidInStore
<1>2. CASE UserWrites(g)
  BY <1>2, UserWritesWhat, NoObjectType DEF SaidInStore
<1>3. CASE WorkerWrites(g)
  <2>1. /\ obj \in Objects /\ adCache[g] = ad[g] /\ obj.phase = ad[g].phase
        /\ key = g /\ fresh /\ pc # "idle"
    BY <1>3 DEF WorkerWrites, ControlInv, ClusterInv, WorkerInv, WorkerType, CopyInv,
       SameButStatus, FreshInv
  <2>2. /\ Reconciled(obj).phase = obj.phase
        /\ Reconciled(obj).status.oidc = obj.status.oidc
    BY <2>1, StatusType
  <2>3. /\ pc \in {"addFinalizer", "writeFailure", "writeReady"}
        /\ obj.phase = "live" /\ obj.status.oidc = "Registered"
    BY <1>3, <2>2, NoObjectType DEF WorkerWrites, SaidInStore
  <2> QED
    BY <2>1, <2>3 DEF SaidInCopy, Working, Writing
<1> QED
  BY <1>1, <1>2, <1>3, WhoWrites

(* The copy says so because it did, because the client has just said so,   *)
(* or because it was made from what is stored.                             *)
LEMMA CopySays ==
  ASSUME ControlInv, FreshInv, Next, NEW g \in CRs, SaidInCopy(g)'
  PROVE  SaidInCopy(g) \/ SaidByClient(g) \/ SaidInStore(g)
<1>1. /\ pc' # "idle" /\ key' = g /\ fresh' /\ Writing'
      /\ obj'.phase = "live" /\ obj'.status.oidc = "Registered"
  BY DEF SaidInCopy, Working
<1>2. Kinds \cap {"idle", "register", "cleanup", "removeFinalizer"} = {}
  BY StepNames
<1>3. CASE UNCHANGED <<pc, key, obj>> /\ StaysFresh
  BY <1>1, <1>3 DEF SaidInCopy, Working, Writing, StaysFresh
<1>4. CASE Registered
  <2>1. /\ pc = "register" /\ call = "idle" /\ key = g
        /\ obj' = Registration(obj, result)
    BY <1>1, <1>4 DEF Registered, Continue
  <2>2. obj \in Objects /\ result \in Results
    BY <2>1 DEF ControlInv, WorkerInv, WorkerType, ClientInv
  <2>3. result = "Registered"
    BY <1>1, <2>1, <2>2, RegistrationType
  <2> QED
    BY <2>1, <2>3 DEF SaidByClient, Working
<1>5. ~CleanedUp
  BY <1>1, <1>2 DEF CleanedUp, Continue, Writing
<1>6. CASE pc \in Kinds /\ UNCHANGED <<key, obj, fresh, ad, behind>>
  BY <1>1, <1>2, <1>6 DEF SaidInCopy, Working, Writing
<1>7. CASE Reconcile(g)
  <2>1. adCache[g].phase = "live" /\ adCache[g].status.oidc = "Registered" /\ g \notin behind
    BY <1>1, <1>7, StartedFrom
  <2> QED
    BY <2>1 DEF SaidInStore, ControlInv, ClusterInv
<1> QED
  BY <1>1, <1>3, <1>4, <1>5, <1>6, <1>7, WorkerGoesOn

(* The client says so because it did, or because it is so now.             *)
LEMMA ClientSays ==
  ASSUME NEW Home, ControlInv, ClientIsHeld, AtHome(Home), Next, NEW g \in CRs,
         SaidByClient(g)'
  PROVE  SaidByClient(g) \/ Usable(Home[g])'
<1>1. pc' = "register" /\ key' = g /\ call' = "idle" /\ result' = "Registered"
  BY DEF SaidByClient, Working
<1>2. "register" \notin Kinds \cup {"writeReady", "idle"} /\ First(Kinds) # "register"
  BY StepNames, FirstChild
<1>3. ~Registered /\ ~CleanedUp
  BY <1>1, <1>2 DEF Registered, CleanedUp, Continue
<1>4. ~Reconcile(g)
  BY <1>1, StartedFrom
<1>5. pc = "register" /\ key = g
  BY <1>1, <1>2, <1>3, <1>4, WorkerGoesOn
<1>6. CASE UNCHANGED <<call>> /\ result' \in {result, "none"}
  BY <1>1, <1>5, <1>6 DEF SaidByClient, Working
<1>7. Services => UNCHANGED <<call, result>>
  BY DEF Services, ServiceStep, Land, Lose, request
<1>8. ASSUME NEW out \in Outcomes, OidcRequest(out) PROVE Usable(Home[g])'
  <2>1. Http(out) /\ OidcTypeOK
    BY <1>8 DEF OidcRequest, ControlInv
  <2>2. call # "idle"
    BY <2>1 DEF Http, GetToken, ListClients, CreateClient, GetSecret, ReadVault, WriteVault,
       DeleteClient
  <2>3. app = Home[g]
    BY <1>5, <2>2 DEF ControlInv, WorkerInv, ClientInv, AtHome
  <2> QED
    BY <1>1, <2>1, <2>3, HttpRegisters
<1> QED
  BY <1>1, <1>6, <1>7, <1>8, ClientMoves

LEMMA NextCredentials ==
  ASSUME NEW Home \in [CRs -> Apps], \A g, h \in CRs : Home[g] = Home[h] => g = h,
         Losses = {}, LateCalls \subseteq {"create"},
         ControlInv, FreshInv, InFlightIsLate, ClientIsHeld, AtHome(Home),
         CredentialsInv(Home), [Next]_vars
  PROVE  CredentialsInv(Home)'
<1>1. CASE UNCHANGED vars
  BY <1>1 DEF vars, oidcVars, services, request, cluster, caches, worker, CredentialsInv,
     SaidInStore, SaidInCopy, SaidByClient, CleaningUp, Working, Writing, Usable
<1>2. CASE Next
  <2> SUFFICES ASSUME NEW g \in CRs
               PROVE  /\ SaidInStore(g)' \/ SaidInCopy(g)' \/ SaidByClient(g)'
                           => Usable(Home[g])'
                      /\ SaidInStore(g)' => ~CleaningUp(g)' /\ adCache'[g].phase # "deleting"
    BY DEF CredentialsInv
  <2>1. SaidInCopy(g) \/ SaidByClient(g) => ~CleaningUp(g)
    BY StepNames DEF SaidInCopy, SaidByClient, CleaningUp, Writing
  <2>2. SaidInStore(g) \/ SaidInCopy(g) \/ SaidByClient(g) => Usable(Home[g])'
    BY <1>2, <2>1, UsableStays DEF CredentialsInv
  <2>3. SaidInStore(g)' => ~CleaningUp(g) /\ adCache[g].phase # "deleting"
    BY <1>2, <2>1, StoreSays DEF CredentialsInv
  <2>4. SaidInStore(g)' => adCache'[g].phase # "deleting"
    BY <1>2, <2>3, WhoCaches DEF SaidInStore
  <2> QED
    BY <1>2, <2>2, <2>3, <2>4, StoreSays, CopySays, ClientSays, CleanupBegins
<1> QED
  BY <1>1, <1>2

(* OIDCRegistered is true only while Vault holds the secret of the client  *)
(* Keycloak has: over deletions, re-creations, edits, restarts and lagging *)
(* caches, whatever call fails.  What it takes is an application of its    *)
(* own for each AppDeployment, and services that lose nothing and carry    *)
(* out no deletion and no write to Vault they have been given up on.       *)
THEOREM CredentialsStay ==
  ASSUME NEW Home \in [CRs -> Apps], \A g, h \in CRs : Home[g] = Home[h] => g = h,
         Losses = {}, LateCalls \subseteq {"create"}
  PROVE  Spec /\ []OneAppEach(Home) => []CredentialsInPlace
<1>1. Init => CredentialsInv(Home)
  BY NoObjectType DEF Init, CredentialsInv, SaidInStore, SaidInCopy, SaidByClient, Working
<1>2. /\ ControlInv /\ FreshInv /\ InFlightIsLate /\ ClientIsHeld /\ AtHome(Home)
      /\ CredentialsInv(Home) /\ [Next]_vars
      => CredentialsInv(Home)'
  BY NextCredentials
<1>3. OneAppEach(Home) /\ CredentialsInv(Home) => CredentialsInPlace
  BY DEF OneAppEach, CredentialsInv, CredentialsInPlace, SaidInStore, Usable, Exists
<1>4. Spec => []ClientIsHeld
  BY HeldHolds
<1> QED
  BY <1>1, <1>2, <1>3, <1>4, ControlHolds, FreshHolds, LateHolds, HomesHold, PTL DEF Spec

-----------------------------------------------------------------------------
(* No client without its AppDeployment. *)

(* A finalizer stays until the worker takes it away, from a copy of what   *)
(* is stored and with a cache that shows the deletion.                     *)
LEMMA FinalizerStays ==
  ASSUME "edit" \notin UserActions, ControlInv, FreshInv, Next,
         NEW g \in CRs, Exists(g), ad[g].finalizer
  PROVE  \/ Exists(g)' /\ ad'[g].finalizer /\ ad'[g].spec = ad[g].spec
         \/ /\ pc = "removeFinalizer" /\ obj.spec = ad[g].spec
            /\ adCache[g].phase = "deleting"
<1>1. CASE ad'[g] = ad[g]
  BY <1>1 DEF Exists
<1>2. CASE UserWrites(g)
  <2>1. CASE UserDelete(g)
    <3>1. ad[g] \in Objects /\ ad \in [CRs -> Objects]
      BY DEF ControlInv, ClusterInv, ClusterType
    <3>2. ad'[g] = [ad[g] EXCEPT !.phase = "deleting"]
      BY <2>1, <3>1 DEF UserDelete, UserWrite, Store
    <3> QED
      BY <3>1, <3>2 DEF Exists, Objects
  <2>2. \A s \in Specs : ~UserEdit(g, s) /\ ~UserCreate(g, s)
    BY DEF UserEdit, UserCreate, UserWrite, UserAction
  <2> QED
    BY <1>2, <2>1, <2>2 DEF UserWrites
<1>3. CASE WorkerWrites(g)
  <2>1. /\ obj \in Objects /\ obj.spec = ad[g].spec /\ obj.phase = ad[g].phase
        /\ obj.phase # "absent" /\ (pc = "removeFinalizer" => ad[g].phase = "deleting")
        /\ adCache[g] = ad[g]
    BY <1>3, WorkerWritesWhatItRead DEF WorkerWrites, ControlInv, ClusterInv, SameButStatus,
       FreshInv
  <2>2. pc \in {"addFinalizer", "writeFailure", "writeReady"} => obj.finalizer
    BY DEF FreshInv, ControlInv, WorkerInv, WorkInv
  <2>3. Reconciled(obj).phase = obj.phase /\ Reconciled(obj).spec = obj.spec
    BY <2>1, StatusType
  <2>4. Reconciled(obj).finalizer = obj.finalizer
    BY <2>1 DEF Reconciled, Objects
  <2>5. CASE ad'[g] = obj /\ pc \in {"addFinalizer", "writeFailure"}
    BY <2>1, <2>2, <2>5 DEF Exists
  <2>6. CASE ad'[g] = Reconciled(obj) /\ pc = "writeReady"
    <3> DEFINE done == Reconciled(obj)
    <3>1. done.phase # "absent" /\ done.finalizer /\ done.spec = ad[g].spec /\ ad'[g] = done
      BY <2>1, <2>2, <2>3, <2>4, <2>6
    <3> HIDE DEF done
    <3> QED
      BY <3>1 DEF Exists
  <2>7. CASE pc = "removeFinalizer"
    BY <2>1, <2>7
  <2> QED
    BY <1>3, <2>5, <2>6, <2>7 DEF WorkerWrites
<1> QED
  BY <1>1, <1>2, <1>3, WhoWrites

(* Where the cache shows the finalizer it is there, and a registration     *)
(* works for an AppDeployment that has it.                                 *)
FinalizedInv ==
  /\ \A g \in CRs : adCache[g].phase = "live" /\ adCache[g].finalizer =>
       Exists(g) /\ ad[g].finalizer /\ ad[g].spec = adCache[g].spec
  /\ pc = "register" =>
       Exists(key) /\ ad[key].finalizer /\ ad[key].spec = obj.spec /\ obj.spec.oidc

LEMMA NextFinalized ==
  ASSUME "edit" \notin UserActions, ControlInv, FreshInv, FinalizedInv, [Next]_vars
  PROVE  FinalizedInv'
<1>1. CASE UNCHANGED vars
  BY <1>1 DEF vars, cluster, caches, worker, FinalizedInv, Exists
<1>2. CASE Next
  <2>1. ASSUME NEW g \in CRs, adCache'[g].phase = "live", adCache'[g].finalizer
        PROVE  Exists(g)' /\ ad'[g].finalizer /\ ad'[g].spec = adCache'[g].spec
    <3>1. CASE adCache'[g] = ad[g] /\ UNCHANGED ad
      BY <2>1, <3>1 DEF Exists
    <3>2. CASE adCache'[g] = adCache[g]
      BY <1>2, <2>1, <3>2, FinalizerStays DEF FinalizedInv
    <3> QED
      BY <1>2, <3>1, <3>2, WhoCaches
  <2>2. ASSUME pc' = "register"
        PROVE  Exists(key)' /\ ad'[key'].finalizer /\ ad'[key'].spec = obj'.spec /\ obj'.spec.oidc
    <3>1. /\ "register" \notin Kinds \cup {"writeReady", "idle"} /\ First(Kinds) # "register"
          /\ key \in CRs
      BY StepNames, FirstChild DEF ControlInv, WorkerInv, WorkerType
    <3>2. ~Registered /\ ~CleanedUp
      BY <2>2, <3>1 DEF Registered, CleanedUp, Continue
    <3>3. CASE UNCHANGED <<pc, key, obj>>
      BY <1>2, <2>2, <3>1, <3>3, FinalizerStays DEF FinalizedInv, Exists
    <3>4. ASSUME NEW g \in CRs, Reconcile(g), key' = g
          PROVE  Exists(key)' /\ ad'[key'].finalizer /\ ad'[key'].spec = obj'.spec /\ obj'.spec.oidc
      BY <2>2, <3>4, StartedFrom DEF FinalizedInv, Exists
    <3> QED
      BY <1>2, <2>2, <3>1, <3>2, <3>3, <3>4, WorkerGoesOn
  <2> QED
    BY <2>1, <2>2 DEF FinalizedInv
<1> QED
  BY <1>1, <1>2

(* Only a registration makes a client.                                     *)
LEMMA WhoCreates ==
  ASSUME "create" \notin LateCalls, ControlInv, InFlightIsLate, Next,
         NEW a \in Apps, clients'[a] # 0, clients'[a] # clients[a]
  PROVE  /\ pc = "register" /\ call = "create" /\ a = obj.spec.appName
         /\ UNCHANGED <<pc, key, obj, ad>>
<1>1. clients \in [Apps -> Nat] /\ app \in Apps
  BY DEF ControlInv, OidcTypeOK
<1>2. ~Services
  BY <1>1 DEF Services, ServiceStep, Land, Lose, InFlightIsLate
<1>3. ~UNCHANGED services
  BY DEF services
<1>4. PICK out \in Outcomes : OidcRequest(out)
  BY <1>2, <1>3, ClientMoves
<1>5. CreateClient(out)
  BY <1>1, <1>3, <1>4 DEF OidcRequest, Http, GetToken, ListClients, GetSecret, ReadVault,
     WriteVault, DeleteClient
<1>6. a = app /\ call = "create"
  BY <1>1, <1>5 DEF CreateClient
<1> QED
  BY <1>4, <1>6 DEF OidcRequest, worker, cluster, ControlInv, WorkerInv, ClientInv

(* Where its requests are answered, a deregistration leaves no client.     *)
LEMMA HttpCleans ==
  ASSUME {"token", "list", "delete"} \cap FaultyCalls = {}, OidcTypeOK,
         op = "deregister", call \in {"token", "list", "delete"},
         call = "delete" => clients[app] \in {0, found},
         NEW out \in Outcomes, Http(out), NEW a, a = app
  PROVE  /\ call' = "delete" => app' = a /\ clients'[a] \in {0, found'}
         /\ call' = "idle" => clients'[a] = 0
<1>1. app \in Apps /\ clients \in [Apps -> Nat] /\ found \in Nat
  BY DEF OidcTypeOK
<1>2. \A c \in {"token", "list", "delete"} : Ends(c, out) => out = "ok"
  BY DEF Ends
<1>3. CASE GetToken(out)
  BY <1>2, <1>3 DEF GetToken, Proceed
<1>4. CASE ListClients(out)
  BY <1>1, <1>2, <1>4 DEF ListClients, AfterList, Proceed, Finish, services
<1>5. CASE DeleteClient(out)
  BY <1>1, <1>2, <1>5 DEF DeleteClient, Takes, Finish
<1> QED
  BY <1>3, <1>4, <1>5 DEF Http, CreateClient, GetSecret, ReadVault, WriteVault

LEMMA ConfigStays ==
  ASSUME "config" \notin UserActions, Next
  PROVE  UNCHANGED cfg
<1>1. ASSUME NEW h \in CRs, Reconcile(h) PROVE UNCHANGED cfg
  BY <1>1 DEF Reconcile, ReconcileNothing, ReconcileDeletion, ReconcileAddFinalizer,
     ReconcileConfigMissing, ReconcileRegister, ReconcileWorkload, Start, Take, cluster
<1>2. ASSUME NEW out \in Outcomes, Step(out) PROVE UNCHANGED cfg
  BY <1>2 DEF Step, OidcRequest, AddFinalizer, WriteFailure, EnsureChild,
     EnsureStatefulSet, WriteReady, RemoveFinalizer, Calls, cluster
<1>3. CASE Users
  BY <1>3 DEF Users, UserCreate, UserEdit, UserDelete, UserWrite, Prune, Scale,
     ChildWrite, ToggleConfig, UserAction
<1> QED
  BY <1>1, <1>2, <1>3 DEF Next, Registered, CleanedUp, CacheSync, TimerFire, Resync,
     ChildSync, Collect, Services, Restart, cluster

(* How far the cleanup is.                                                 *)
CleanedInv ==
  /\ cfg = Namespaces
  /\ call = "delete" => clients[app] \in {0, found}
  /\ pc = "cleanup" /\ call = "idle" => clients[obj.spec.appName] = 0
  /\ pc = "removeFinalizer" /\ obj.spec.oidc => clients[obj.spec.appName] = 0

LEMMA NextCleaned ==
  ASSUME {"token", "list", "delete"} \cap FaultyCalls = {}, "create" \notin LateCalls,
         "config" \notin UserActions,
         ControlInv, InFlightIsLate, CleanedInv, Next
  PROVE  CleanedInv'
<1>1. /\ obj.spec.appName \in Apps /\ app \in Apps /\ OidcTypeOK
      /\ call # "idle" => app = obj.spec.appName
      /\ {"cleanup", "removeFinalizer"} \cap (Kinds \cup {"writeReady", "idle"}) = {}
      /\ First(Kinds) \notin {"cleanup", "removeFinalizer"}
      /\ pc # "removeFinalizer" \/ call = "idle"
  BY ObjectFields, StepNames, FirstChild
     DEF ControlInv, OidcTypeOK, WorkerInv, WorkerType, ClientInv
<1>2. cfg' = Namespaces
  BY ConfigStays DEF CleanedInv, Namespaces
<1>3. ASSUME NEW a \in Apps, clients[a] = 0, pc # "register" PROVE clients'[a] = 0
  BY <1>3, WhoCreates
<1>4. ASSUME NEW out \in Outcomes, OidcRequest(out)
      PROVE  /\ call' = "delete" => clients'[app'] \in {0, found'}
             /\ pc' = "cleanup" /\ call' = "idle" => clients'[obj'.spec.appName] = 0
  <2>1. Http(out) /\ UNCHANGED <<pc, key, obj>>
    BY <1>4 DEF OidcRequest, worker
  <2>2. ClientInv' /\ call # "idle" /\ pc \in {"register", "cleanup"}
    BY <2>1, HttpClient DEF ControlInv, WorkerInv, ClientInv
  <2>3. CASE pc = "register"
    BY <2>1, <2>2, <2>3 DEF ClientInv
  <2>4. CASE pc = "cleanup"
    <3>1. op = "deregister" /\ call \in {"token", "list", "delete"}
      BY <2>2, <2>4 DEF ControlInv, OidcTypeOK, HttpCalls, WorkerInv, ClientInv
    <3> DEFINE a == obj.spec.appName
    <3>2. a = app /\ a = obj'.spec.appName
      BY <1>1, <2>1, <2>2
    <3>3. /\ call' = "delete" => app' = a /\ clients'[a] \in {0, found'}
          /\ call' = "idle" => clients'[a] = 0
      BY <1>1, <2>1, <3>1, <3>2, HttpCleans DEF CleanedInv
    <3> QED
      BY <3>2, <3>3
  <2> QED
    BY <2>2, <2>3, <2>4
<1>5. ASSUME call' = "delete" PROVE clients'[app'] \in {0, found'}
  <2>1. CASE UNCHANGED <<call, app, found>>
    BY <1>1, <1>5, <2>1, WhoCreates DEF CleanedInv
  <2>2. Services => UNCHANGED <<call, app, found>>
    BY DEF Services, ServiceStep, Land, Lose, request
  <2> QED
    BY <1>4, <1>5, <2>1, <2>2, ClientMoves
<1>6. ASSUME pc' = "cleanup", call' = "idle" PROVE clients'[obj'.spec.appName] = 0
  <2>1. ~Registered /\ ~CleanedUp
    BY <1>1, <1>6 DEF Registered, CleanedUp, Continue
  <2>2. \A g \in CRs : ~Reconcile(g)
    BY <1>6, StartedFrom
  <2>3. UNCHANGED <<pc, key, obj>>
    BY <1>1, <1>6, <2>1, <2>2, WorkerGoesOn
  <2>4. CASE call = "idle"
    BY <1>1, <1>3, <1>6, <2>3, <2>4 DEF CleanedInv
  <2>5. CASE call # "idle"
    <3>1. ~UNCHANGED call /\ ~Services
      BY <1>6, <2>5 DEF Services, ServiceStep, Land, Lose, request
    <3> QED
      BY <1>4, <1>6, <3>1, ClientMoves
  <2> QED
    BY <2>4, <2>5
<1>7. ASSUME pc' = "removeFinalizer", obj'.spec.oidc PROVE clients'[obj'.spec.appName] = 0
  <2>1. ~Registered
    BY <1>1, <1>7 DEF Registered, Continue
  <2>2. ASSUME NEW g \in CRs, Reconcile(g) PROVE FALSE
    BY <1>7, <2>2, StartedFrom DEF CleanedInv, Namespaces
  <2>3. CASE CleanedUp
    <3>1. /\ pc = "cleanup" /\ call = "idle" /\ obj' = obj
      BY <2>3 DEF CleanedUp, Continue
    <3> QED
      BY <1>1, <1>3, <3>1 DEF CleanedInv
  <2>4. CASE UNCHANGED <<pc, key, obj>>
    BY <1>1, <1>3, <1>7, <2>4 DEF CleanedInv
  <2> QED
    BY <1>1, <1>7, <2>1, <2>2, <2>3, <2>4, WorkerGoesOn
<1> QED
  BY <1>2, <1>5, <1>6, <1>7 DEF CleanedInv, Namespaces

LEMMA NextOwned ==
  ASSUME "edit" \notin UserActions, "create" \notin LateCalls,
         ControlInv, InFlightIsLate, FreshInv, FinalizedInv, CleanedInv, NoOrphanClient, Next
  PROVE  NoOrphanClient'
<1> DEFINE Owner(g, a) == /\ Exists(g) /\ ad[g].finalizer
                          /\ ad[g].spec.oidc /\ ad[g].spec.appName = a
<1> SUFFICES ASSUME NEW a \in Apps, clients'[a] # 0
             PROVE  \E g \in CRs : Owner(g, a)'
  BY DEF NoOrphanClient, Exists
<1>1. CASE clients'[a] # clients[a]
  <2>1. pc = "register" /\ a = obj.spec.appName /\ UNCHANGED ad /\ key \in CRs
    BY <1>1, WhoCreates DEF ControlInv, WorkerInv, WorkerType
  <2>2. Owner(key, a) /\ key \in CRs
    BY <2>1 DEF FinalizedInv
  <2>3. \A g \in CRs : Owner(g, a) => Owner(g, a)'
    BY <2>1 DEF Exists
  <2> QED
    BY <2>2, <2>3
<1>2. CASE clients'[a] = clients[a]
  <2>1. PICK g \in CRs : Owner(g, a)
    BY <1>2 DEF NoOrphanClient
  <2>2. Exists(g)' /\ ad'[g].finalizer /\ ad'[g].spec = ad[g].spec
    BY <1>2, <2>1, FinalizerStays DEF CleanedInv
  <2> QED
    BY <2>1, <2>2
<1> QED
  BY <1>1, <1>2

(* The finalizer at work: a Keycloak client always belongs to an           *)
(* AppDeployment that exists and has the finalizer.  What it takes is that *)
(* the requests of a cleanup are answered, that no creation is carried out *)
(* after it has been given up on, and that nobody edits the spec or takes  *)
(* the platform config away in between.  Every other call may fail; caches *)
(* may lag, the operator may stop, Keycloak may lose a client, and two     *)
(* AppDeployments may share one.                                           *)
THEOREM ClientsAreOwned ==
  ASSUME {"token", "list", "delete"} \cap FaultyCalls = {}, "create" \notin LateCalls,
         {"edit", "config"} \cap UserActions = {}
  PROVE  Spec => []NoOrphanClient
<1>1. Init => FinalizedInv /\ CleanedInv /\ NoOrphanClient
  BY NoObjectType DEF Init, OidcInit, FinalizedInv, CleanedInv, NoOrphanClient
<1>2. /\ ControlInv /\ InFlightIsLate /\ FreshInv
      /\ FinalizedInv /\ CleanedInv /\ NoOrphanClient /\ [Next]_vars
      => FinalizedInv' /\ CleanedInv' /\ NoOrphanClient'
  <2>1. CASE Next
    BY <2>1, NextFinalized, NextCleaned, NextOwned
  <2>2. CASE UNCHANGED vars
    BY <2>2 DEF vars, oidcVars, services, request, cluster, caches, worker, FinalizedInv,
       CleanedInv, NoOrphanClient, Exists, Namespaces
  <2> QED
    BY <2>1, <2>2
<1> QED
  BY <1>1, <1>2, ControlHolds, FreshHolds, LateHolds, PTL DEF Spec

=============================================================================
