------------------------ MODULE AppDeploymentProofs ------------------------
(* Theorems about AppDeployment: the controller with its client, for all   *)
(* applications, specs and children, whatever fails, lags or gets lost.    *)
EXTENDS AppDeployment, OidcProofs

-----------------------------------------------------------------------------
(* The order of the children. *)

LEMMA Ranks ==
  /\ AllKinds = {"serviceAccount", "defaultDeny", "allowIngress", "allowDNS",
                 "allowKeycloak", "allowVault", "fluentBit", "headless", "traffic",
                 "statefulSet"}
  /\ \A k \in AllKinds : Rank[k] \in 1..10
  /\ \A j, k \in AllKinds : Rank[j] = Rank[k] => j = k
  BY DEF AllKinds, Rank

(* The first of some kinds is one of them and before all others. *)
LEMMA FirstIsFirst ==
  ASSUME NEW S \in SUBSET AllKinds, S # {}
  PROVE  First(S) \in S /\ \A i \in S : Rank[First(S)] <= Rank[i]
<1>1. \A j \in S : Rank[j] \in 1..10
  BY Ranks
<1>2. SUFFICES ASSUME \A j \in S : \E i \in S : ~(Rank[j] <= Rank[i])
               PROVE  FALSE
  BY DEF First
<1>3. ASSUME NEW n \in 1..10, \A j \in S : Rank[j] >= n
      PROVE  \A j \in S : Rank[j] >= n + 1
  BY <1>1, <1>2, <1>3
<1> DEFINE P(n) == \A j \in S : Rank[j] >= n
<1>4. \A n \in 1..10 : P(n) => P(n + 1)
  BY <1>3
<1>5. P(1) /\ (P(11) => FALSE)
  BY <1>1
<1> HIDE DEF P
<1>6. P(2) /\ P(3) /\ P(4) /\ P(5) /\ P(6)
  BY <1>4, <1>5
<1>7. P(7) /\ P(8) /\ P(9) /\ P(10) /\ P(11)
  BY <1>4, <1>6
<1> QED
  BY <1>5, <1>7

LEMMA NextChild ==
  ASSUME NEW k \in Kinds
  PROVE  /\ AfterChild(k) \in Kinds \cup {"writeReady"}
         /\ AfterChild(k) \in Kinds =>
              \A j \in Kinds : Rank[AfterChild(k)] > Rank[j] => j = k \/ Rank[k] > Rank[j]
         /\ AfterChild(k) = "writeReady" =>
              \A j \in Kinds : j = k \/ Rank[k] > Rank[j]
<1>1. k \in AllKinds /\ Kinds \subseteq AllKinds /\ "writeReady" \notin AllKinds
  BY KindsAssumption, Ranks
<1>2. \A j \in Kinds : Rank[j] \in Nat /\ (j = k \/ Rank[j] # Rank[k])
  BY <1>1, Ranks
<1>3. CASE After(k) = {}
  BY <1>1, <1>2, <1>3 DEF After, AfterChild
<1>4. CASE After(k) # {}
  <2>1. /\ AfterChild(k) \in After(k)
        /\ \A i \in After(k) : Rank[AfterChild(k)] <= Rank[i]
    BY <1>1, <1>4, FirstIsFirst DEF After, AfterChild
  <2> QED
    BY <1>1, <1>2, <2>1 DEF After
<1> QED
  BY <1>3, <1>4

LEMMA FirstChild ==
  First(Kinds) \in Kinds /\ \A j \in Kinds : ~(Rank[First(Kinds)] > Rank[j])
<1>1. Kinds \in SUBSET AllKinds /\ Kinds # {}
  BY KindsAssumption
<1>2. \A j \in Kinds : Rank[j] \in Nat
  BY <1>1, Ranks
<1> QED
  BY <1>1, <1>2, FirstIsFirst

LEMMA StepNames ==
  /\ Kinds \subseteq AllKinds /\ Kinds \subseteq Steps
  /\ {"idle", "addFinalizer", "register", "cleanup", "writeFailure", "writeReady",
      "removeFinalizer"} \cap Kinds = {}
  BY KindsAssumption, Ranks DEF Steps

-----------------------------------------------------------------------------
(* Objects. *)

LEMMA ObjectFields ==
  ASSUME NEW o \in Objects
  PROVE  /\ o.phase \in {"absent", "live", "deleting"} /\ o.uid \in Nat
         /\ o.generation \in Nat /\ o.finalizer \in BOOLEAN /\ o.spec \in Specs
         /\ o.status \in Statuses /\ o.status.observed \in Nat
         /\ o.status.oidc \in {"", "Registered", "RegistrationFailed", "VaultWriteFailed"}
         /\ o.spec.appName \in Apps
  BY SpecsAssumption DEF Objects, Statuses

LEMMA NewObjectType ==
  ASSUME NEW s \in Specs, NEW uid \in Nat
  PROVE  /\ NewObject(s, uid) \in Objects /\ NewObject(s, uid).phase = "live"
         /\ NewObject(s, uid).uid = uid /\ NewObject(s, uid).spec = s
         /\ NewObject(s, uid).generation = 1
         /\ NewObject(s, uid).status.observed = 0
<1>1. [ready |-> "", oidc |-> "", observed |-> 0] \in Statuses
  BY DEF Statuses
<1> QED
  BY <1>1 DEF NewObject, Objects

LEMMA NewObjectStatus ==
  ASSUME NEW s, NEW uid
  PROVE  NewObject(s, uid).status.oidc = ""
  BY DEF NewObject

LEMMA NoObjectType ==
  /\ NoObject \in Objects /\ NoObject.phase = "absent" /\ NoObject.uid = 0
  /\ NoObject.generation = 0 /\ NoObject.status.observed = 0
<1> DEFINE s == CHOOSE t \in Specs : TRUE
           o == NewObject(s, 0)
<1>1. s \in Specs
  BY CRsAssumption
<1>2. /\ o \in Objects /\ o.uid = 0 /\ o.status.observed = 0
  BY <1>1, NewObjectType
<1>3. NoObject = [o EXCEPT !.phase = "absent", !.generation = 0]
  BY DEF NoObject
<1> HIDE DEF o
<1> QED
  BY <1>2, <1>3 DEF Objects

LEMMA AnyCRType == AnyCR \in CRs
  BY CRsAssumption DEF AnyCR

(* What the worker changes in memory is the finalizer and the conditions.  *)
SameButStatus(o, p) ==
  /\ o.phase = p.phase /\ o.uid = p.uid /\ o.generation = p.generation
  /\ o.spec = p.spec /\ o.status.observed = p.status.observed

LEMMA StatusType ==
  ASSUME NEW o \in Objects
  PROVE  /\ ConfigMissing(o) \in Objects /\ SameButStatus(ConfigMissing(o), o)
         /\ [o EXCEPT !.finalizer = TRUE] \in Objects
         /\ SameButStatus([o EXCEPT !.finalizer = TRUE], o)
         /\ Reconciled(o) \in Objects /\ Reconciled(o).phase = o.phase
         /\ Reconciled(o).uid = o.uid /\ Reconciled(o).generation = o.generation
         /\ Reconciled(o).spec = o.spec
         /\ Reconciled(o).status.observed = o.generation
         /\ Reconciled(o).status.ready = "Reconciled"
         /\ Reconciled(o).status.oidc = o.status.oidc
<1>1. o.status \in Statuses /\ o.generation \in Nat
  BY DEF Objects
<1>2. ASSUME NEW st \in Statuses
      PROVE  /\ [o EXCEPT !.status = st] \in Objects
             /\ [o EXCEPT !.status = st].phase = o.phase
             /\ [o EXCEPT !.status = st].uid = o.uid
             /\ [o EXCEPT !.status = st].generation = o.generation
             /\ [o EXCEPT !.status = st].spec = o.spec
             /\ [o EXCEPT !.status = st].status = st
  BY DEF Objects
<1> DEFINE missing == [o.status EXCEPT !.ready = "PlatformConfigMissing"]
           done    == [o.status EXCEPT !.ready = "Reconciled", !.observed = o.generation]
<1>3. /\ missing \in Statuses /\ missing.observed = o.status.observed
      /\ done \in Statuses /\ done.observed = o.generation
      /\ done.ready = "Reconciled" /\ done.oidc = o.status.oidc
  BY <1>1 DEF Statuses
<1>4. /\ ConfigMissing(o) = [o EXCEPT !.status = missing]
      /\ Reconciled(o) = [o EXCEPT !.status = done]
  BY <1>1 DEF ConfigMissing, Reconciled, Objects, Statuses
<1>5. /\ [o EXCEPT !.finalizer = TRUE] \in Objects
      /\ SameButStatus([o EXCEPT !.finalizer = TRUE], o)
  BY DEF Objects, SameButStatus
<1> HIDE DEF missing, done
<1> QED
  BY <1>2, <1>3, <1>4, <1>5 DEF SameButStatus

Results == {"Registered", "RegistrationFailed", "VaultWriteFailed"}

LEMMA RegistrationType ==
  ASSUME NEW o \in Objects, NEW r \in Results
  PROVE  /\ Registration(o, r) \in Objects /\ SameButStatus(Registration(o, r), o)
         /\ Registration(o, r).status.oidc = r
         /\ Registration(o, r).finalizer = o.finalizer
<1>1. o.status \in Statuses
  BY DEF Objects
<1> DEFINE st == [o.status EXCEPT !.oidc = r]
<1>2. st \in Statuses /\ st.observed = o.status.observed /\ st.oidc = r
  BY <1>1 DEF Statuses, Results
<1>3. Registration(o, r) = [o EXCEPT !.status = st]
  BY <1>1 DEF Registration, Objects, Statuses
<1> HIDE DEF st
<1> QED
  BY <1>2, <1>3 DEF Objects, SameButStatus

-----------------------------------------------------------------------------
(* Children. *)

(* A spec that does not change but in size. *)
Sized == Specs \cup {[s EXCEPT !.replicas = Replicas(t)] : s, t \in Specs}

LEMMA SizedSpec ==
  ASSUME NEW c \in Sized, NEW t \in Specs
  PROVE  /\ [c EXCEPT !.replicas = Replicas(t)] \in Sized
         /\ [c EXCEPT !.replicas = Replicas(t)].replicas = Replicas(t)
<1>1. ASSUME NEW s \in Specs
      PROVE  "replicas" \in DOMAIN s
  BY <1>1, SpecsAssumption DEF SpecType
<1>2. PICK s \in Specs : c = s \/ \E u \in Specs : c = [s EXCEPT !.replicas = Replicas(u)]
  BY DEF Sized
<1>3. [c EXCEPT !.replicas = Replicas(t)] = [s EXCEPT !.replicas = Replicas(t)]
  BY <1>1, <1>2
<1> QED
  BY <1>1, <1>3 DEF Sized

LEMMA ChildFields ==
  ASSUME NEW c \in Children
  PROVE  c.owner \in CRs /\ c.uid \in Nat /\ c.spec \in Sized /\ c # NoChild
  BY NoChildAssumption DEF Children, Sized

LEMMA ChildType ==
  ASSUME NEW g \in CRs, NEW o \in Objects, NEW k
  PROVE  /\ Child(g, o, k) \in Children /\ Child(g, o, k).owner = g
         /\ Child(g, o, k).uid = o.uid
         /\ k = "statefulSet" => Child(g, o, k).spec.replicas = Replicas(o.spec)
<1>1. o.spec \in Specs /\ o.uid \in Nat
  BY DEF Objects
<1>2. /\ [o.spec EXCEPT !.replicas = Replicas(o.spec)] \in Sized
      /\ [o.spec EXCEPT !.replicas = Replicas(o.spec)].replicas = Replicas(o.spec)
      /\ o.spec \in Sized
  BY <1>1, SizedSpec DEF Sized
<1> QED
  BY <1>1, <1>2 DEF Child, Children, Sized

LEMMA ScaledType ==
  ASSUME NEW c \in Children, NEW t \in Specs
  PROVE  /\ [c EXCEPT !.spec.replicas = Replicas(t)] \in Children
         /\ [c EXCEPT !.spec.replicas = Replicas(t)].owner = c.owner
         /\ [c EXCEPT !.spec.replicas = Replicas(t)].uid = c.uid
         /\ [c EXCEPT !.spec.replicas = Replicas(t)].spec.replicas = Replicas(t)
<1> DEFINE s == [c.spec EXCEPT !.replicas = Replicas(t)]
<1>1. s \in Sized /\ s.replicas = Replicas(t)
  BY ChildFields, SizedSpec
<1>2. [c EXCEPT !.spec.replicas = Replicas(t)] = [c EXCEPT !.spec = s]
  BY DEF Children
<1> HIDE DEF s
<1> QED
  BY <1>1, <1>2 DEF Children, Sized

LEMMA ChildKeyType ==
  ASSUME NEW g \in CRs, NEW s \in Specs, NEW k \in Kinds
  PROVE  /\ ChildKey(g, s, k) \in ChildKeys
         /\ ChildKey(g, s, k)[1] = g.namespace /\ ChildKey(g, s, k)[3] = k
  BY SpecsAssumption DEF ChildKey, ChildKeys

-----------------------------------------------------------------------------
(* The inductive invariant of the control flow. *)

(* The API server and the caches: a cache that has nothing before it is up *)
(* to date, and nothing is left of an object that is gone.                 *)
ClusterType ==
  /\ ad \in [CRs -> Objects] /\ adCache \in [CRs -> Objects]
  /\ child \in [ChildKeys -> Children \cup {NoChild}]
  /\ childCache \in [ChildKeys -> Children \cup {NoChild}]
  /\ childEvents \in [ChildKeys -> SUBSET CRs]
  /\ cfg \subseteq Namespaces /\ behind \subseteq CRs /\ created \in [CRs -> Nat]

ClusterInv ==
  /\ ClusterType
  /\ \A g \in CRs : g \in behind \/ adCache[g] = ad[g]
  /\ \A k \in ChildKeys : childEvents[k] # {} \/ childCache[k] = child[k]
  /\ \A g \in CRs : ad[g].phase = "absent" => ad[g] = NoObject

WorkerType ==
  /\ pc \in Steps /\ key \in CRs /\ obj \in Objects /\ fresh \in BOOLEAN
  /\ queue \subseteq CRs /\ timers \subseteq CRs

(* A copy with the newest resourceVersion is a copy of what is stored; of  *)
(* any other the worker will be called again.                              *)
CopyInv ==
  pc # "idle" => IF fresh THEN SameButStatus(obj, ad[key])
                          ELSE key \in behind \cup queue

(* What the worker knows of the object at the step it is at. *)
WorkInv ==
  /\ pc # "idle" => obj.phase # "absent"
  /\ pc \in Kinds \cup {"writeReady"} =>
       /\ obj.phase = "live" /\ obj.finalizer
       /\ obj.spec.oidc => obj.status.oidc = "Registered"
  /\ pc = "register" => obj.phase = "live" /\ obj.finalizer
  /\ pc \in {"cleanup", "removeFinalizer"} => obj.phase = "deleting"

(* The client works for the worker, on what the worker wants, and answers  *)
(* what the worker understands.                                            *)
ClientInv ==
  /\ pc \notin {"register", "cleanup"} => call = "idle"
  /\ pc = "register" => IF call = "idle" THEN result \in Results ELSE op = "register"
  /\ pc = "cleanup" /\ call # "idle" => op = "deregister"
  /\ call # "idle" => app = obj.spec.appName
  /\ call \in {"create", "secret", "readVault", "writeVault"} => op = "register"
  /\ call = "delete" => op = "deregister"

CountersType == userOps \in Nat /\ restarts \in Nat

WorkerInv == WorkerType /\ CopyInv /\ WorkInv /\ ClientInv

ControlInv == OidcTypeOK /\ ClusterInv /\ WorkerInv /\ CountersType

LEMMA ControlImpliesType == ControlInv => TypeOK
  BY DEF ControlInv, ClusterInv, ClusterType, WorkerInv, WorkerType, CountersType, TypeOK

-----------------------------------------------------------------------------
(* How writes change the cluster. *)

LEMMA SameCluster ==
  ASSUME ClusterInv, UNCHANGED <<cluster, caches>>
  PROVE  ClusterInv'
  BY DEF ClusterInv, ClusterType, cluster, caches

LEMMA StoreInv ==
  ASSUME ClusterInv, NEW g \in CRs, NEW o \in Objects,
         o.phase = "absent" => o = NoObject, Store(g, o),
         UNCHANGED <<child, cfg, adCache, childCache, childEvents>>,
         created' \in [CRs -> Nat]
  PROVE  /\ ClusterInv' /\ behind \subseteq behind'
         /\ ad'[g] = o /\ \A h \in CRs : h # g => ad'[h] = ad[h]
         /\ o # ad[g] => g \in behind'
<1>1. /\ ad' = [ad EXCEPT ![g] = o] /\ behind' \in {behind, behind \cup {g}}
      /\ o # ad[g] => g \in behind'
  BY DEF Store
<1>2. ad'[g] = o /\ \A h \in CRs : h # g => ad'[h] = ad[h]
  BY <1>1 DEF ClusterInv, ClusterType
<1>3. ClusterType'
  BY <1>1 DEF ClusterInv, ClusterType
<1> QED
  BY <1>1, <1>2, <1>3 DEF ClusterInv

LEMMA StoreChildInv ==
  ASSUME ClusterInv, NEW k \in ChildKeys, NEW c \in Children \cup {NoChild},
         StoreChild(k, c),
         UNCHANGED <<ad, cfg, created, adCache, behind, childCache>>
  PROVE  /\ ClusterInv' /\ child'[k] = c
         /\ childEvents'[k] = childEvents[k] \cup {d.owner : d \in {child[k], c} \ {NoChild}}
         /\ \A j \in ChildKeys : j # k => /\ child'[j] = child[j]
                                         /\ childEvents'[j] = childEvents[j]
<1> DEFINE new == {d.owner : d \in {child[k], c} \ {NoChild}}
<1>1. new \subseteq CRs /\ (c # child[k] => new # {})
  BY ChildFields DEF ClusterInv, ClusterType
<1>2. child' = [child EXCEPT ![k] = c]
      /\ childEvents' = [childEvents EXCEPT ![k] = childEvents[k] \cup new]
  BY DEF StoreChild
<1>3. /\ child'[k] = c /\ childEvents'[k] = childEvents[k] \cup new
      /\ \A j \in ChildKeys : j # k => /\ child'[j] = child[j]
                                      /\ childEvents'[j] = childEvents[j]
  BY <1>2 DEF ClusterInv, ClusterType
<1> HIDE DEF new
<1>4. ClusterType'
  BY <1>1, <1>2 DEF ClusterInv, ClusterType
<1>5. \A j \in ChildKeys : childEvents'[j] # {} \/ childCache'[j] = child'[j]
  BY <1>1, <1>3 DEF ClusterInv
<1>6. ClusterInv'
  BY <1>4, <1>5 DEF ClusterInv
<1> QED
  BY <1>3, <1>6 DEF new

-----------------------------------------------------------------------------
(* How calls change the client and the worker. *)

LEMMA CallsType ==
  ASSUME OidcTypeOK, NEW c, NEW out, Calls(c, out)
  PROVE  OidcTypeOK' /\ call' = call
<1>1. faults' \in Nat
  BY EndsType DEF Calls
<1> QED
  BY <1>1 DEF Calls, OidcTypeOK, services, request

(* The client after one of its requests. *)
LEMMA HttpClient ==
  ASSUME OidcTypeOK, ClientInv, NEW out \in Outcomes, Http(out), UNCHANGED <<pc, obj>>
  PROVE  ClientInv' /\ call # "idle"
<1>1. call # "idle" /\ pc \in {"register", "cleanup"} /\ app = obj.spec.appName
  BY DEF Http, GetToken, ListClients, CreateClient, GetSecret, ReadVault, WriteVault,
     DeleteClient, ClientInv
<1>2. op = IF pc = "register" THEN "register" ELSE "deregister"
  BY <1>1 DEF ClientInv
<1>3. ASSUME NEW r, Finish(r), op = "register" => r \in Results
      PROVE  ClientInv'
  BY <1>1, <1>2, <1>3 DEF Finish, ClientInv
<1>4. ASSUME Failure PROVE ClientInv'
  BY <1>3, <1>4 DEF Failure, Results
<1>5. ASSUME NEW c \in HttpCalls, NEW id, NEW cr, Proceed(c, id, cr),
             c \in {"create", "secret", "readVault", "writeVault"} => op = "register",
             c = "delete" => op = "deregister"
      PROVE  ClientInv'
  BY <1>1, <1>2, <1>5 DEF Proceed, ClientInv, HttpCalls
<1>6. CASE GetToken(out)
  BY <1>4, <1>5, <1>6 DEF GetToken, HttpCalls
<1>7. CASE ListClients(out)
  <2>1. /\ AfterList \in HttpCalls
        /\ AfterList \in {"create", "secret", "readVault", "writeVault"} => op = "register"
        /\ AfterList = "delete" => op = "deregister"
    BY <1>2 DEF AfterList, HttpCalls
  <2> QED
    BY <1>3, <1>4, <1>5, <1>7, <2>1 DEF ListClients, HttpCalls
<1>8. CASE CreateClient(out)
  BY <1>4, <1>5, <1>8 DEF CreateClient, HttpCalls, ClientInv
<1>9. CASE GetSecret(out)
  BY <1>4, <1>5, <1>9 DEF GetSecret, HttpCalls, ClientInv
<1>10. CASE ReadVault(out)
  BY <1>5, <1>10 DEF ReadVault, HttpCalls, ClientInv
<1>11. CASE WriteVault(out)
  BY <1>3, <1>11 DEF WriteVault, Results
<1>12. CASE DeleteClient(out)
  BY <1>2, <1>3, <1>12 DEF DeleteClient, ClientInv
<1> QED
  BY <1>1, <1>6, <1>7, <1>8, <1>9, <1>10, <1>11, <1>12 DEF Http

(* The worker is done, for now. *)
LEMMA ReturnInv ==
  ASSUME Return, call' = "idle", queue' \subseteq CRs, timers' \subseteq CRs
  PROVE  WorkerInv'
<1>1. "idle" \in Steps /\ NoObject \in Objects /\ AnyCR \in CRs
  BY NoObjectType, AnyCRType DEF Steps
<1> QED
  BY <1>1, StepNames DEF Return, WorkerInv, WorkerType, CopyInv, WorkInv, ClientInv

(* The rest of the system goes on around the worker. *)
LEMMA WorkerStays ==
  ASSUME WorkerInv, UNCHANGED <<pc, key, obj, fresh, call, op, app, result>>,
         queue' \subseteq CRs, timers' \subseteq CRs, ad'[key] = ad[key],
         key \in behind \cup queue => key \in behind' \cup queue'
  PROVE  WorkerInv'
  BY DEF WorkerInv, WorkerType, CopyInv, WorkInv, ClientInv

LEMMA SameOidc ==
  ASSUME OidcTypeOK, UNCHANGED oidcVars
  PROVE  OidcTypeOK' /\ UNCHANGED <<call, op, app, result>>
  BY DEF OidcTypeOK, oidcVars, services, request

LEMMA BeginType ==
  ASSUME OidcTypeOK, NEW o \in {"register", "deregister"}, NEW a \in Apps, Begin(o, a)
  PROVE  OidcTypeOK' /\ call' = "token" /\ op' = o /\ app' = a
  BY DEF Begin, OidcTypeOK, services, HttpCalls

LEMMA AnswerType ==
  ASSUME OidcTypeOK, result' = "none",
         UNCHANGED <<services, call, op, app, found, creds, cookies, faults, losses>>
  PROVE  OidcTypeOK'
  BY DEF OidcTypeOK, services

-----------------------------------------------------------------------------
(* Each step preserves the invariant. *)

LEMMA StartInv ==
  ASSUME ControlInv, NEW g \in CRs, NEW o \in Objects, NEW step \in Steps,
         Start(g, step, o), SameButStatus(o, adCache[g])
  PROVE  ClusterInv' /\ CountersType' /\ WorkerType' /\ CopyInv'
<1>1. /\ pc' = step /\ key' = g /\ obj' = o /\ fresh' = (g \notin behind)
      /\ queue' = queue \ {g} /\ UNCHANGED <<timers, cluster, caches, counters>>
  BY DEF Start, Take
<1>2. ClusterInv' /\ CountersType' /\ WorkerType'
  BY <1>1, SameCluster DEF ControlInv, CountersType, counters, WorkerInv, WorkerType
<1>3. g \notin behind => SameButStatus(o, ad[g])
  BY DEF ControlInv, ClusterInv
<1>4. CopyInv'
  BY <1>1, <1>3 DEF CopyInv, SameButStatus, cluster, caches
<1> QED
  BY <1>2, <1>4

LEMMA ReconcileInv ==
  ASSUME ControlInv, NEW g \in CRs, Reconcile(g)
  PROVE  ControlInv'
<1> DEFINE o == adCache[g]
<1>1. o \in Objects /\ o.spec.appName \in Apps /\ SameButStatus(o, o)
  BY ObjectFields DEF ControlInv, ClusterInv, ClusterType, SameButStatus
<1>2. pc = "idle" /\ call = "idle" /\ OidcTypeOK
  BY StepNames DEF Reconcile, ReconcileNothing, ReconcileDeletion, ReconcileAddFinalizer,
     ReconcileConfigMissing, ReconcileRegister, ReconcileWorkload, Start, Take,
     ControlInv, WorkerInv, ClientInv
<1>3. ASSUME NEW step \in {"removeFinalizer", "addFinalizer", "writeFailure"} \cup Kinds,
             NEW p \in Objects, Start(g, step, p), SameButStatus(p, o), UNCHANGED oidcVars,
             o.phase # "absent", step = "removeFinalizer" => Deleting(o),
             step \in Kinds => o.phase = "live" /\ p.finalizer /\ ~o.spec.oidc
      PROVE  ControlInv'
  <2>1. step \in Steps
    BY StepNames DEF Steps
  <2>2. ClusterInv' /\ CountersType' /\ WorkerType' /\ CopyInv'
    BY <1>3, <2>1, StartInv
  <2>3. pc' = step /\ obj' = p /\ OidcTypeOK' /\ call' = "idle"
    BY <1>2, <1>3, SameOidc DEF Start
  <2>4. WorkInv' /\ ClientInv'
    BY <1>3, <2>3, StepNames DEF WorkInv, ClientInv, SameButStatus, Deleting
  <2> QED
    BY <2>2, <2>3, <2>4 DEF ControlInv, WorkerInv
<1>4. ASSUME NEW step \in {"register", "cleanup"}, Start(g, step, o),
             Begin(IF step = "register" THEN "register" ELSE "deregister", o.spec.appName),
             o.phase = IF step = "register" THEN "live" ELSE "deleting", o.finalizer
      PROVE  ControlInv'
  <2>1. step \in Steps
    BY DEF Steps
  <2>2. ClusterInv' /\ CountersType' /\ WorkerType' /\ CopyInv'
    BY <1>1, <1>4, <2>1, StartInv
  <2>3. pc' = step /\ obj' = o
    BY <1>4 DEF Start
  <2>4. /\ OidcTypeOK' /\ call' = "token" /\ app' = o.spec.appName
        /\ op' = IF step = "register" THEN "register" ELSE "deregister"
    BY <1>1, <1>2, <1>4, BeginType
  <2>5. WorkInv' /\ ClientInv'
    BY <1>4, <2>3, <2>4, StepNames DEF WorkInv, ClientInv
  <2> QED
    BY <2>2, <2>4, <2>5 DEF ControlInv, WorkerInv
<1>5. CASE ReconcileNothing(g)
  <2>1. /\ UNCHANGED worker /\ OidcTypeOK' /\ UNCHANGED <<call, op, app, result>>
        /\ queue' = queue \ {g} /\ UNCHANGED <<timers, cluster, caches, counters>>
    BY <1>2, <1>5, SameOidc DEF ReconcileNothing, Take
  <2>2. ClusterInv' /\ CountersType'
    BY <2>1, SameCluster DEF ControlInv, CountersType, counters
  <2>3. WorkerInv'
    BY <1>2, <2>1, StepNames DEF ControlInv, WorkerInv, WorkerType, CopyInv, WorkInv,
       ClientInv, worker
  <2> QED
    BY <2>1, <2>2, <2>3 DEF ControlInv
<1>6. CASE ReconcileDeletion(g)
  <2>1. o.phase = "deleting" /\ o.finalizer /\ "removeFinalizer" \notin Kinds
    BY <1>6, StepNames DEF ReconcileDeletion, Deleting
  <2>2. CASE o.spec.oidc /\ g.namespace \in cfg
    <3>1. Start(g, "cleanup", o) /\ Begin("deregister", o.spec.appName)
      BY <1>6, <2>2 DEF ReconcileDeletion, StartDeregister
    <3> QED
      BY <1>4, <2>1, <3>1
  <2>3. CASE ~(o.spec.oidc /\ g.namespace \in cfg)
    <3>1. Start(g, "removeFinalizer", o) /\ UNCHANGED oidcVars
      BY <1>6, <2>3 DEF ReconcileDeletion
    <3> QED
      BY <1>1, <1>3, <2>1, <3>1 DEF Deleting
  <2> QED
    BY <2>2, <2>3
<1>7. CASE ReconcileAddFinalizer(g)
  BY <1>1, <1>3, <1>7, StatusType, StepNames DEF ReconcileAddFinalizer
<1>8. CASE ReconcileConfigMissing(g)
  BY <1>1, <1>3, <1>8, StatusType, StepNames DEF ReconcileConfigMissing, Reconcilable
<1>9. CASE ReconcileRegister(g)
  BY <1>1, <1>4, <1>9 DEF ReconcileRegister, StartRegister, Reconcilable
<1>10. CASE ReconcileWorkload(g)
  BY <1>1, <1>3, <1>10, FirstChild, StepNames DEF ReconcileWorkload, Reconcilable
<1> QED
  BY <1>5, <1>6, <1>7, <1>8, <1>9, <1>10 DEF Reconcile

LEMMA OidcRequestInv ==
  ASSUME ControlInv, NEW out \in Outcomes, OidcRequest(out)
  PROVE  ControlInv'
<1>1. Http(out) /\ UNCHANGED <<cluster, caches, scheduler, worker, counters>>
  BY DEF OidcRequest
<1>2. OidcTypeOK' /\ ClientInv'
  BY <1>1, HttpType, HttpClient DEF ControlInv, WorkerInv, worker
<1>3. ClusterInv' /\ CountersType'
  BY <1>1, SameCluster DEF ControlInv, CountersType, counters
<1>4. WorkerType' /\ CopyInv' /\ WorkInv'
  BY <1>1 DEF ControlInv, WorkerInv, WorkerType, CopyInv, WorkInv, worker, scheduler,
     cluster, caches
<1> QED
  BY <1>2, <1>3, <1>4 DEF ControlInv, WorkerInv

(* The worker goes on with a copy that differs in its conditions only. *)
LEMMA ContinueInv ==
  ASSUME WorkerInv, NEW step \in Steps, NEW o \in Objects, Continue(step, o),
         SameButStatus(o, obj), pc # "idle", UNCHANGED <<ad, behind>>
  PROVE  WorkerType' /\ CopyInv' /\ pc' = step /\ obj' = o /\ o.phase # "absent"
  BY DEF Continue, WorkerInv, WorkerType, CopyInv, WorkInv, SameButStatus

LEMMA RegisteredInv ==
  ASSUME ControlInv, Registered
  PROVE  ControlInv'
<1> DEFINE step == IF result = "Registered" THEN First(Kinds) ELSE "writeFailure"
           o == Registration(obj, result)
<1>1. /\ pc = "register" /\ call = "idle" /\ Continue(step, o) /\ result' = "none"
      /\ UNCHANGED <<services, call, op, app, found, creds, cookies, faults, losses,
                      cluster, caches, counters>>
  BY DEF Registered
<1>2. obj \in Objects /\ result \in Results /\ obj.phase = "live" /\ obj.finalizer
  BY <1>1 DEF ControlInv, WorkerInv, WorkerType, ClientInv, WorkInv
<1>3. /\ o \in Objects /\ SameButStatus(o, obj) /\ o.status.oidc = result
      /\ o.finalizer = obj.finalizer
  BY <1>2, RegistrationType
<1>4. step \in Kinds \cup {"writeFailure"} /\ step \in Steps
      /\ (step \in Kinds => result = "Registered")
  BY FirstChild, StepNames DEF Steps
<1> HIDE DEF o, step
<1>5. OidcTypeOK' /\ ClusterInv' /\ CountersType'
  BY <1>1, AnswerType, SameCluster DEF ControlInv, CountersType, counters
<1>6. WorkerType' /\ CopyInv' /\ pc' = step /\ obj' = o
  BY <1>1, <1>3, <1>4, ContinueInv DEF ControlInv, cluster, caches
<1>7. WorkInv' /\ ClientInv'
  BY <1>1, <1>2, <1>3, <1>4, <1>6, StepNames DEF WorkInv, ClientInv, SameButStatus
<1> QED
  BY <1>5, <1>6, <1>7 DEF ControlInv, WorkerInv

LEMMA CleanedUpInv ==
  ASSUME ControlInv, CleanedUp
  PROVE  ControlInv'
<1>1. /\ pc = "cleanup" /\ call = "idle" /\ Continue("removeFinalizer", obj)
      /\ result' = "none"
      /\ UNCHANGED <<services, call, op, app, found, creds, cookies, faults, losses,
                      cluster, caches, counters>>
  BY DEF CleanedUp
<1>2. obj \in Objects /\ obj.phase = "deleting" /\ SameButStatus(obj, obj)
      /\ "removeFinalizer" \in Steps
  BY <1>1 DEF ControlInv, WorkerInv, WorkerType, WorkInv, SameButStatus, Steps
<1>3. OidcTypeOK' /\ ClusterInv' /\ CountersType'
  BY <1>1, AnswerType, SameCluster DEF ControlInv, CountersType, counters
<1>4. WorkerType' /\ CopyInv' /\ pc' = "removeFinalizer" /\ obj' = obj
  BY <1>1, <1>2, ContinueInv DEF ControlInv, cluster, caches
<1>5. WorkInv' /\ ClientInv'
  BY <1>1, <1>2, <1>4, StepNames DEF WorkInv, ClientInv
<1> QED
  BY <1>3, <1>4, <1>5 DEF ControlInv, WorkerInv

(* The writes that end a Reconcile. *)
LEMMA UpdateInv ==
  ASSUME ControlInv, NEW c, NEW out \in Outcomes, NEW o \in Objects, Calls(c, out), Update(out, o),
         o.phase = "absent" => o = NoObject, Return, call = "idle",
         queue' \subseteq CRs, timers' \subseteq CRs, UNCHANGED <<child, childEvents>>
  PROVE  ControlInv'
<1>1. /\ OidcTypeOK' /\ call' = "idle"
      /\ UNCHANGED <<cfg, created, adCache, childCache, counters>>
  BY CallsType DEF Calls, ControlInv
<1>2. WorkerInv' /\ CountersType'
  BY <1>1, ReturnInv DEF ControlInv, CountersType, counters
<1>3. key \in CRs /\ created \in [CRs -> Nat]
  BY DEF ControlInv, WorkerInv, WorkerType, ClusterInv, ClusterType
<1>4. CASE Store(key, o)
  BY <1>1, <1>2, <1>3, <1>4, StoreInv DEF ControlInv
<1>5. CASE UNCHANGED <<ad, behind>>
  BY <1>1, <1>2, <1>5, SameCluster DEF ControlInv, cluster, caches
<1> QED
  BY <1>4, <1>5 DEF Update

LEMMA WriteInv ==
  ASSUME ControlInv, NEW out \in Outcomes,
         AddFinalizer(out) \/ WriteFailure(out) \/ WriteReady(out) \/ RemoveFinalizer(out)
  PROVE  ControlInv'
<1>1. /\ obj \in Objects /\ key \in CRs /\ queue \subseteq CRs /\ timers \subseteq CRs
      /\ pc # "idle" => obj.phase # "absent"
  BY DEF ControlInv, WorkerInv, WorkerType, WorkInv
<1>2. pc \in {"addFinalizer", "writeFailure", "writeReady", "removeFinalizer"} => call = "idle"
  BY DEF ControlInv, WorkerInv, ClientInv
<1>3. /\ Reconciled(obj) \in Objects /\ Reconciled(obj).phase = obj.phase
      /\ NoObject \in Objects
  BY <1>1, StatusType, NoObjectType
<1>4. CASE AddFinalizer(out)
  BY <1>1, <1>2, <1>4, UpdateInv DEF AddFinalizer, Requeue
<1>5. CASE WriteFailure(out)
  BY <1>1, <1>2, <1>5, UpdateInv DEF WriteFailure, RequeueLater
<1>6. CASE WriteReady(out)
  <2>1. Return /\ queue' \subseteq CRs /\ timers' \subseteq CRs
    BY <1>1, <1>6 DEF WriteReady, Done, RequeueLater, scheduler
  <2> QED
    BY <1>1, <1>2, <1>3, <1>6, <2>1, UpdateInv DEF WriteReady
<1>7. CASE RemoveFinalizer(out)
  <2>1. Return /\ queue' \subseteq CRs /\ timers' \subseteq CRs
    BY <1>1, <1>7 DEF RemoveFinalizer, Done, Requeue, scheduler
  <2> QED
    BY <1>1, <1>2, <1>3, <1>7, <2>1, UpdateInv DEF RemoveFinalizer
<1> QED
  BY <1>4, <1>5, <1>6, <1>7

(* The steps of the workload. *)
LEMMA EnsureInv ==
  ASSUME ControlInv, NEW out \in Outcomes, pc \in Kinds, Calls("ensure", out),
         NEW k \in ChildKeys, NEW c \in Children,
         StoreChild(k, c) \/ UNCHANGED <<child, childEvents>>,
         Continue(AfterChild(pc), obj) \/ Requeue, UNCHANGED <<ad, behind>>
  PROVE  ControlInv'
<1>1. call = "idle" /\ obj \in Objects /\ key \in CRs /\ queue \subseteq CRs
      /\ timers \subseteq CRs /\ pc # "idle" /\ SameButStatus(obj, obj)
  BY StepNames DEF ControlInv, WorkerInv, WorkerType, ClientInv, SameButStatus
<1>2. /\ OidcTypeOK' /\ call' = "idle"
      /\ UNCHANGED <<cfg, created, adCache, childCache, counters>>
  BY <1>1, CallsType DEF Calls, ControlInv
<1>3. ClusterInv' /\ CountersType'
  BY <1>2, StoreChildInv, SameCluster DEF ControlInv, CountersType, counters, cluster, caches
<1>4. CASE Requeue
  BY <1>1, <1>2, <1>3, <1>4, ReturnInv DEF Requeue, ControlInv
<1>5. CASE Continue(AfterChild(pc), obj)
  <2>1. AfterChild(pc) \in Kinds \cup {"writeReady"} /\ AfterChild(pc) \in Steps
    BY NextChild, StepNames DEF Steps
  <2>2. WorkerType' /\ CopyInv' /\ pc' = AfterChild(pc) /\ obj' = obj
    BY <1>1, <1>5, <2>1, ContinueInv DEF ControlInv
  <2>3. WorkInv' /\ ClientInv'
    BY <1>2, <2>1, <2>2, StepNames DEF WorkInv, ClientInv, ControlInv, WorkerInv
  <2> QED
    BY <1>2, <1>3, <2>2, <2>3 DEF ControlInv, WorkerInv
<1> QED
  BY <1>4, <1>5

LEMMA EnsureChildInv ==
  ASSUME ControlInv, NEW out \in Outcomes, EnsureChild(out)
  PROVE  ControlInv'
<1> DEFINE k == ChildKey(key, obj.spec, pc)
<1>1. pc \in Kinds /\ key \in CRs /\ obj \in Objects /\ obj.spec \in Specs
  BY ObjectFields DEF EnsureChild, ControlInv, WorkerInv, WorkerType
<1>2. k \in ChildKeys /\ Child(key, obj, pc) \in Children
  BY <1>1, ChildKeyType, ChildType
<1>3. /\ Calls("ensure", out) /\ UNCHANGED <<ad, behind>>
      /\ StoreChild(k, Child(key, obj, pc)) \/ UNCHANGED <<child, childEvents>>
      /\ Continue(AfterChild(pc), obj) \/ Requeue
  BY DEF EnsureChild
<1> QED
  BY <1>1, <1>2, <1>3, EnsureInv

LEMMA EnsureStatefulSetInv ==
  ASSUME ControlInv, NEW out \in Outcomes, EnsureStatefulSet(out)
  PROVE  ControlInv'
<1> DEFINE k == ChildKey(key, obj.spec, "statefulSet")
           desired == Child(key, obj, "statefulSet")
           scaled == [childCache[k] EXCEPT !.spec.replicas = desired.spec.replicas]
<1>1. /\ pc = "statefulSet" /\ pc \in Kinds /\ key \in CRs /\ obj \in Objects
      /\ obj.spec \in Specs
  BY ObjectFields, KindsAssumption DEF EnsureStatefulSet, ControlInv, WorkerInv, WorkerType
<1>2. /\ k \in ChildKeys /\ desired \in Children
      /\ desired.spec.replicas = Replicas(obj.spec)
  BY <1>1, ChildKeyType, ChildType
<1>3. childCache[k] # NoChild => scaled \in Children
  BY <1>1, <1>2, ScaledType DEF ControlInv, ClusterInv, ClusterType
<1>4. /\ Calls("ensure", out) /\ UNCHANGED <<ad, behind>>
      /\ \/ StoreChild(k, desired) \/ UNCHANGED <<child, childEvents>>
         \/ childCache[k] # NoChild /\ StoreChild(k, scaled)
      /\ Continue(AfterChild(pc), obj) \/ Requeue
  BY <1>1 DEF EnsureStatefulSet
<1> HIDE DEF k, desired, scaled
<1> QED
  BY <1>1, <1>2, <1>3, <1>4, EnsureInv

(* The manager and the garbage collector. *)
LEMMA ManagerInv ==
  ASSUME ControlInv, NEW g \in CRs, CacheSync(g) \/ TimerFire(g) \/ Resync(g)
  PROVE  ControlInv'
<1>1. OidcTypeOK' /\ UNCHANGED <<call, op, app, result>> /\ CountersType'
  BY SameOidc DEF CacheSync, TimerFire, Resync, ControlInv, CountersType, counters
<1>2. /\ UNCHANGED <<ad, child, cfg, created, childCache, childEvents>>
      /\ UNCHANGED <<pc, key, obj, fresh>>
      /\ queue' = queue \cup {g} /\ timers' \in {timers, timers \ {g}}
      /\ \/ UNCHANGED <<adCache, behind>>
         \/ /\ adCache' = [adCache EXCEPT ![g] = ad[g]]
            /\ behind' = behind \ {g}
  BY DEF CacheSync, TimerFire, Resync, cluster, caches, worker
<1>3. ClusterInv'
  BY <1>2 DEF ControlInv, ClusterInv, ClusterType
<1>4. WorkerInv'
  BY <1>1, <1>2, WorkerStays DEF ControlInv, WorkerInv, WorkerType
<1> QED
  BY <1>1, <1>3, <1>4 DEF ControlInv

LEMMA ChildSyncInv ==
  ASSUME ControlInv, NEW k \in ChildKeys, ChildSync(k)
  PROVE  ControlInv'
<1>1. OidcTypeOK' /\ UNCHANGED <<call, op, app, result>> /\ CountersType'
  BY SameOidc DEF ChildSync, ControlInv, CountersType, counters
<1>2. /\ UNCHANGED <<ad, child, cfg, created, adCache, behind, timers>>
      /\ UNCHANGED <<pc, key, obj, fresh>>
      /\ queue' \in {queue, queue \cup childEvents[k]}
      /\ childCache' = [childCache EXCEPT ![k] = child[k]]
      /\ childEvents' = [childEvents EXCEPT ![k] = {}]
  BY DEF ChildSync, cluster, worker
<1>3. ClusterInv'
  BY <1>2 DEF ControlInv, ClusterInv, ClusterType
<1>4. WorkerInv'
  BY <1>1, <1>2, WorkerStays DEF ControlInv, WorkerInv, WorkerType, ClusterInv, ClusterType
<1> QED
  BY <1>1, <1>3, <1>4 DEF ControlInv

LEMMA CollectInv ==
  ASSUME ControlInv, NEW k \in ChildKeys, Collect(k)
  PROVE  ControlInv'
<1>1. OidcTypeOK' /\ UNCHANGED <<call, op, app, result>> /\ CountersType'
  BY SameOidc DEF Collect, ControlInv, CountersType, counters
<1>2. /\ StoreChild(k, NoChild)
      /\ UNCHANGED <<ad, cfg, created, adCache, behind, childCache, queue, timers>>
      /\ UNCHANGED <<pc, key, obj, fresh>>
  BY DEF Collect, scheduler, worker
<1>3. ClusterInv'
  BY <1>2, StoreChildInv DEF ControlInv
<1>4. WorkerInv'
  BY <1>1, <1>2, WorkerStays DEF ControlInv, WorkerInv, WorkerType
<1> QED
  BY <1>1, <1>3, <1>4 DEF ControlInv

LEMMA ServicesInv ==
  ASSUME ControlInv, Services
  PROVE  ControlInv'
<1>1. /\ OidcTypeOK' /\ UNCHANGED <<cluster, caches, scheduler, worker, counters>>
  BY ServiceType DEF Services, ControlInv
<1>2. UNCHANGED <<call, op, app, result>>
  BY DEF Services, ServiceStep, Land, Lose, request
<1>3. ClusterInv' /\ CountersType'
  BY <1>1, SameCluster DEF ControlInv, CountersType, counters
<1>4. WorkerInv'
  BY <1>1, <1>2, WorkerStays DEF ControlInv, WorkerInv, WorkerType, scheduler, worker,
     cluster, caches
<1> QED
  BY <1>1, <1>3, <1>4 DEF ControlInv

LEMMA RestartInv ==
  ASSUME ControlInv, Restart
  PROVE  ControlInv'
<1>1. /\ Finish("none") /\ UNCHANGED <<services, cookies, faults, losses>> /\ Return
      /\ queue' \subseteq CRs /\ timers' = {} /\ restarts' = restarts + 1
      /\ userOps' = userOps
  BY DEF Restart, Abandon
<1>2. OidcTypeOK' /\ call' = "idle"
  <2>1. RequestType'
    BY <1>1, FinishType DEF ControlInv, OidcTypeOK
  <2> QED
    BY <1>1, <2>1, TypeParts, SameServicesType DEF ControlInv, OidcTypeOK, Finish
<1>3. WorkerInv' /\ CountersType'
  BY <1>1, <1>2, ReturnInv DEF ControlInv, CountersType
<1>4. /\ UNCHANGED <<ad, child, cfg, created>> /\ adCache' = ad /\ behind' = {}
      /\ childCache' = child /\ childEvents' = [k \in ChildKeys |-> {}]
  BY DEF Restart, cluster
<1>5. ClusterInv'
  BY <1>4 DEF ControlInv, ClusterInv, ClusterType
<1> QED
  BY <1>2, <1>3, <1>5 DEF ControlInv

(* The writes of users. *)
LEMMA UserWriteInv ==
  ASSUME ControlInv, NEW a, NEW g \in CRs, NEW o \in Objects,
         o.phase = "absent" => o = NoObject, UserWrite(a, g, o), o # ad[g],
         created' \in [CRs -> Nat]
  PROVE  ControlInv'
<1>1. /\ OidcTypeOK' /\ UNCHANGED <<call, op, app, result>> /\ CountersType'
      /\ UNCHANGED <<adCache, childCache, queue, timers, pc, key, obj>>
      /\ UNCHANGED <<child, cfg, childEvents>>
      /\ Store(g, o)
  BY SameOidc DEF UserWrite, UserAction, ControlInv, CountersType, scheduler
<1>2. /\ ClusterInv' /\ behind \subseteq behind' /\ g \in behind'
      /\ \A h \in CRs : h # g => ad'[h] = ad[h]
  BY <1>1, StoreInv DEF ControlInv
<1>3. fresh' = (fresh /\ key # g) /\ fresh' \in BOOLEAN
  BY DEF UserWrite
<1>4. WorkerType'
  BY <1>1, <1>3 DEF ControlInv, WorkerInv, WorkerType
<1>5. CASE key = g
  <2>1. CopyInv'
    BY <1>1, <1>2, <1>3, <1>5 DEF CopyInv
  <2> QED
    BY <1>1, <1>2, <1>4, <2>1 DEF ControlInv, WorkerInv, WorkInv, ClientInv
<1>6. CASE key # g
  <2>1. fresh' = fresh /\ ad'[key] = ad[key]
    BY <1>2, <1>3, <1>6, Zenon DEF ControlInv, WorkerInv, WorkerType
  <2> QED
    BY <1>1, <1>2, <2>1, WorkerStays DEF ControlInv, WorkerInv, WorkerType
<1> QED
  BY <1>5, <1>6

LEMMA UserCreateInv ==
  ASSUME ControlInv, NEW g \in CRs, NEW s \in Specs, UserCreate(g, s)
  PROVE  ControlInv'
<1>1. created[g] + 1 \in Nat /\ created \in [CRs -> Nat] /\ ad[g].phase = "absent"
  BY DEF ControlInv, ClusterInv, ClusterType, UserCreate, Exists
<1>2. /\ NewObject(s, created[g] + 1) \in Objects
      /\ NewObject(s, created[g] + 1).phase = "live"
  BY <1>1, NewObjectType
<1>3. created' \in [CRs -> Nat]
  BY <1>1 DEF UserCreate
<1> QED
  BY <1>1, <1>2, <1>3, UserWriteInv DEF UserCreate

LEMMA UserDeleteInv ==
  ASSUME ControlInv, NEW g \in CRs, UserDelete(g)
  PROVE  ControlInv'
<1> DEFINE o == IF ad[g].finalizer THEN [ad[g] EXCEPT !.phase = "deleting"] ELSE NoObject
<1>1. ad[g] \in Objects /\ ad[g].phase = "live" /\ UNCHANGED created
  BY DEF ControlInv, ClusterInv, ClusterType, UserDelete
<1>2. [ad[g] EXCEPT !.phase = "deleting"] \in Objects
      /\ [ad[g] EXCEPT !.phase = "deleting"].phase = "deleting"
  BY <1>1 DEF Objects
<1>3. o \in Objects /\ (o.phase = "absent" => o = NoObject) /\ o # ad[g]
  BY <1>1, <1>2, NoObjectType
<1>4. UserWrite("delete", g, o)
  BY DEF UserDelete
<1> HIDE DEF o
<1> QED
  BY <1>1, <1>3, <1>4, UserWriteInv DEF ControlInv, ClusterInv, ClusterType

LEMMA UserEditInv ==
  ASSUME ControlInv, NEW g \in CRs, NEW s \in Specs, UserEdit(g, s)
  PROVE  ControlInv'
<1> DEFINE o == [ad[g] EXCEPT !.spec = s, !.generation = @ + 1]
<1>1. ad[g] \in Objects /\ ad[g].phase # "absent" /\ UNCHANGED created /\ s # ad[g].spec
  BY DEF ControlInv, ClusterInv, ClusterType, UserEdit, Exists
<1>2. o \in Objects /\ o.phase = ad[g].phase /\ o.spec = s
  <2> HIDE DEF o
  <2>1. ad[g].generation \in Nat
    BY <1>1, ObjectFields
  <2>2. ASSUME NEW n \in Nat
        PROVE  /\ [ad[g] EXCEPT !.spec = s, !.generation = n] \in Objects
               /\ [ad[g] EXCEPT !.spec = s, !.generation = n].phase = ad[g].phase
               /\ [ad[g] EXCEPT !.spec = s, !.generation = n].spec = s
    BY <1>1, <2>2 DEF Objects
  <2> DEFINE m == ad[g].generation + 1
  <2>3. m \in Nat /\ o = [ad[g] EXCEPT !.spec = s, !.generation = m]
    BY <2>1 DEF o
  <2> HIDE DEF m
  <2> QED
    BY <2>2, <2>3
<1>3. UserWrite("edit", g, o)
  BY DEF UserEdit
<1> HIDE DEF o
<1> QED
  BY <1>1, <1>2, <1>3, UserWriteInv DEF ControlInv, ClusterInv, ClusterType

LEMMA ChildWriteInv ==
  ASSUME ControlInv, NEW a, NEW k \in ChildKeys, NEW c \in Children \cup {NoChild},
         ChildWrite(a, k, c)
  PROVE  ControlInv'
<1>1. /\ OidcTypeOK' /\ UNCHANGED <<call, op, app, result>> /\ CountersType'
      /\ UNCHANGED <<adCache, childCache, queue, timers, pc, key, obj, fresh>>
      /\ UNCHANGED <<ad, cfg, created, behind>> /\ StoreChild(k, c)
  BY SameOidc DEF ChildWrite, UserAction, ControlInv, CountersType, scheduler
<1>2. ClusterInv'
  BY <1>1, StoreChildInv DEF ControlInv
<1>3. WorkerInv'
  BY <1>1, WorkerStays DEF ControlInv, WorkerInv, WorkerType
<1> QED
  BY <1>1, <1>2, <1>3 DEF ControlInv

LEMMA ToggleConfigInv ==
  ASSUME ControlInv, NEW n \in Namespaces, ToggleConfig(n)
  PROVE  ControlInv'
<1>1. /\ OidcTypeOK' /\ UNCHANGED <<call, op, app, result>> /\ CountersType'
      /\ UNCHANGED <<adCache, childCache, queue, timers, pc, key, obj, fresh>>
      /\ UNCHANGED <<ad, child, created, behind, childEvents>>
      /\ cfg' = (cfg \ {n}) \cup ({n} \ cfg)
  BY SameOidc DEF ToggleConfig, UserAction, ControlInv, CountersType, scheduler
<1>2. ClusterInv'
  BY <1>1 DEF ControlInv, ClusterInv, ClusterType
<1>3. WorkerInv'
  BY <1>1, WorkerStays DEF ControlInv, WorkerInv, WorkerType
<1> QED
  BY <1>1, <1>2, <1>3 DEF ControlInv

LEMMA UsersInv ==
  ASSUME ControlInv, Users
  PROVE  ControlInv'
<1>1. ASSUME NEW k \in ChildKeys, Prune(k) PROVE ControlInv'
  BY <1>1, ChildWriteInv DEF Prune
<1>2. ASSUME NEW k \in ChildKeys, NEW s \in Specs, Scale(k, s) PROVE ControlInv'
  <2>1. child[k] \in Children
    BY <1>2 DEF Scale, ChildWrite, ControlInv, ClusterInv, ClusterType
  <2>2. [child[k] EXCEPT !.spec.replicas = Replicas(s)] \in Children
    BY <2>1, ScaledType
  <2> QED
    BY <1>2, <2>2, ChildWriteInv DEF Scale
<1> QED
  BY <1>1, <1>2, UserCreateInv, UserEditInv, UserDeleteInv, ToggleConfigInv DEF Users

LEMMA SameControl ==
  ASSUME ControlInv, UNCHANGED vars
  PROVE  ControlInv'
<1>1. OidcTypeOK' /\ UNCHANGED <<call, op, app, result>>
  BY SameOidc DEF ControlInv, vars
<1>2. ClusterInv' /\ CountersType'
  BY SameCluster DEF ControlInv, CountersType, counters, vars
<1>3. WorkerInv'
  BY <1>1, WorkerStays DEF ControlInv, WorkerInv, WorkerType, scheduler, worker,
     cluster, caches, vars
<1> QED
  BY <1>1, <1>2, <1>3 DEF ControlInv

LEMMA NextControl == ControlInv /\ [Next]_vars => ControlInv'
<1>1. ASSUME ControlInv, NEW out \in Outcomes, Step(out) PROVE ControlInv'
  BY <1>1, OidcRequestInv, WriteInv, EnsureChildInv, EnsureStatefulSetInv DEF Step
<1> QED
  BY <1>1, ReconcileInv, RegisteredInv, CleanedUpInv, ManagerInv, ChildSyncInv, CollectInv,
     ServicesInv, RestartInv, UsersInv, SameControl DEF Next

LEMMA InitControl == Init => ControlInv
<1>1. Init => OidcTypeOK /\ call = "idle"
  BY InitType DEF Init, OidcInit
<1>2. Init => ClusterInv
  BY NoObjectType DEF Init, ClusterInv, ClusterType
<1>3. Init => CopyInv /\ WorkInv /\ ClientInv /\ CountersType
  BY <1>1, StepNames DEF Init, CopyInv, WorkInv, ClientInv, CountersType
<1>4. Init => fresh \in BOOLEAN
  BY DEF Init
<1>5. Init => WorkerType
  BY <1>4, NoObjectType, AnyCRType DEF Init, WorkerType, Steps
<1> QED
  BY <1>1, <1>2, <1>3, <1>5 DEF ControlInv, WorkerInv

(* The worker's copy, the caches and the client are what the steps count   *)
(* on.                                                                     *)
LEMMA ControlHolds == Spec => []ControlInv
  BY InitControl, NextControl, PTL DEF Spec

(* Every variable keeps its type, whatever users, faults and restarts do.  *)
THEOREM AppDeploymentTypeCorrect == Spec => []TypeOK
  BY ControlHolds, ControlImpliesType, PTL

-----------------------------------------------------------------------------
(* Who writes an AppDeployment. *)

WorkerWrites(g) ==
  /\ pc # "idle" /\ key = g /\ fresh
  /\ \/ pc \in {"addFinalizer", "writeFailure"} /\ ad'[g] = obj
     \/ pc = "writeReady" /\ ad'[g] = Reconciled(obj)
     \/ pc = "removeFinalizer" /\ ad'[g] = NoObject

UserWrites(g) == UserDelete(g) \/ \E s \in Specs : UserCreate(g, s) \/ UserEdit(g, s)

LEMMA StoreElsewhere ==
  ASSUME ControlInv, NEW g \in CRs, NEW h \in CRs, NEW o, Store(h, o)
  PROVE  ad'[g] # ad[g] => g = h /\ g \in behind' /\ ad'[g] = o
  BY DEF Store, ControlInv, ClusterInv, ClusterType

LEMMA WhoWrites ==
  ASSUME ControlInv, Next, NEW g \in CRs, ad'[g] # ad[g]
  PROVE  g \in behind' /\ (WorkerWrites(g) \/ UserWrites(g))
<1>1. key \in CRs
  BY DEF ControlInv, WorkerInv, WorkerType
<1>2. ASSUME NEW out, NEW o, Update(out, o)
      PROVE  fresh /\ key = g /\ g \in behind' /\ ad'[g] = o
  BY <1>1, <1>2, StoreElsewhere DEF Update
<1>3. ASSUME NEW out \in Outcomes, Step(out)
      PROVE  g \in behind' /\ WorkerWrites(g)
  <2>1. CASE AddFinalizer(out)
    BY <1>2, <2>1 DEF AddFinalizer, WorkerWrites
  <2>2. CASE WriteFailure(out)
    BY <1>2, <2>2 DEF WriteFailure, WorkerWrites
  <2>3. CASE WriteReady(out)
    BY <1>2, <2>3 DEF WriteReady, WorkerWrites
  <2>4. CASE RemoveFinalizer(out)
    BY <1>2, <2>4 DEF RemoveFinalizer, WorkerWrites
  <2>5. CASE OidcRequest(out) \/ EnsureChild(out) \/ EnsureStatefulSet(out)
    BY <2>5 DEF OidcRequest, EnsureChild, EnsureStatefulSet, cluster
  <2> QED
    BY <1>3, <2>1, <2>2, <2>3, <2>4, <2>5 DEF Step
<1>4. CASE Users
  <2>1. ASSUME NEW h \in CRs, NEW s \in Specs, UserCreate(h, s)
        PROVE  g \in behind' /\ UserWrites(g)
    <3>1. Store(h, NewObject(s, created[h] + 1))
      BY <2>1 DEF UserCreate, UserWrite
    <3>2. g = h /\ g \in behind'
      BY <3>1, StoreElsewhere
    <3> QED
      BY <2>1, <3>2 DEF UserWrites
  <2>2. ASSUME NEW h \in CRs, NEW s \in Specs, UserEdit(h, s)
        PROVE  g \in behind' /\ UserWrites(g)
    <3>1. Store(h, [ad[h] EXCEPT !.spec = s, !.generation = @ + 1])
      BY <2>2 DEF UserEdit, UserWrite
    <3>2. g = h /\ g \in behind'
      BY <3>1, StoreElsewhere
    <3> QED
      BY <2>2, <3>2 DEF UserWrites
  <2>3. ASSUME NEW h \in CRs, UserDelete(h)
        PROVE  g \in behind' /\ UserWrites(g)
    BY <2>3, StoreElsewhere DEF UserDelete, UserWrite, UserWrites
  <2> QED
    BY <1>4, <2>1, <2>2, <2>3 DEF Users, Prune, Scale, ChildWrite, ToggleConfig
<1>5. ASSUME NEW h \in CRs, Reconcile(h) PROVE FALSE
  BY <1>5 DEF Reconcile, ReconcileNothing, ReconcileDeletion, ReconcileAddFinalizer,
     ReconcileConfigMissing, ReconcileRegister, ReconcileWorkload, Start, Take, cluster
<1>6. ASSUME \/ Registered \/ CleanedUp \/ Services \/ Restart
             \/ \E h \in CRs : CacheSync(h) \/ TimerFire(h) \/ Resync(h)
             \/ \E k \in ChildKeys : ChildSync(k) \/ Collect(k)
      PROVE  FALSE
  BY <1>6 DEF Registered, CleanedUp, Services, Restart, CacheSync, TimerFire, Resync,
     ChildSync, Collect, cluster
<1> QED
  BY <1>3, <1>4, <1>5, <1>6 DEF Next

(* The worker's write is based on what is stored. *)
LEMMA WorkerWritesWhatItRead ==
  ASSUME ControlInv, NEW g \in CRs, WorkerWrites(g)
  PROVE  /\ SameButStatus(obj, ad[g]) /\ obj \in Objects
         /\ ad[g].phase # "absent"
         /\ pc = "removeFinalizer" => ad[g].phase = "deleting"
<1> QED
  BY DEF WorkerWrites, ControlInv, WorkerInv, WorkerType, CopyInv, WorkInv, SameButStatus

(* What a user's write does. *)
LEMMA UserWritesWhat ==
  ASSUME ControlInv, NEW g \in CRs, UserWrites(g)
  PROVE  /\ userOps' # userOps
         /\ \/ /\ ad[g].phase = "absent" /\ ad'[g] \in Objects
               /\ ad'[g].phase = "live" /\ ad'[g].uid = created[g] + 1
               /\ ad'[g].status.observed = 0 /\ ad'[g].status.oidc = ""
               /\ created' = [created EXCEPT ![g] = @ + 1]
            \/ ad[g].phase = "live" /\ ~ad[g].finalizer /\ ad'[g] = NoObject
            \/ /\ ad[g].phase = "live" /\ ad'[g].phase = "deleting"
               /\ ad'[g].uid = ad[g].uid /\ ad'[g].spec = ad[g].spec
               /\ ad'[g].status = ad[g].status /\ ad'[g].finalizer = ad[g].finalizer
            \/ /\ "edit" \in UserActions
               /\ ad[g].phase # "absent" /\ ad'[g].phase = ad[g].phase
               /\ ad'[g].uid = ad[g].uid /\ ad'[g].status = ad[g].status
               /\ ad'[g].finalizer = ad[g].finalizer
<1>1. /\ ad \in [CRs -> Objects] /\ ad[g].phase \in {"absent", "live", "deleting"}
      /\ created[g] \in Nat /\ userOps \in Nat
  BY DEF ControlInv, ClusterInv, ClusterType, CountersType, Objects
<1>2. userOps' # userOps
  <2>1. \A a : UserAction(a) => userOps' # userOps
    BY <1>1 DEF UserAction
  <2>2. \A a, o : UserWrite(a, g, o) => userOps' # userOps
    BY <2>1 DEF UserWrite
  <2> QED
    BY <2>2 DEF UserWrites, UserCreate, UserDelete, UserEdit
<1>3. ASSUME NEW o, Store(g, o) PROVE ad'[g] = o
  BY <1>1, <1>3 DEF Store
<1>4. CASE UserDelete(g)
  <2>1. LET o == [ad[g] EXCEPT !.phase = "deleting"] IN
        /\ o.phase = "deleting" /\ o.uid = ad[g].uid /\ o.spec = ad[g].spec
        /\ o.status = ad[g].status /\ o.finalizer = ad[g].finalizer
    BY <1>1 DEF Objects
  <2>2. /\ ad[g].phase = "live"
        /\ \/ ~ad[g].finalizer /\ ad'[g] = NoObject
           \/ ad'[g] = [ad[g] EXCEPT !.phase = "deleting"]
    BY <1>3, <1>4 DEF UserDelete, UserWrite
  <2> QED
    BY <1>2, <2>1, <2>2
<1>5. ASSUME NEW s \in Specs, UserCreate(g, s)
      PROVE  /\ ad[g].phase = "absent" /\ ad'[g] \in Objects
             /\ ad'[g].phase = "live" /\ ad'[g].uid = created[g] + 1
             /\ ad'[g].status.observed = 0 /\ ad'[g].status.oidc = ""
             /\ created' = [created EXCEPT ![g] = @ + 1]
  <2>1. Store(g, NewObject(s, created[g] + 1)) /\ ad[g].phase = "absent"
        /\ created' = [created EXCEPT ![g] = @ + 1]
    BY <1>5 DEF UserCreate, UserWrite, Exists
  <2>2. ad'[g] = NewObject(s, created[g] + 1)
    BY <1>3, <2>1
  <2>3. created[g] + 1 \in Nat
    BY <1>1
  <2>4. ad'[g].status.oidc = ""
    BY <2>2, NewObjectStatus
  <2> DEFINE o == NewObject(s, created[g] + 1)
  <2>5. /\ o \in Objects /\ o.phase = "live" /\ o.uid = created[g] + 1
        /\ o.status.observed = 0
    BY <2>3, NewObjectType
  <2>6. ad'[g] = o
    BY <2>2
  <2> HIDE DEF o
  <2> QED
    BY <2>1, <2>4, <2>5, <2>6
<1>6. ASSUME NEW s \in Specs, UserEdit(g, s)
      PROVE  /\ "edit" \in UserActions
             /\ ad[g].phase # "absent" /\ ad'[g].phase = ad[g].phase
             /\ ad'[g].uid = ad[g].uid /\ ad'[g].status = ad[g].status
             /\ ad'[g].finalizer = ad[g].finalizer
  <2>1. ad'[g] = [ad[g] EXCEPT !.spec = s, !.generation = @ + 1] /\ "edit" \in UserActions
    BY <1>3, <1>6 DEF UserEdit, UserWrite, UserAction
  <2> QED
    BY <1>1, <1>6, <2>1 DEF UserEdit, Exists, Objects
<1> QED
  BY <1>2, <1>4, <1>5, <1>6 DEF UserWrites

-----------------------------------------------------------------------------
(* Action properties. *)

(* A user's edit is never undone: whatever the controller writes, from     *)
(* however old a copy, the spec and generation of an AppDeployment stay as *)
(* its users have left them, and only one being deleted disappears.        *)
NoLostEdit ==
  [][userOps' = userOps =>
       \A g \in CRs :
         \/ /\ ad'[g].phase = ad[g].phase /\ ad'[g].uid = ad[g].uid
            /\ ad'[g].spec = ad[g].spec /\ ad'[g].generation = ad[g].generation
         \/ ad[g].phase = "deleting" /\ ad'[g].phase = "absent"]_vars

LEMMA ReportStep ==
  ASSUME ControlInv, Next, NEW g \in CRs, WorkerWrites(g)
  PROVE  /\ \/ ad'[g].phase = "absent" /\ ad[g].phase = "deleting"
            \/ /\ ad'[g].phase = ad[g].phase /\ ad'[g].uid = ad[g].uid
               /\ ad'[g].spec = ad[g].spec /\ ad'[g].generation = ad[g].generation
         /\ \/ ad'[g].status.observed = ad[g].status.observed
            \/ ad'[g].status.observed = ad'[g].generation
<1>1. /\ SameButStatus(obj, ad[g]) /\ obj \in Objects
      /\ pc = "removeFinalizer" => ad[g].phase = "deleting"
  BY WorkerWritesWhatItRead
<1>2. CASE ad'[g] = obj
  BY <1>1, <1>2 DEF SameButStatus
<1>3. CASE ad'[g] = Reconciled(obj)
  <2>1. /\ Reconciled(obj).phase = obj.phase /\ Reconciled(obj).uid = obj.uid
        /\ Reconciled(obj).generation = obj.generation /\ Reconciled(obj).spec = obj.spec
        /\ Reconciled(obj).status.observed = obj.generation
    BY <1>1, StatusType
  <2> QED
    BY <1>1, <1>3, <2>1 DEF SameButStatus
<1>4. CASE pc = "removeFinalizer" /\ ad'[g] = NoObject
  BY <1>1, <1>4, NoObjectType
<1> QED
  BY <1>2, <1>3, <1>4 DEF WorkerWrites

(* observedGeneration is only ever set to the generation of that moment.   *)
THEOREM ReportsAreFresh == Spec => NoStaleReport
<1> DEFINE Fresh(g) == /\ ad'[g].uid = ad[g].uid
                       /\ ad'[g].status.observed # ad[g].status.observed
                       => ad'[g].status.observed = ad'[g].generation
<1>1. ASSUME ControlInv, Next, NEW g \in CRs PROVE Fresh(g)
  <2>1. CASE ad'[g] = ad[g]
    BY <2>1
  <2>2. CASE WorkerWrites(g)
    BY <1>1, <2>2, ReportStep
  <2>3. CASE UserWrites(g)
    <3>1. ad[g].phase = "absent" => ad[g].uid = 0
      BY <1>1, NoObjectType DEF ControlInv, ClusterInv, ClusterType
    <3>2. ad[g].phase = "absent" => ad[g].uid # created[g] + 1
      BY <1>1, <3>1 DEF ControlInv, ClusterInv, ClusterType
    <3> QED
      BY <1>1, <2>3, <3>2, UserWritesWhat, NoObjectType
  <2> QED
    BY <1>1, <2>1, <2>2, <2>3, WhoWrites
<1>2. ControlInv /\ [Next]_vars => [\A g \in CRs : Fresh(g)]_vars
  BY <1>1
<1> QED
  BY <1>2, ControlHolds, PTL DEF Spec, NoStaleReport

(* The controller never changes what users asked for. *)
THEOREM EditsAreKept == Spec => NoLostEdit
<1> DEFINE Kept(g) ==
      \/ /\ ad'[g].phase = ad[g].phase /\ ad'[g].uid = ad[g].uid
         /\ ad'[g].spec = ad[g].spec /\ ad'[g].generation = ad[g].generation
      \/ ad[g].phase = "deleting" /\ ad'[g].phase = "absent"
<1>1. ASSUME ControlInv, Next, userOps' = userOps, NEW g \in CRs PROVE Kept(g)
  <2>1. CASE ad'[g] = ad[g]
    BY <2>1
  <2>2. CASE WorkerWrites(g)
    BY <1>1, <2>2, ReportStep
  <2> QED
    BY <1>1, <2>1, <2>2, WhoWrites, UserWritesWhat
<1>2. ControlInv /\ [Next]_vars => [userOps' = userOps => \A g \in CRs : Kept(g)]_vars
  BY <1>1
<1> QED
  BY <1>2, ControlHolds, PTL DEF Spec, NoLostEdit

-----------------------------------------------------------------------------
(* Where the cache and the worker have their versions from. *)

LEMMA WhoCaches ==
  ASSUME ControlInv, Next, NEW g \in CRs
  PROVE  adCache'[g] = adCache[g] \/ (adCache'[g] = ad[g] /\ UNCHANGED ad)
<1>1. adCache \in [CRs -> Objects]
  BY DEF ControlInv, ClusterInv, ClusterType
<1>2. ASSUME NEW h \in CRs, Reconcile(h) PROVE UNCHANGED adCache
  BY <1>2 DEF Reconcile, ReconcileNothing, ReconcileDeletion, ReconcileAddFinalizer,
     ReconcileConfigMissing, ReconcileRegister, ReconcileWorkload, Start, Take, caches
<1>3. ASSUME NEW out \in Outcomes, Step(out) PROVE UNCHANGED adCache
  BY <1>3 DEF Step, OidcRequest, AddFinalizer, WriteFailure, EnsureChild,
     EnsureStatefulSet, WriteReady, RemoveFinalizer, Calls, caches
<1>4. CASE Users
  <2>1. \A a : UserAction(a) => UNCHANGED adCache
    BY DEF UserAction
  <2> QED
    BY <1>4, <2>1 DEF Users, UserCreate, UserEdit, UserDelete, UserWrite, Prune, Scale,
       ChildWrite, ToggleConfig
<1>5. CASE (\E h \in CRs : CacheSync(h)) \/ Restart
  BY <1>1, <1>5 DEF CacheSync, Restart, cluster
<1> QED
  BY <1>2, <1>3, <1>4, <1>5 DEF Next, Registered, CleanedUp, TimerFire, Resync,
     ChildSync, Collect, Services, caches

(* The worker's copy stays, or is taken from the cache.                    *)
LEMMA CopyMoves ==
  ASSUME ControlInv, Next, pc' # "idle"
  PROVE  \/ pc # "idle" /\ key' = key /\ obj'.uid = obj.uid /\ obj'.spec = obj.spec
         \/ /\ key' \in CRs /\ adCache[key'].phase # "absent"
            /\ obj'.uid = adCache[key'].uid /\ obj'.spec = adCache[key'].spec
            /\ UNCHANGED <<ad, created>>
<1>1. obj \in Objects /\ "idle" \notin Kinds /\ adCache \in [CRs -> Objects]
  BY StepNames DEF ControlInv, WorkerInv, WorkerType, ClusterInv, ClusterType
<1>2. ASSUME NEW g \in CRs, Reconcile(g)
      PROVE  /\ key' \in CRs /\ adCache[key'].phase # "absent"
             /\ obj'.uid = adCache[key'].uid /\ obj'.spec = adCache[key'].spec
             /\ UNCHANGED <<ad, created>>
  <2> DEFINE o == adCache[g]
  <2>1. o \in Objects /\ SameButStatus(o, o)
    BY <1>1 DEF SameButStatus
  <2>2. /\ SameButStatus(ConfigMissing(o), o)
        /\ SameButStatus([o EXCEPT !.finalizer = TRUE], o)
    BY <2>1, StatusType
  <2>3. ASSUME NEW step, NEW p, Start(g, step, p), SameButStatus(p, o), o.phase # "absent"
        PROVE  /\ key' \in CRs /\ adCache[key'].phase # "absent"
               /\ obj'.uid = adCache[key'].uid /\ obj'.spec = adCache[key'].spec
               /\ UNCHANGED <<ad, created>>
    BY <2>3 DEF Start, Take, SameButStatus, cluster
  <2>4. ~ReconcileNothing(g)
    BY DEF ReconcileNothing, Take, worker
  <2> HIDE DEF o
  <2>5. /\ o.phase # "absent"
        /\ \E step : \/ Start(g, step, o) \/ Start(g, step, ConfigMissing(o))
                     \/ Start(g, step, [o EXCEPT !.finalizer = TRUE])
    BY <1>2, <2>4 DEF o, Reconcile, ReconcileDeletion, ReconcileAddFinalizer,
       ReconcileConfigMissing, ReconcileRegister, ReconcileWorkload, Deleting, Reconcilable
  <2> QED
    BY <2>1, <2>2, <2>3, <2>5
<1>3. CASE UNCHANGED <<pc, key, obj>>
  BY <1>3
<1>4. ASSUME NEW s, NEW o, Continue(s, o), pc # "idle", o.uid = obj.uid, o.spec = obj.spec
      PROVE  pc # "idle" /\ key' = key /\ obj'.uid = obj.uid /\ obj'.spec = obj.spec
  BY <1>4 DEF Continue
<1>5. CASE Registered
  <2>1. result \in Results /\ pc # "idle"
    BY <1>5 DEF Registered, ControlInv, WorkerInv, ClientInv
  <2>2. /\ Registration(obj, result).uid = obj.uid
        /\ Registration(obj, result).spec = obj.spec
    BY <1>1, <2>1, RegistrationType DEF SameButStatus
  <2> QED
    BY <1>4, <1>5, <2>1, <2>2 DEF Registered
<1>6. CASE CleanedUp
  BY <1>4, <1>6 DEF CleanedUp
<1>7. ASSUME NEW out \in Outcomes, Step(out)
      PROVE  pc # "idle" /\ key' = key /\ obj'.uid = obj.uid /\ obj'.spec = obj.spec
  <2>1. CASE OidcRequest(out)
    BY <2>1 DEF OidcRequest, worker
  <2>2. CASE EnsureChild(out) \/ EnsureStatefulSet(out)
    BY <1>1, <1>4, <2>2, KindsAssumption DEF EnsureChild, EnsureStatefulSet, Requeue, Return
  <2>3. CASE AddFinalizer(out) \/ WriteFailure(out) \/ WriteReady(out) \/ RemoveFinalizer(out)
    BY <2>3 DEF AddFinalizer, WriteFailure, WriteReady, RemoveFinalizer, Requeue,
       RequeueLater, Done, Return
  <2> QED
    BY <1>7, <2>1, <2>2, <2>3 DEF Step
<1>8. CASE Users
  <2>1. \A a : UserAction(a) => UNCHANGED <<pc, key, obj>>
    BY DEF UserAction
  <2>2. UNCHANGED <<pc, key, obj>>
    BY <1>8, <2>1 DEF Users, UserCreate, UserEdit, UserDelete, UserWrite, Prune, Scale,
       ChildWrite, ToggleConfig
  <2> QED
    BY <1>3, <2>2
<1>9. ASSUME Services \/ (\E h \in CRs : CacheSync(h) \/ TimerFire(h) \/ Resync(h))
             \/ (\E k \in ChildKeys : ChildSync(k) \/ Collect(k))
      PROVE  UNCHANGED <<pc, key, obj>>
  BY <1>9 DEF Services, CacheSync, TimerFire, Resync, ChildSync, Collect, worker
<1>10. ~Restart
  BY DEF Restart, Return
<1> QED
  BY <1>2, <1>3, <1>5, <1>6, <1>7, <1>8, <1>9, <1>10 DEF Next

-----------------------------------------------------------------------------
(* No wake-up is lost. *)

(* Somebody will look at the AppDeployment again; somebody is doing so.    *)
Queued(g) == g \in queue \cup behind \cup timers

Working(g) == pc # "idle" /\ key = g

(* What is waiting waits until it is taken. *)
LEMMA QueuedStays ==
  ASSUME ControlInv, Next, NEW g \in CRs, Queued(g), ~Reconcile(g),
         ad[g].phase # "absent"
  PROVE  Queued(g)'
<1>1. ASSUME NEW h \in CRs, Reconcile(h) PROVE Queued(g)'
  <2>1. h # g
    BY <1>1
  <2>2. Take(h)
    BY <1>1 DEF Reconcile, ReconcileNothing, ReconcileDeletion, ReconcileAddFinalizer,
       ReconcileConfigMissing, ReconcileRegister, ReconcileWorkload, Start
  <2> QED
    BY <2>1, <2>2 DEF Take, Queued, caches
<1>2. behind \subseteq behind' /\ queue \subseteq queue' /\ timers \subseteq timers' => Queued(g)'
  BY DEF Queued
<1>3. ASSUME NEW h, NEW o, Store(h, o) \/ UNCHANGED <<ad, behind>> PROVE behind \subseteq behind'
  BY <1>3 DEF Store
<1>4. ASSUME Requeue \/ RequeueLater \/ Done \/ \E s, o : Continue(s, o)
      PROVE  queue \subseteq queue' /\ timers \subseteq timers'
  BY <1>4 DEF Requeue, RequeueLater, Done, Continue, scheduler
<1>5. ASSUME NEW out \in Outcomes, Step(out) PROVE Queued(g)'
  <2>1. CASE OidcRequest(out)
    BY <1>2, <2>1 DEF OidcRequest, caches, scheduler
  <2>2. CASE EnsureChild(out)
    <3>1. UNCHANGED <<ad, behind>> /\ (Requeue \/ Continue(AfterChild(pc), obj))
      BY <2>2 DEF EnsureChild
    <3> QED
      BY <1>2, <1>4, <3>1
  <2>3. CASE EnsureStatefulSet(out)
    <3>1. UNCHANGED <<ad, behind>> /\ (Requeue \/ Continue(AfterChild("statefulSet"), obj))
      BY <2>3 DEF EnsureStatefulSet
    <3> QED
      BY <1>2, <1>4, <3>1
  <2>4. CASE AddFinalizer(out) \/ WriteFailure(out) \/ WriteReady(out) \/ RemoveFinalizer(out)
    <3>1. /\ \E o : Update(out, o)
          /\ Requeue \/ RequeueLater \/ Done
      BY <2>4 DEF AddFinalizer, WriteFailure, WriteReady, RemoveFinalizer
    <3> QED
      BY <1>2, <1>3, <1>4, <3>1 DEF Update
  <2> QED
    BY <1>5, <2>1, <2>2, <2>3, <2>4 DEF Step
<1>6. CASE Registered \/ CleanedUp
  BY <1>2, <1>4, <1>6 DEF Registered, CleanedUp, caches
<1>7. ASSUME NEW h \in CRs, CacheSync(h) \/ TimerFire(h) \/ Resync(h) PROVE Queued(g)'
  BY <1>7 DEF CacheSync, TimerFire, Resync, caches, Queued
<1>8. ASSUME NEW k \in ChildKeys, ChildSync(k) \/ Collect(k) PROVE Queued(g)'
  BY <1>2, <1>8 DEF ChildSync, Collect, scheduler
<1>9. CASE Services
  BY <1>2, <1>9 DEF Services, caches, scheduler
<1>10. CASE Restart
  BY <1>10 DEF Restart, Queued
<1>11. CASE Users
  <2>1. ASSUME NEW a, NEW h, NEW o, UserWrite(a, h, o) PROVE Queued(g)'
    BY <1>2, <1>3, <2>1 DEF UserWrite, UserAction, scheduler
  <2>2. ASSUME NEW a, NEW k, NEW c, ChildWrite(a, k, c) PROVE Queued(g)'
    BY <1>2, <2>2 DEF ChildWrite, UserAction, scheduler
  <2>3. ASSUME NEW n, ToggleConfig(n) PROVE Queued(g)'
    BY <1>2, <2>3 DEF ToggleConfig, UserAction, scheduler
  <2> QED
    BY <1>11, <2>1, <2>2, <2>3 DEF Users, UserCreate, UserEdit, UserDelete, Prune, Scale
<1> QED
  BY <1>1, <1>5, <1>6, <1>7, <1>8, <1>9, <1>10, <1>11 DEF Next

(* What is taken is worked on from the start, if the cache shows it. *)
LEMMA TakenIsWorkedOn ==
  ASSUME ControlInv, NEW g \in CRs, Reconcile(g), ad[g].phase = "live"
  PROVE  \/ Queued(g)'
         \/ Working(g)' /\ pc' # "writeReady" /\ (pc' \in Kinds => pc' = First(Kinds))
<1>1. adCache[g] = ad[g] \/ g \in behind
  BY DEF ControlInv, ClusterInv
<1>2. behind' = behind
  BY DEF Reconcile, ReconcileNothing, ReconcileDeletion, ReconcileAddFinalizer,
     ReconcileConfigMissing, ReconcileRegister, ReconcileWorkload, Start, Take, caches
<1>3. CASE g \in behind
  BY <1>2, <1>3 DEF Queued
<1>4. CASE adCache[g] = ad[g]
  <2>1. \E step \in {"removeFinalizer", "cleanup", "addFinalizer", "writeFailure",
                     "register", First(Kinds)} : \E o : Start(g, step, o)
    BY <1>4 DEF Reconcile, ReconcileNothing, ReconcileDeletion, ReconcileAddFinalizer,
       ReconcileConfigMissing, ReconcileRegister, ReconcileWorkload, Deleting
  <2> QED
    BY <2>1, StepNames, FirstChild DEF Start, Working
<1> QED
  BY <1>1, <1>3, <1>4

(* The step of the worker that deals with the child it is at. *)
EnsureStep == \E out \in Outcomes : EnsureChild(out) \/ EnsureStatefulSet(out)

(* The worker leaves an AppDeployment with the status written, or gone, or *)
(* to be looked at again.                                                  *)
LEMMA WorkingMoves ==
  ASSUME ControlInv, Next, NEW g \in CRs, Working(g), ad[g].phase # "absent"
  PROVE  \/ Queued(g)'
         \/ pc = "writeReady" /\ WorkerWrites(g) /\ ad'[g] = Reconciled(obj)
         \/ WorkerWrites(g) /\ ad'[g] = NoObject
         \/ /\ Working(g)'
            /\ \/ pc' = pc
               \/ pc' \in {"writeFailure", "removeFinalizer", First(Kinds)}
               \/ pc \in Kinds /\ pc' = AfterChild(pc) /\ EnsureStep
<1>1. /\ ad \in [CRs -> Objects] /\ pc # "idle" /\ key = g
      /\ "idle" \notin Kinds
  BY StepNames DEF ControlInv, ClusterInv, ClusterType, Working
<1>2. ASSUME Requeue \/ RequeueLater PROVE Queued(g)'
  BY <1>1, <1>2 DEF Requeue, RequeueLater, Queued
<1>3. ASSUME UNCHANGED <<pc, key>> PROVE Working(g)' /\ pc' = pc
  BY <1>1, <1>3 DEF Working
<1>4. ASSUME NEW s, NEW o, Continue(s, o), s # "idle" PROVE Working(g)' /\ pc' = s
  BY <1>1, <1>4 DEF Working, Continue
<1>5. AfterChild(pc) # "idle" \/ pc \notin Kinds
  BY NextChild, StepNames
<1>6. ASSUME NEW out \in Outcomes, EnsureChild(out) \/ EnsureStatefulSet(out)
      PROVE  \/ Queued(g)'
             \/ Working(g)' /\ pc \in Kinds /\ pc' = AfterChild(pc) /\ EnsureStep
  <2>1. /\ pc \in Kinds /\ EnsureStep
        /\ Requeue \/ Continue(AfterChild(pc), obj)
    BY <1>6, KindsAssumption DEF EnsureChild, EnsureStatefulSet, EnsureStep
  <2> QED
    BY <1>2, <1>4, <1>5, <2>1
<1>7. ASSUME NEW out \in Outcomes, WriteReady(out)
      PROVE  Queued(g)' \/ (pc = "writeReady" /\ WorkerWrites(g) /\ ad'[g] = Reconciled(obj))
  <2>1. pc = "writeReady" /\ Update(out, Reconciled(obj)) /\ (Accepted(out) \/ RequeueLater)
    BY <1>7 DEF WriteReady
  <2>2. Accepted(out) => fresh /\ ad'[g] = Reconciled(obj)
    BY <1>1, <2>1 DEF Accepted, Update, Takes, Store
  <2> QED
    BY <1>1, <1>2, <2>1, <2>2 DEF WorkerWrites
<1>8. ASSUME NEW out \in Outcomes, RemoveFinalizer(out)
      PROVE  Queued(g)' \/ (WorkerWrites(g) /\ ad'[g] = NoObject)
  <2>1. pc = "removeFinalizer" /\ Update(out, NoObject) /\ (Accepted(out) \/ Requeue)
    BY <1>8 DEF RemoveFinalizer
  <2>2. Accepted(out) => fresh /\ ad'[g] = NoObject
    BY <1>1, <2>1 DEF Accepted, Update, Takes, Store
  <2> QED
    BY <1>1, <1>2, <2>1, <2>2 DEF WorkerWrites
<1>9. ASSUME NEW out \in Outcomes, AddFinalizer(out) \/ WriteFailure(out)
      PROVE  Queued(g)'
  BY <1>2, <1>9 DEF AddFinalizer, WriteFailure
<1>10. CASE Registered
  <2>1. Continue(IF result = "Registered" THEN First(Kinds) ELSE "writeFailure",
                 Registration(obj, result))
    BY <1>10 DEF Registered
  <2>2. First(Kinds) # "idle"
    BY <1>1, FirstChild
  <2> QED
    BY <1>4, <2>1, <2>2
<1>11. CASE CleanedUp
  BY <1>4, <1>11 DEF CleanedUp
<1>12. CASE Restart
  BY <1>12 DEF Restart, Queued
<1>13. ASSUME NEW h \in CRs, Reconcile(h) PROVE FALSE
  BY <1>1, <1>13 DEF Reconcile, ReconcileNothing, ReconcileDeletion, ReconcileAddFinalizer,
     ReconcileConfigMissing, ReconcileRegister, ReconcileWorkload, Start, Take
<1>14. ASSUME Services \/ Users \/ (\E out \in Outcomes : OidcRequest(out))
             \/ (\E h \in CRs : CacheSync(h) \/ TimerFire(h) \/ Resync(h))
             \/ (\E k \in ChildKeys : ChildSync(k) \/ Collect(k))
       PROVE  UNCHANGED <<pc, key>>
  <2>1. CASE Users
    BY <2>1 DEF Users, UserCreate, UserEdit, UserDelete, UserWrite, Prune, Scale,
       ChildWrite, ToggleConfig, UserAction
  <2> QED
    BY <1>14, <2>1 DEF Services, OidcRequest, CacheSync, TimerFire, Resync, ChildSync,
       Collect, worker
<1> QED
  BY <1>3, <1>6, <1>7, <1>8, <1>9, <1>10, <1>11, <1>12, <1>13, <1>14 DEF Next, Step

-----------------------------------------------------------------------------
(* The status settles on the truth. *)

Truthful(o) ==
  /\ o.status.ready = "Reconciled" /\ o.status.observed = o.generation
  /\ o.spec.oidc => o.status.oidc = "Registered"

(* What is not true yet is not forgotten. *)
StatusInv ==
  \A g \in CRs : ad[g].phase = "live" /\ ~Truthful(ad[g]) => Queued(g) \/ Working(g)

LEMMA ReconciledIsTruthful ==
  ASSUME ControlInv, pc = "writeReady"
  PROVE  Truthful(Reconciled(obj))
<1>1. obj \in Objects /\ (obj.spec.oidc => obj.status.oidc = "Registered")
  BY DEF ControlInv, WorkerInv, WorkerType, WorkInv
<1>2. /\ Reconciled(obj).generation = obj.generation /\ Reconciled(obj).spec = obj.spec
      /\ Reconciled(obj).status.observed = obj.generation
      /\ Reconciled(obj).status.ready = "Reconciled"
      /\ Reconciled(obj).status.oidc = obj.status.oidc
  BY <1>1, StatusType
<1> QED
  BY <1>1, <1>2 DEF Truthful

LEMMA NextStatus == ControlInv /\ StatusInv /\ [Next]_vars => StatusInv'
<1> SUFFICES ASSUME ControlInv, StatusInv, [Next]_vars, NEW g \in CRs,
                    ad'[g].phase = "live", ~Truthful(ad'[g])
             PROVE  Queued(g)' \/ Working(g)'
  BY DEF StatusInv, Truthful
<1>1. CASE UNCHANGED vars
  BY <1>1 DEF vars, cluster, caches, scheduler, worker, StatusInv, Queued, Working
<1>2. CASE Next /\ ad'[g] # ad[g]
  BY <1>2, WhoWrites DEF Queued
<1>3. CASE Next /\ ad'[g] = ad[g]
  <2>1. ad[g].phase = "live" /\ (Queued(g) \/ Working(g))
    BY <1>3 DEF StatusInv
  <2>2. CASE Reconcile(g)
    BY <2>1, <2>2, TakenIsWorkedOn
  <2>3. CASE Queued(g) /\ ~Reconcile(g)
    BY <1>3, <2>1, <2>3, QueuedStays
  <2>4. CASE Working(g)
    BY <1>3, <2>1, <2>4, WorkingMoves, ReconciledIsTruthful, NoObjectType
  <2> QED
    BY <2>1, <2>2, <2>3, <2>4
<1> QED
  BY <1>1, <1>2, <1>3

(* When the controller is through with an application, the status says so  *)
(* and speaks of the newest generation: no failed call, lagging cache,     *)
(* conflict or restart makes it forget an application.                     *)
THEOREM StatusSettles == Spec => []SettledMeansReconciled
<1>1. Init => StatusInv
  BY NoObjectType DEF Init, StatusInv
<1>2. ControlInv /\ StatusInv => SettledMeansReconciled
  BY DEF StatusInv, SettledMeansReconciled, Quiet, Queued, Working, Truthful
<1> QED
  BY <1>1, <1>2, NextStatus, ControlHolds, PTL DEF Spec
=============================================================================
