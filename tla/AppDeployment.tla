--------------------------- MODULE AppDeployment ---------------------------
(***************************************************************************)
(* The AppDeployment controller (internal/controller) and the cluster it   *)
(* works on, composed with its Keycloak and Vault client (module Oidc).    *)
(*                                                                         *)
(* An AppDeployment asks for an application.  The controller registers it  *)
(* in Keycloak when it wants OIDC, creates the children of the application *)
(* one after the other, each only if it is missing, and reports Ready.     *)
(* When the AppDeployment is deleted a finalizer deletes the Keycloak      *)
(* client; the garbage collector deletes the children, which carry an      *)
(* owner reference.                                                        *)
(*                                                                         *)
(* One worker runs Reconcile.  It reads from informer caches that lag      *)
(* behind the API server and writes to the API server.  A cached Get and   *)
(* the API call it decides on are one step: the cache may lag by any       *)
(* amount, so reading it earlier shows nothing more.                       *)
(***************************************************************************)
EXTENDS Oidc, Workload

CONSTANTS
  CRs,          \* AppDeployment keys: records [namespace, name]
  Specs,        \* the specs users may write, see SpecType
  Kinds,        \* the children modelled, among AllKinds
  NoChild,      \* no object under that name
  UserActions,  \* what users do in this model
  MaxUserOps,   \* bound: writes by users
  MaxRestarts   \* bound: restarts of the operator

(* The kinds SetupWithManager watches: all but the ConfigMap. *)
Watched == AllKinds \ {"fluentBit"}

ASSUME CRsAssumption   == CRs # {} /\ Specs # {}
ASSUME SpecsAssumption == \A s \in Specs : SpecType(s) /\ s.appName \in Apps
ASSUME KindsAssumption == Kinds \subseteq AllKinds /\ "statefulSet" \in Kinds
ASSUME UserBoundsAssumption ==
  /\ MaxUserOps \in Nat /\ MaxRestarts \in Nat
  /\ UserActions \subseteq
       {"create", "recreate", "delete", "edit", "scale", "prune", "config"}

-----------------------------------------------------------------------------
(* A child: its controller reference and the spec it was built from.       *)
Children == [owner : CRs, uid : Nat, spec : Specs \cup
               {[s EXCEPT !.replicas = Replicas(t)] : s, t \in Specs}]

Child(g, o, k) ==
  [owner |-> g, uid |-> o.uid,
   spec  |-> IF k = "statefulSet"
             THEN [o.spec EXCEPT !.replicas = Replicas(o.spec)] ELSE o.spec]

ASSUME NoChildAssumption == NoChild \notin Children

ChildKeys == {g.namespace : g \in CRs} \X Apps \X Kinds

(* Names are made from the application's name. *)
ChildKey(g, s, k) == <<g.namespace, s.appName, k>>

-----------------------------------------------------------------------------
(* The objects of the API server. *)

(* AppDeploymentStatus: the conditions Ready and OIDCRegistered by their   *)
(* reason ("" when absent; "Reconciled" and "Registered" are the true      *)
(* ones) and observedGeneration.  WorkloadCreated, phase, cluster and      *)
(* endpoint are written with Ready, oidcClientId with OIDCRegistered.      *)
Statuses == [ready    : {"", "Reconciled", "PlatformConfigMissing"},
             oidc     : {"", "Registered", "RegistrationFailed",
                         "VaultWriteFailed"},
             observed : Nat]

Objects == [phase      : {"absent", "live", "deleting"},
            uid        : Nat,
            generation : Nat,
            finalizer  : BOOLEAN,
            spec       : Specs,
            status     : Statuses]

NewObject(s, uid) ==
  [phase |-> "live", uid |-> uid, generation |-> 1, finalizer |-> FALSE,
   spec |-> s, status |-> [ready |-> "", oidc |-> "", observed |-> 0]]

NoObject == [NewObject(CHOOSE s \in Specs : TRUE, 0) EXCEPT
               !.phase = "absent", !.generation = 0]

AnyCR == CHOOSE g \in CRs : TRUE

ConfigMissing(o) == [o EXCEPT !.status.ready = "PlatformConfigMissing"]

Registration(o, r) == [o EXCEPT !.status.oidc = r]

Reconciled(o) ==
  [o EXCEPT !.status.ready = "Reconciled", !.status.observed = o.generation]

-----------------------------------------------------------------------------
VARIABLES
  ad,          \* API server: [CRs -> Objects]
  child,       \* API server: [ChildKeys -> Children or NoChild]
  cfg,         \* namespaces with a complete helmsman-platform-config Secret
  adCache,     \* informer cache of the AppDeployments
  behind,      \* AppDeployments whose newest version is not in the cache
  childCache,  \* informer caches of the children
  childEvents, \* owners of the versions of a child on their way to its cache
  queue,       \* work queue: a set, for keys are deduplicated
  timers,      \* AppDeployments with a delayed requeue pending
  pc,          \* what the worker is doing
  key,         \* the AppDeployment being reconciled
  obj,         \* appDep, the in-memory copy Reconcile mutates
  fresh,       \* obj has the resourceVersion the API server has
  created,     \* how often an AppDeployment has been created; its uid
  userOps, restarts   \* counters of the bounded disturbances

cluster   == <<ad, child, cfg, created>>
caches    == <<adCache, behind, childCache, childEvents>>
scheduler == <<queue, timers>>
worker    == <<pc, key, obj, fresh>>
counters  == <<userOps, restarts>>
vars == <<oidcVars, cluster, caches, scheduler, worker, counters>>

Namespaces == {g.namespace : g \in CRs}

Steps == {"idle", "addFinalizer", "register", "cleanup", "writeFailure",
          "writeReady", "removeFinalizer"} \cup Kinds

TypeOK ==
  /\ OidcTypeOK
  /\ ad \in [CRs -> Objects] /\ adCache \in [CRs -> Objects]
  /\ child \in [ChildKeys -> Children \cup {NoChild}]
  /\ childCache \in [ChildKeys -> Children \cup {NoChild}]
  /\ childEvents \in [ChildKeys -> SUBSET CRs]
  /\ cfg \subseteq Namespaces
  /\ behind \subseteq CRs /\ queue \subseteq CRs /\ timers \subseteq CRs
  /\ pc \in Steps /\ key \in CRs /\ obj \in Objects /\ fresh \in BOOLEAN
  /\ created \in [CRs -> Nat]
  /\ userOps \in Nat /\ restarts \in Nat

Init ==
  /\ OidcInit
  /\ ad = [g \in CRs |-> NoObject] /\ adCache = ad /\ behind = {}
  /\ child = [k \in ChildKeys |-> NoChild] /\ childCache = child
  /\ childEvents = [k \in ChildKeys |-> {}]
  /\ cfg = Namespaces
  /\ queue = {} /\ timers = {}
  /\ pc = "idle" /\ key = AnyCR /\ obj = NoObject /\ fresh = FALSE
  /\ created = [g \in CRs |-> 0]
  /\ userOps = 0 /\ restarts = 0

-----------------------------------------------------------------------------
(* Writes to the API server. *)

(* An update that changes nothing makes no new version. *)
Store(g, o) ==
  /\ ad' = [ad EXCEPT ![g] = o]
  /\ behind' = IF o = ad[g] THEN behind ELSE behind \cup {g}

StoreChild(k, c) ==
  /\ child' = [child EXCEPT ![k] = c]
  /\ childEvents' = [childEvents EXCEPT ![k] =
                       @ \cup {d.owner : d \in {child[k], c} \ {NoChild}}]

(* r.Update and r.Status().Update: optimistic concurrency. *)
Update(out, o) ==
  IF fresh /\ Takes(out) THEN Store(key, o) ELSE UNCHANGED <<ad, behind>>

Accepted(out) == fresh /\ out = "ok"

Calls(c, out) ==
  /\ Ends(c, out)
  /\ UNCHANGED <<services, request, losses, cfg, created, adCache, childCache,
                 counters>>

(* The worker goes on with o in memory. *)
Continue(step, o) ==
  /\ pc' = step /\ obj' = o
  /\ UNCHANGED <<key, fresh, queue, timers>>

Return ==
  /\ pc' = "idle" /\ key' = AnyCR /\ obj' = NoObject /\ fresh' = FALSE

(* What Reconcile returns: Result{} and nil; an error, which counts for    *)
(* more than a RequeueAfter next to it, or Requeue: true; RequeueAfter.    *)
Done == Return /\ UNCHANGED scheduler

Requeue == Return /\ queue' = queue \cup {key} /\ UNCHANGED timers

RequeueLater == Return /\ timers' = timers \cup {key} /\ UNCHANGED queue

-----------------------------------------------------------------------------
(* Reconcile, from the Get to the first call: one action for each way      *)
(* through steps 1 to 5.                                                   *)

Take(g) ==
  /\ pc = "idle" /\ g \in queue
  /\ queue' = queue \ {g}
  /\ UNCHANGED <<timers, cluster, caches, counters>>

Start(g, step, o) ==
  /\ Take(g)
  /\ pc' = step /\ key' = g /\ obj' = o /\ fresh' = (g \notin behind)

Deleting(o) == o.phase = "deleting"

(* Past step 3. *)
Reconcilable(o) == o.phase = "live" /\ o.finalizer

(* The children left to create after k; then the status. *)
After(k) == {j \in Kinds : Rank[j] > Rank[k]}

First(S) == CHOOSE j \in S : \A i \in S : Rank[j] <= Rank[i]

AfterChild(k) == IF After(k) = {} THEN "writeReady" ELSE First(After(k))

(* Steps 1 and 2: not found, deleted without finalizer. *)
ReconcileNothing(g) ==
  LET o == adCache[g] IN
  /\ o.phase = "absent" \/ (Deleting(o) /\ ~o.finalizer)
  /\ Take(g)
  /\ UNCHANGED <<worker, oidcVars>>

(* Variant: handleDeletion returns early when nothing was registered. *)
ReconcileDeletionOfRegistered(g) ==
  LET o == adCache[g] IN
  /\ Deleting(o) /\ o.finalizer
  /\ IF o.spec.oidc /\ o.status.oidc # "Registered"
     THEN Take(g) /\ UNCHANGED <<worker, oidcVars>>
     ELSE Start(g, "removeFinalizer", o) /\ UNCHANGED oidcVars

(* Step 2, handleDeletion: without platform config there is no cleanup. *)
ReconcileDeletion(g) ==
  LET o == adCache[g] IN
  /\ Deleting(o) /\ o.finalizer
  /\ IF o.spec.oidc /\ g.namespace \in cfg
     THEN Start(g, "cleanup", o) /\ StartDeregister(o.spec.appName)
     ELSE Start(g, "removeFinalizer", o) /\ UNCHANGED oidcVars

(* Step 3. *)
ReconcileAddFinalizer(g) ==
  LET o == adCache[g] IN
  /\ o.phase = "live" /\ ~o.finalizer
  /\ Start(g, "addFinalizer", [o EXCEPT !.finalizer = TRUE])
  /\ UNCHANGED oidcVars

(* Step 4. *)
ReconcileConfigMissing(g) ==
  LET o == adCache[g] IN
  /\ Reconcilable(o) /\ g.namespace \notin cfg
  /\ Start(g, "writeFailure", ConfigMissing(o))
  /\ UNCHANGED oidcVars

(* Variant: step 5 also runs before the finalizer is there. *)
ReconcileRegisterEarly(g) ==
  LET o == adCache[g] IN
  /\ o.phase = "live" /\ g.namespace \in cfg /\ o.spec.oidc
  /\ Start(g, "register", o) /\ StartRegister(o.spec.appName)

(* Step 5. *)
ReconcileRegister(g) ==
  LET o == adCache[g] IN
  /\ Reconcilable(o) /\ g.namespace \in cfg /\ o.spec.oidc
  /\ Start(g, "register", o) /\ StartRegister(o.spec.appName)

(* Step 6 at once. *)
ReconcileWorkload(g) ==
  LET o == adCache[g] IN
  /\ Reconcilable(o) /\ g.namespace \in cfg /\ ~o.spec.oidc
  /\ Start(g, First(Kinds), o)
  /\ UNCHANGED oidcVars

Reconcile(g) ==
  \/ ReconcileNothing(g) \/ ReconcileDeletion(g) \/ ReconcileAddFinalizer(g)
  \/ ReconcileConfigMissing(g) \/ ReconcileRegister(g) \/ ReconcileWorkload(g)

-----------------------------------------------------------------------------
(* The rest of Reconcile. *)

(* Step 5, while and after the Keycloak and Vault client runs. *)
OidcRequest(out) ==
  /\ Http(out)
  /\ UNCHANGED <<cluster, caches, scheduler, worker, counters>>

(* Variant: the error of writeOIDCCredsToVault is not looked at. *)
RegisteredUnchecked ==
  /\ pc = "register" /\ call = "idle"
  /\ IF result = "RegistrationFailed"
     THEN Continue("writeFailure", Registration(obj, result))
     ELSE Continue(First(Kinds), Registration(obj, "Registered"))
  /\ result' = "none"
  /\ UNCHANGED <<services, call, op, app, found, creds, cookies, faults, losses,
                 cluster, caches, counters>>

Registered ==
  /\ pc = "register" /\ call = "idle"
  /\ Continue(IF result = "Registered" THEN First(Kinds) ELSE "writeFailure",
              Registration(obj, result))
  /\ result' = "none"
  /\ UNCHANGED <<services, call, op, app, found, creds, cookies, faults, losses,
                 cluster, caches, counters>>

(* handleDeletion goes on whatever deleteKeycloakClient says. *)
CleanedUp ==
  /\ pc = "cleanup" /\ call = "idle"
  /\ Continue("removeFinalizer", obj)
  /\ result' = "none"
  /\ UNCHANGED <<services, call, op, app, found, creds, cookies, faults, losses,
                 cluster, caches, counters>>

AddFinalizer(out) ==
  /\ pc = "addFinalizer"
  /\ Calls("addFinalizer", out) /\ Update(out, obj) /\ Requeue
  /\ UNCHANGED <<child, childEvents>>

(* Steps 4 and 5 on failure; the result of the update is ignored. *)
WriteFailure(out) ==
  /\ pc = "writeFailure"
  /\ Calls("writeFailure", out) /\ Update(out, obj) /\ RequeueLater
  /\ UNCHANGED <<child, childEvents>>

(* Steps 6 to 9, createOrSkip: what is there already is left as it is. *)
EnsureChild(out) ==
  LET k == ChildKey(key, obj.spec, pc)
      seen == childCache[k] # NoChild
      creates == ~seen /\ child[k] = NoChild /\ Takes(out)
  IN
  /\ pc \in Kinds \ {"statefulSet"}
  /\ Calls("ensure", out)
  /\ IF creates THEN StoreChild(k, Child(key, obj, pc))
                ELSE UNCHANGED <<child, childEvents>>
  /\ IF out = "ok" /\ (seen \/ creates)
     THEN Continue(AfterChild(pc), obj) ELSE Requeue
  /\ UNCHANGED <<ad, behind>>

(* Variant: the StatefulSet is created and then left alone as the rest. *)
EnsureStatefulSetOnce(out) ==
  LET k == ChildKey(key, obj.spec, "statefulSet")
      seen == childCache[k] # NoChild
      creates == ~seen /\ child[k] = NoChild /\ Takes(out)
  IN
  /\ pc = "statefulSet"
  /\ Calls("ensure", out)
  /\ IF creates THEN StoreChild(k, Child(key, obj, pc))
                ELSE UNCHANGED <<child, childEvents>>
  /\ IF out = "ok" /\ (seen \/ creates)
     THEN Continue(AfterChild(pc), obj) ELSE Requeue
  /\ UNCHANGED <<ad, behind>>

(* Step 10: of a StatefulSet that is there only the replicas are changed,  *)
(* with the resourceVersion of the cached one.                             *)
EnsureStatefulSet(out) ==
  LET k == ChildKey(key, obj.spec, "statefulSet")
      desired == Child(key, obj, "statefulSet")
      existing == childCache[k]
      agrees == existing # NoChild /\ existing.spec.replicas = desired.spec.replicas
      creates == existing = NoChild /\ child[k] = NoChild
      updates == existing # NoChild /\ ~agrees /\ childEvents[k] = {}
  IN
  /\ pc = "statefulSet"
  /\ Calls("ensure", out)
  /\ IF (creates \/ updates) /\ Takes(out)
     THEN StoreChild(k, IF creates THEN desired
                        ELSE [existing EXCEPT !.spec.replicas = desired.spec.replicas])
     ELSE UNCHANGED <<child, childEvents>>
  /\ IF out = "ok" /\ (creates \/ updates \/ agrees)
     THEN Continue(AfterChild("statefulSet"), obj) ELSE Requeue
  /\ UNCHANGED <<ad, behind>>

(* Variant: the status is patched, without a resourceVersion. *)
WriteReadyPatched(out) ==
  /\ pc = "writeReady"
  /\ Calls("writeReady", out)
  /\ IF Takes(out) /\ ad[key].phase # "absent"
     THEN Store(key, [ad[key] EXCEPT !.status = Reconciled(obj).status])
     ELSE UNCHANGED <<ad, behind>>
  /\ IF out = "ok" THEN Done ELSE RequeueLater
  /\ UNCHANGED <<child, childEvents>>

(* Variant: the failure of the status update is not retried. *)
WriteReadyUnchecked(out) ==
  /\ pc = "writeReady"
  /\ Calls("writeReady", out) /\ Update(out, Reconciled(obj)) /\ Done
  /\ UNCHANGED <<child, childEvents>>

(* Step 12. *)
WriteReady(out) ==
  /\ pc = "writeReady"
  /\ Calls("writeReady", out) /\ Update(out, Reconciled(obj))
  /\ IF Accepted(out) THEN Done ELSE RequeueLater
  /\ UNCHANGED <<child, childEvents>>

(* The last finalizer of a deleted object: the object is gone. *)
RemoveFinalizer(out) ==
  /\ pc = "removeFinalizer"
  /\ Calls("removeFinalizer", out) /\ Update(out, NoObject)
  /\ IF Accepted(out) THEN Done ELSE Requeue
  /\ UNCHANGED <<child, childEvents>>

Step(out) ==
  \/ OidcRequest(out) \/ AddFinalizer(out) \/ WriteFailure(out)
  \/ EnsureChild(out) \/ EnsureStatefulSet(out) \/ WriteReady(out)
  \/ RemoveFinalizer(out)

-----------------------------------------------------------------------------
(* The manager around Reconcile, the garbage collector, restarts. *)

CacheSync(g) ==
  /\ g \in behind
  /\ adCache' = [adCache EXCEPT ![g] = ad[g]]
  /\ behind' = behind \ {g}
  /\ queue' = queue \cup {g}
  /\ UNCHANGED <<oidcVars, cluster, childCache, childEvents, timers, worker,
                 counters>>

(* Variant: the controller does not watch what it owns. *)
ChildSyncQuiet(k) ==
  /\ childEvents[k] # {}
  /\ childCache' = [childCache EXCEPT ![k] = child[k]]
  /\ childEvents' = [childEvents EXCEPT ![k] = {}]
  /\ UNCHANGED <<oidcVars, cluster, adCache, behind, scheduler, worker, counters>>

(* Owns: the event of a child enqueues the AppDeployment that its          *)
(* controller reference names, by name and not by uid.                     *)
ChildSync(k) ==
  /\ childEvents[k] # {}
  /\ childCache' = [childCache EXCEPT ![k] = child[k]]
  /\ childEvents' = [childEvents EXCEPT ![k] = {}]
  /\ queue' = IF k[3] \in Watched THEN queue \cup childEvents[k] ELSE queue
  /\ UNCHANGED <<oidcVars, cluster, adCache, behind, timers, worker, counters>>

TimerFire(g) ==
  /\ g \in timers
  /\ timers' = timers \ {g} /\ queue' = queue \cup {g}
  /\ UNCHANGED <<oidcVars, cluster, caches, worker, counters>>

Resync(g) ==
  /\ adCache[g].phase # "absent" /\ g \notin queue
  /\ queue' = queue \cup {g}
  /\ UNCHANGED <<oidcVars, cluster, caches, timers, worker, counters>>

(* The owner of a child is gone, or another of its name has come. *)
Garbage(k) == child[k] # NoChild /\ ad[child[k].owner].uid # child[k].uid

Collect(k) ==
  /\ Garbage(k)
  /\ StoreChild(k, NoChild)
  /\ UNCHANGED <<oidcVars, ad, cfg, created, adCache, behind, childCache,
                 scheduler, worker, counters>>

Services ==
  /\ ServiceStep
  /\ UNCHANGED <<cluster, caches, scheduler, worker, counters>>

(* The process stops anywhere and starts with what the API server holds. *)
Restart ==
  /\ restarts < MaxRestarts
  /\ restarts' = restarts + 1
  /\ Abandon /\ UNCHANGED <<faults, losses>>
  /\ Return
  /\ adCache' = ad /\ behind' = {}
  /\ childCache' = child /\ childEvents' = [k \in ChildKeys |-> {}]
  /\ queue' = {g \in CRs : ad[g].phase # "absent"} /\ timers' = {}
  /\ UNCHANGED <<cluster, userOps>>

-----------------------------------------------------------------------------
(* Users. *)

UserAction(action) ==
  /\ action \in UserActions
  /\ userOps < MaxUserOps
  /\ userOps' = userOps + 1
  /\ UNCHANGED <<oidcVars, adCache, childCache, scheduler, pc, key, obj, restarts>>

UserWrite(action, g, o) ==
  /\ UserAction(action)
  /\ Store(g, o)
  /\ fresh' = (fresh /\ key # g)
  /\ UNCHANGED <<child, cfg, childEvents>>

Exists(g) == ad[g].phase # "absent"

UserCreate(g, s) ==
  /\ ~Exists(g)
  /\ UserWrite(IF created[g] = 0 THEN "create" ELSE "recreate",
               g, NewObject(s, created[g] + 1))
  /\ created' = [created EXCEPT ![g] = @ + 1]

UserDelete(g) ==
  /\ ad[g].phase = "live"
  /\ UserWrite("delete", g, IF ad[g].finalizer
                            THEN [ad[g] EXCEPT !.phase = "deleting"]
                            ELSE NoObject)
  /\ UNCHANGED created

UserEdit(g, s) ==
  /\ Exists(g) /\ s # ad[g].spec
  /\ UserWrite("edit", g, [ad[g] EXCEPT !.spec = s, !.generation = @ + 1])
  /\ UNCHANGED created

(* Somebody scales the StatefulSet or deletes a child by hand. *)
ChildWrite(action, k, c) ==
  /\ child[k] # NoChild
  /\ UserAction(action)
  /\ StoreChild(k, c)
  /\ UNCHANGED <<ad, cfg, created, behind, fresh>>

Scale(k, s) ==
  /\ k[3] = "statefulSet"
  /\ child[k] # NoChild => child[k].spec.replicas # Replicas(s)
  /\ ChildWrite("scale", k, [child[k] EXCEPT !.spec.replicas = Replicas(s)])

Prune(k) == ChildWrite("prune", k, NoChild)

(* The platform config Secret appears or disappears. *)
ToggleConfig(n) ==
  /\ UserAction("config")
  /\ cfg' = (cfg \ {n}) \cup ({n} \ cfg)
  /\ UNCHANGED <<ad, child, created, behind, childEvents, fresh>>

Users ==
  \/ \E g \in CRs, s \in Specs : UserCreate(g, s) \/ UserEdit(g, s)
  \/ \E g \in CRs : UserDelete(g)
  \/ \E k \in ChildKeys : Prune(k) \/ \E s \in Specs : Scale(k, s)
  \/ \E n \in Namespaces : ToggleConfig(n)

Next ==
  \/ \E g \in CRs : Reconcile(g)
  \/ \E out \in Outcomes : Step(out)
  \/ Registered \/ CleanedUp
  \/ \E g \in CRs : CacheSync(g) \/ TimerFire(g) \/ Resync(g)
  \/ \E k \in ChildKeys : ChildSync(k) \/ Collect(k)
  \/ Services \/ Restart \/ Users

Spec == Init /\ [][Next]_vars

(* The queue is first-in first-out: strong fairness for each key.  Calls   *)
(* return (HTTP after 15 seconds at the latest), watches deliver, timers   *)
(* fire, the informer resyncs, the garbage collector runs: weak fairness.  *)
(* Nothing is assumed of users, late requests, losses or restarts.         *)
Fairness ==
  /\ \A g \in CRs : SF_vars(Reconcile(g))
  /\ WF_vars(Registered \/ CleanedUp \/ \E out \in Outcomes : Step(out))
  /\ \A g \in CRs : /\ WF_vars(CacheSync(g))
                    /\ WF_vars(TimerFire(g))
                    /\ WF_vars(Resync(g))
  /\ \A k \in ChildKeys : WF_vars(ChildSync(k)) /\ WF_vars(Collect(k))

FairSpec == Spec /\ Fairness

-----------------------------------------------------------------------------
(* Properties. *)

OwnKeys(g) == {ChildKey(g, ad[g].spec, k) : k \in Kinds}

WatchedKeys(g) == {k \in OwnKeys(g) : k[3] \in Watched}

(* Nothing is on its way that would make the controller look at g again,   *)
(* except a resync.                                                        *)
Quiet(g) ==
  /\ g \notin queue \cup behind \cup timers
  /\ pc = "idle" \/ key # g
  /\ \A k \in OwnKeys(g) : childEvents[k] = {} /\ ~Garbage(k)

(* The status settles on the truth: when the controller is through with an *)
(* application, the status says so, and for the newest generation, however *)
(* calls failed, caches lagged and users wrote in between.  No failure may *)
(* be forgotten and no wake-up lost on the way.                            *)
SettledMeansReconciled ==
  \A g \in CRs : ad[g].phase = "live" /\ Quiet(g) =>
    /\ ad[g].status.ready = "Reconciled"
    /\ ad[g].status.observed = ad[g].generation
    /\ ad[g].spec.oidc => ad[g].status.oidc = "Registered"

(* "All workload resources are present": then every watched child exists   *)
(* and the StatefulSet has the replicas asked for, although somebody       *)
(* deleted or scaled one by hand, or the garbage collector took one away   *)
(* after createOrSkip had found it.                                        *)
SettledMeansPresent ==
  \A g \in CRs : ad[g].phase = "live" /\ Quiet(g) =>
    \A k \in WatchedKeys(g) :
      /\ child[k] # NoChild
      /\ k[3] = "statefulSet" =>
           child[k].spec.replicas = Replicas(ad[g].spec)

(* No late verdict: observedGeneration is only ever set to the generation  *)
(* the AppDeployment has at that moment.  A Reconcile whose copy a user has *)
(* overtaken reports nothing about it.                                     *)
NoStaleReport ==
  [][\A g \in CRs :
       /\ ad'[g].uid = ad[g].uid
       /\ ad'[g].status.observed # ad[g].status.observed
       => ad'[g].status.observed = ad'[g].generation]_vars

(* The finalizer at work: a Keycloak client belongs to an AppDeployment    *)
(* that exists and has the finalizer.                                      *)
NoOrphanClient ==
  \A a \in Apps : clients[a] # 0 =>
    \E g \in CRs : /\ Exists(g) /\ ad[g].finalizer
                   /\ ad[g].spec.oidc /\ ad[g].spec.appName = a

(* "Without it, the Keycloak client would be orphaned": a client belongs   *)
(* to an application that exists, whatever its spec has become.            *)
ClientHasOwner ==
  \A a \in Apps : clients[a] # 0 =>
    \E g \in CRs : Exists(g) /\ ad[g].spec.appName = a

(* OIDCRegistered is true only while Vault holds the secret of the client  *)
(* Keycloak has, deletion and re-creation under the same name included.    *)
CredentialsInPlace ==
  \A g \in CRs : ad[g].phase = "live" /\ ad[g].status.oidc = "Registered" =>
    LET a == ad[g].spec.appName IN
    clients[a] # 0 /\ vault[a].secret = clients[a]

(* Where nobody edits a spec, the children of a settled application are    *)
(* its own, not those of a namesake deleted before it, and were built for  *)
(* its spec.                                                               *)
SettledMeansCurrent ==
  \A g \in CRs : ad[g].phase = "live" /\ Quiet(g) =>
    \A k \in WatchedKeys(g) : child[k] = Child(g, ad[g], k[3])

Deserving(g) == ad[g].phase = "live" /\ g.namespace \in cfg

Complete(g) ==
  LET a == ad[g].spec.appName IN
  /\ ad[g].status.ready = "Reconciled"
  /\ ad[g].status.observed = ad[g].generation
  /\ \A k \in OwnKeys(g) : child[k] # NoChild
  /\ ad[g].spec.oidc => clients[a] # 0 /\ vault[a].secret = clients[a]

(* Whatever gets lost, an application that stays is complete again in the  *)
(* end: status, every child, and credentials that work.                    *)
Converges == \A g \in CRs : Deserving(g) ~> (Complete(g) \/ ~Deserving(g))

(* A deletion is never stuck behind Keycloak, Vault or the config.         *)
DeletionCompletes == \A g \in CRs : Deleting(ad[g]) ~> ~Deleting(ad[g])

PoliciesAround(n, a) ==
  {PolicyOf(k, child[<<n, a, k>>].spec) :
     k \in {i \in Kinds \cap PolicyKinds : child[<<n, a, i>>] # NoChild}}

(* Pods that have a proxy can be reached through it only, from the moment  *)
(* they exist: the policies are there before them, whatever fails.  Pods   *)
(* of an AppDeployment that is gone are left out, for the garbage          *)
(* collector may take their policies first, and so are those of a second   *)
(* one of its name, which may have counted on the policies of the first.   *)
PodsAreGated ==
  \A g \in CRs, k \in ChildKeys :
    LET pods == child[k] IN
    /\ k[3] = "statefulSet" /\ pods # NoChild
    /\ pods.owner = g /\ ~Garbage(k) /\ created[g] = 1
    /\ pods.spec.oidc
    => Gated(Pod(pods.spec), PoliciesAround(k[1], k[2]))

(* "The Service exposes the proxy port rather than the application port    *)
(* directly": in a settled application a request to the traffic Service    *)
(* gets to the application, and with OIDC no other way does.               *)
SettledMeansServed ==
  \A g \in CRs : ad[g].phase = "live" /\ Quiet(g) =>
    LET a       == ad[g].spec.appName
        service == child[ChildKey(g, ad[g].spec, "traffic")]
        pods    == child[ChildKey(g, ad[g].spec, "statefulSet")]
        around  == PoliciesAround(g.namespace, a)
    IN /\ AppServed(TrafficService(service.spec), Pod(pods.spec), around)
       /\ ad[g].spec.oidc => Gated(Pod(pods.spec), around)

(* Ready "is True when the AppDeployment is fully reconciled and healthy": *)
(* not while the last registration of its Keycloak client failed.          *)
ReadyMeansRegistered ==
  \A g \in CRs : ad[g].phase = "live" /\ ad[g].status.ready = "Reconciled" =>
    ad[g].status.oidc \in {"", "Registered"}

(* "All workload resources are present": the ConfigMap, too.               *)
SettledMeansAllPresent ==
  \A g \in CRs : ad[g].phase = "live" /\ Quiet(g) =>
    \A k \in OwnKeys(g) : child[k] # NoChild

=============================================================================
