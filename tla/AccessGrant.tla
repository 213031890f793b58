---------------------------- MODULE AccessGrant ----------------------------
(***************************************************************************)
(* The AccessGrant controller (internal/controller/access) and the cluster *)
(* it works on.                                                            *)
(*                                                                         *)
(* A grant asks for time-limited access to a namespace.  The controller    *)
(* validates it, waits for an approval when it is for production, creates  *)
(* a RoleBinding, and deletes the RoleBinding when the TTL has elapsed or  *)
(* the grant is deleted.                                                   *)
(*                                                                         *)
(* One worker runs Reconcile (MaxConcurrentReconciles is 1).  It reads     *)
(* grants and bindings from the informer cache, which lags behind the API  *)
(* server, and it writes to the API server, so one Reconcile is several    *)
(* steps: a step that reads the cached grant and decides, and one step     *)
(* for each further API call.  Users, the access broker, API failures,     *)
(* restarts and the passing of time interleave with those steps.           *)
(***************************************************************************)
EXTENDS Integers, FiniteSets

CONSTANTS
  Grants,         \* AccessGrant keys: records [namespace, name]
  Specs,          \* the specs users may write, see SpecType
  Approvers,      \* identities the broker may put in the approval annotation
  NoApprover,     \* no annotation / empty status.approvedBy
  NoTime,         \* nil *metav1.Time; no pending delayed requeue
  NoBinding,      \* no RoleBinding under that name
  MaxTTLProd,     \* maxTTLProd, in ticks
  MaxTTLNonProd,  \* maxTTLNonProd, in ticks
  ApprovalPoll,   \* the 30s requeue of a pending production grant, in ticks
  UserActions,    \* what users, the broker and other clients do in this model
  PromptBindings, \* TRUE: the RoleBinding cache lags by less than one tick
  MaxTime,        \* bound: the clock stops here
  MaxUserOps,     \* bound: writes by users, broker and other clients
  MaxFaults,      \* bound: API calls that fail or whose answer is lost
  MaxRestarts     \* bound: restarts of the operator

Environments == {"dev", "staging", "prod"}
Permissions  == {"ro", "rw", "admin"}
Roles        == {"reader", "operator", "admin"}

(* AccessGrantSpec; ttlParses says whether time.ParseDuration accepts TTL. *)
SpecType(s) ==
  /\ DOMAIN s = {"subject", "namespace", "permission", "ttl", "ttlParses",
                 "environment"}
  /\ s.permission \in Permissions
  /\ s.environment \in Environments
  /\ s.ttlParses \in BOOLEAN
  /\ s.ttl \in Int

ASSUME GrantsAssumption == Grants # {} /\ Specs # {}
ASSUME SpecsAssumption  == \A s \in Specs : SpecType(s)
ASSUME NilAssumption    == /\ NoTime \notin Int
                           /\ NoApprover \notin Approvers
                           /\ NoBinding \notin [subject : {s.subject : s \in Specs},
                                                role    : Roles]
ASSUME BoundsAssumption ==
  /\ MaxTTLProd \in Nat /\ MaxTTLNonProd \in Nat
  /\ MaxTTLProd <= MaxTTLNonProd
  /\ ApprovalPoll \in Nat
  /\ MaxTime \in Nat /\ MaxUserOps \in Nat
  /\ MaxFaults \in Nat /\ MaxRestarts \in Nat
  /\ PromptBindings \in BOOLEAN
  /\ UserActions \subseteq
       {"create", "recreate", "delete", "edit", "annotate", "withdraw",
        "revoke", "unbind"}

-----------------------------------------------------------------------------
(* The objects of the API server. *)

States == {"", "Pending", "PendingApproval", "Active", "Expired", "Revoked"}

Terminal == {"Expired", "Revoked"}

(* AccessGrantStatus; ref: roleBindingRef is set.  Conditions, message and *)
(* approvedAt are written with the rest and read by nothing in the code.   *)
Statuses == [state      : States,
             expiresAt  : Int \cup {NoTime},
             ref        : BOOLEAN,
             approvedBy : Approvers \cup {NoApprover}]

(* phase: no such object, an object, an object with a deletionTimestamp;   *)
(* approver: the value of the annotation access.helmsman.dev/approved-by.  *)
Objects == [phase     : {"absent", "live", "deleting"},
            finalizer : BOOLEAN,
            approver  : Approvers \cup {NoApprover},
            spec      : Specs,
            status    : Statuses]

NoStatus == [state |-> "", expiresAt |-> NoTime, ref |-> FALSE,
             approvedBy |-> NoApprover]

NewObject(s) == [phase |-> "live", finalizer |-> FALSE,
                 approver |-> NoApprover, spec |-> s, status |-> NoStatus]

NoObject == [phase |-> "absent", finalizer |-> FALSE,
             approver |-> NoApprover, spec |-> (CHOOSE s \in Specs : TRUE),
             status |-> NoStatus]

AnyGrant == CHOOSE g \in Grants : TRUE

(* RoleBindings live in the target namespace under a name made from the    *)
(* grant's name alone, "helmsman-ag-<name>".                               *)
BindingKeys == {g.name : g \in Grants} \X {s.namespace : s \in Specs}

BindingKey(g, s) == <<g.name, s.namespace>>

ClusterRole(p) ==
  IF p = "rw" THEN "operator" ELSE IF p = "admin" THEN "admin" ELSE "reader"

Bindings == [subject : {s.subject : s \in Specs}, role : Roles]

Binding(s) == [subject |-> s.subject, role |-> ClusterRole(s.permission)]

-----------------------------------------------------------------------------
(* The policy, and what Reconcile writes into the status. *)

MaxTTL(s) == IF s.environment = "prod" THEN MaxTTLProd ELSE MaxTTLNonProd

WithinPolicy(s) == s.ttlParses /\ s.ttl <= MaxTTL(s)

(* Variant: the gate closes only once. *)
NeedsApprovalOnce(o) ==
  o.spec.environment = "prod" /\ o.status.state \in {"", "Pending"}

NeedsApproval(o) == o.spec.environment = "prod" /\ o.status.state # "Active"

(* Variant: a state the API does not have. *)
RejectedAsFailed(o) == [o EXCEPT !.status.state = "Failed"]

Rejected(o) == [o EXCEPT !.status.state = "Pending"]

AwaitingApproval(o) == [o EXCEPT !.status.state = "PendingApproval"]

Approved(o) ==
  IF NeedsApproval(o) THEN [o EXCEPT !.status.approvedBy = o.approver] ELSE o

Activated(o, t) ==
  [o EXCEPT !.status = [state |-> "Active", expiresAt |-> t + o.spec.ttl,
                        ref |-> TRUE, approvedBy |-> o.status.approvedBy]]

Expired(o) == [o EXCEPT !.status.state = "Expired"]

-----------------------------------------------------------------------------
VARIABLES
  now,      \* the clock
  ag,       \* API server: [Grants -> Objects]
  rb,       \* API server: [BindingKeys -> Bindings or NoBinding]
  agCache,  \* informer cache of the grants
  behind,   \* grants whose newest version has not reached the cache
  rbCache,  \* informer cache of the bindings
  queue,    \* work queue: a set, for keys are deduplicated
  wakeAt,   \* the pending delayed requeue of each grant
  pc,       \* the API call the worker is about to make
  key,      \* the grant being reconciled
  obj,      \* ag, the in-memory copy Reconcile mutates
  fresh,    \* obj has the resourceVersion the API server has
  created,  \* grants that have existed
  userOps, faults, restarts   \* counters of the bounded disturbances

cluster   == <<ag, rb, created>>
caches    == <<agCache, behind, rbCache>>
scheduler == <<queue, wakeAt>>
worker    == <<pc, key, obj, fresh>>
counters  == <<userOps, faults, restarts>>
vars == <<now, cluster, caches, scheduler, worker, counters>>

Calls == {"idle", "addFinalizer", "writeFailed", "writePending",
          "lookupBinding", "createBinding", "writeActive", "findBinding",
          "deleteBinding", "writeExpired", "removeFinalizer"}

TypeOK ==
  /\ now \in Nat
  /\ ag \in [Grants -> Objects]
  /\ rb \in [BindingKeys -> Bindings \cup {NoBinding}]
  /\ agCache \in [Grants -> Objects]
  /\ behind \subseteq Grants
  /\ rbCache \in [BindingKeys -> Bindings \cup {NoBinding}]
  /\ queue \subseteq Grants
  /\ wakeAt \in [Grants -> Int \cup {NoTime}]
  /\ pc \in Calls
  /\ key \in Grants
  /\ obj \in Objects
  /\ fresh \in BOOLEAN
  /\ created \subseteq Grants
  /\ userOps \in Nat /\ faults \in Nat /\ restarts \in Nat

Init ==
  /\ now = 0
  /\ ag = [g \in Grants |-> NoObject]
  /\ rb = [k \in BindingKeys |-> NoBinding]
  /\ agCache = ag /\ behind = {} /\ rbCache = rb
  /\ queue = {} /\ wakeAt = [g \in Grants |-> NoTime]
  /\ pc = "idle" /\ key = AnyGrant /\ obj = NoObject /\ fresh = FALSE
  /\ created = {}
  /\ userOps = 0 /\ faults = 0 /\ restarts = 0

-----------------------------------------------------------------------------
(* How an API call ends: it succeeds, it fails without effect, or it takes *)
(* effect and its answer is lost.  A conflict is not an outcome of its     *)
(* own: it is what an update with an old resourceVersion always gets.      *)
Outcomes == {"ok", "failed", "lost"}

Ends(out) ==
  /\ out # "ok" => faults < MaxFaults
  /\ faults' = IF out = "ok" THEN faults ELSE faults + 1
  /\ UNCHANGED <<now, created, userOps, restarts>>

(* Another version of g reaches the API server, and the cache later. *)
Store(g, o) ==
  /\ ag' = [ag EXCEPT ![g] = o]
  /\ behind' = behind \cup {g}

(* r.Update and r.Status().Update: optimistic concurrency. *)
Update(out, o) ==
  IF fresh /\ out # "failed" THEN Store(key, o) ELSE UNCHANGED <<ag, behind>>

Accepted(out) == fresh /\ out = "ok"

(* The worker goes from one call to the next. *)
Continue(call, o) ==
  /\ pc' = call /\ obj' = o
  /\ UNCHANGED <<key, fresh, queue, wakeAt>>

Return ==
  /\ pc' = "idle" /\ key' = AnyGrant /\ obj' = NoObject /\ fresh' = FALSE

(* What Reconcile returns: Result{} and nil; an error or Requeue: true     *)
(* (the rate limiter's delay is not modelled); RequeueAfter.               *)
Done == Return /\ UNCHANGED <<queue, wakeAt>>

Requeue == Return /\ queue' = queue \cup {key} /\ UNCHANGED wakeAt

Earliest(w, t) == IF w = NoTime THEN t ELSE IF w < t THEN w ELSE t

RequeueAt(t) ==
  /\ Return
  /\ wakeAt' = [wakeAt EXCEPT ![key] = Earliest(@, t)]
  /\ UNCHANGED queue

-----------------------------------------------------------------------------
(* Reconcile, from the Get to the first API call: one action for each way  *)
(* through the code.  Take picks a key and reads the cached grant.         *)

Take(g) ==
  /\ pc = "idle" /\ g \in queue
  /\ queue' = queue \ {g}
  /\ UNCHANGED <<now, cluster, caches, counters>>

(* Variant: the newest resourceVersion put on a cached copy. *)
StartRefreshed(g, call, o) ==
  /\ Take(g)
  /\ pc' = call /\ key' = g /\ obj' = o /\ fresh' = TRUE
  /\ UNCHANGED wakeAt

Start(g, call, o) ==
  /\ Take(g)
  /\ pc' = call /\ key' = g /\ obj' = o /\ fresh' = (g \notin behind)
  /\ UNCHANGED wakeAt

Deleting(o) == o.phase = "deleting"

(* Variant: a grant without finalizer is processed too. *)
ReconcilableAnyway(o) == o.phase = "live"

(* Past steps 1 to 3: there is something to decide. *)
Reconcilable(o) == o.phase = "live" /\ o.finalizer

(* Variant: step 5 looks at no active grant. *)
GrantedNever(o) == FALSE

Granted(o) == o.status.state = "Active" /\ o.status.expiresAt # NoTime

(* Steps 1, 2 and 3.5: not found, deleted without finalizer, terminal. *)
ReconcileNothing(g) ==
  LET o == agCache[g] IN
  /\ \/ o.phase = "absent"
     \/ Deleting(o) /\ ~o.finalizer
     \/ Reconcilable(o) /\ o.status.state \in Terminal
  /\ Take(g)
  /\ UNCHANGED <<wakeAt, worker>>

(* Variant: the terminal states are skipped before deletion is handled. *)
ReconcileDeletionLate(g) ==
  LET o == agCache[g] IN
  /\ Deleting(o) /\ o.finalizer /\ o.status.state \notin Terminal
  /\ Start(g, IF o.status.ref THEN "findBinding" ELSE "removeFinalizer", o)

(* Step 2, handleDeletion; without a roleBindingRef deleteRoleBinding does *)
(* nothing.                                                                *)
ReconcileDeletion(g) ==
  LET o == agCache[g] IN
  /\ Deleting(o) /\ o.finalizer
  /\ Start(g, IF o.status.ref THEN "findBinding" ELSE "removeFinalizer", o)

(* Step 3. *)
ReconcileAddFinalizer(g) ==
  LET o == agCache[g] IN
  /\ o.phase = "live" /\ ~o.finalizer
  /\ Start(g, "addFinalizer", [o EXCEPT !.finalizer = TRUE])

(* Step 4, setFailedState. *)
ReconcileReject(g) ==
  LET o == agCache[g] IN
  /\ Reconcilable(o) /\ o.status.state \notin Terminal
  /\ ~WithinPolicy(o.spec)
  /\ Start(g, "writeFailed", Rejected(o))

(* Variant: step 3.5 left out. *)
ValidOrTerminal(o) == Reconcilable(o) /\ WithinPolicy(o.spec)

(* Past step 4. *)
Valid(o) ==
  /\ Reconcilable(o) /\ o.status.state \notin Terminal
  /\ WithinPolicy(o.spec)

(* Variant: no requeue for a grant that is still active. *)
ReconcileStillActiveOnce(g) ==
  LET o == agCache[g] IN
  /\ Valid(o) /\ Granted(o) /\ now <= o.status.expiresAt
  /\ Take(g)
  /\ UNCHANGED <<wakeAt, worker>>

(* Step 5.  A tick stands for an interval of real time: in the tick of     *)
(* expiresAt itself the grant may have expired or not, and a requeue after *)
(* a remaining time that is no longer positive is no requeue at all.       *)
ReconcileStillActive(g) ==
  LET o == agCache[g] IN
  /\ Valid(o) /\ Granted(o) /\ now <= o.status.expiresAt
  /\ Take(g)
  /\ \/ wakeAt' = [wakeAt EXCEPT ![g] = Earliest(@, o.status.expiresAt)]
     \/ now = o.status.expiresAt /\ UNCHANGED wakeAt
  /\ UNCHANGED worker

(* Variant: an active grant expires as soon as it is looked at again. *)
ReconcileExpireEarly(g) ==
  LET o == agCache[g] IN
  /\ Valid(o) /\ Granted(o)
  /\ IF o.status.ref THEN Start(g, "findBinding", o)
                     ELSE Start(g, "writeExpired", Expired(o))

ReconcileExpire(g) ==
  LET o == agCache[g] IN
  /\ Valid(o) /\ Granted(o) /\ now >= o.status.expiresAt
  /\ IF o.status.ref THEN Start(g, "findBinding", o)
                     ELSE Start(g, "writeExpired", Expired(o))

(* Step 6, no approval yet. *)
ReconcileAwaitApproval(g) ==
  LET o == agCache[g] IN
  /\ Valid(o) /\ ~Granted(o)
  /\ NeedsApproval(o) /\ o.approver = NoApprover
  /\ IF o.status.state # "PendingApproval"
     THEN Start(g, "writePending", AwaitingApproval(o))
     ELSE /\ Take(g)
          /\ wakeAt' = [wakeAt EXCEPT ![g] = Earliest(@, now + ApprovalPoll)]
          /\ UNCHANGED worker

(* Variant: an approval that comes late is not looked at. *)
ReconcileActivateNew(g) ==
  LET o == agCache[g] IN
  /\ Valid(o) /\ ~Granted(o) /\ o.status.state # "PendingApproval"
  /\ NeedsApproval(o) => o.approver # NoApprover
  /\ Start(g, "lookupBinding", Approved(o))

(* Step 6 passed: on to step 7. *)
ReconcileActivate(g) ==
  LET o == agCache[g] IN
  /\ Valid(o) /\ ~Granted(o)
  /\ NeedsApproval(o) => o.approver # NoApprover
  /\ Start(g, "lookupBinding", Approved(o))

Reconcile(g) ==
  \/ ReconcileNothing(g) \/ ReconcileDeletion(g) \/ ReconcileAddFinalizer(g)
  \/ ReconcileReject(g) \/ ReconcileStillActive(g) \/ ReconcileExpire(g)
  \/ ReconcileAwaitApproval(g) \/ ReconcileActivate(g)

-----------------------------------------------------------------------------
(* The API calls of Reconcile, one action each. *)

(* Step 3.  After an accepted update the worker asks for a requeue, after  *)
(* an error it is requeued.                                                *)
AddFinalizer(out) ==
  /\ pc = "addFinalizer"
  /\ Ends(out) /\ Update(out, obj) /\ Requeue
  /\ UNCHANGED <<rb, agCache, rbCache>>

(* setFailedState ignores the result of the update and returns an error.   *)
WriteFailed(out) ==
  /\ pc = "writeFailed"
  /\ Ends(out) /\ Update(out, obj) /\ Requeue
  /\ UNCHANGED <<rb, agCache, rbCache>>

(* Step 6 ignores the result of the update too. *)
WritePending(out) ==
  /\ pc = "writePending"
  /\ Ends(out) /\ Update(out, obj) /\ RequeueAt(now + ApprovalPoll)
  /\ UNCHANGED <<rb, agCache, rbCache>>

(* Step 7.  The Get is answered by the cache, the Create by the API server.*)
(* A binding that is already there is taken for this grant's.              *)
LookupBinding(out) ==
  /\ pc = "lookupBinding" /\ out # "lost"
  /\ Ends(out)
  /\ IF out = "failed" THEN Requeue
     ELSE IF rbCache[BindingKey(key, obj.spec)] = NoBinding
          THEN Continue("createBinding", obj)
          ELSE Continue("writeActive", Activated(obj, now))
  /\ UNCHANGED <<ag, rb, caches>>

(* Variant: the error of the Create is ignored. *)
CreateBindingIgnored(out) ==
  LET k == BindingKey(key, obj.spec) IN
  /\ pc = "createBinding"
  /\ Ends(out)
  /\ rb' = IF rb[k] # NoBinding \/ out = "failed"
           THEN rb ELSE [rb EXCEPT ![k] = Binding(obj.spec)]
  /\ Continue("writeActive", Activated(obj, now))
  /\ UNCHANGED <<ag, caches>>

CreateBinding(out) ==
  LET k == BindingKey(key, obj.spec)
      exists == rb[k] # NoBinding
  IN
  /\ pc = "createBinding"
  /\ Ends(out)
  /\ rb' = IF exists \/ out = "failed"
           THEN rb ELSE [rb EXCEPT ![k] = Binding(obj.spec)]
  /\ IF exists \/ out # "ok"
     THEN Requeue ELSE Continue("writeActive", Activated(obj, now))
  /\ UNCHANGED <<ag, caches>>

(* Variant: the status is patched, without a resourceVersion. *)
WriteActivePatched(out) ==
  /\ pc = "writeActive"
  /\ Ends(out)
  /\ IF out # "failed" THEN Store(key, obj) ELSE UNCHANGED <<ag, behind>>
  /\ IF out = "ok" THEN Done ELSE Requeue
  /\ UNCHANGED <<rb, agCache, rbCache>>

(* Step 8.  A TTL below one tick may be positive or not. *)
WriteActive(out) ==
  /\ pc = "writeActive"
  /\ Ends(out) /\ Update(out, obj)
  /\ IF Accepted(out)
     THEN \/ obj.spec.ttl >= 0 /\ RequeueAt(now + obj.spec.ttl)
          \/ obj.spec.ttl <= 0 /\ Done
     ELSE Requeue
  /\ UNCHANGED <<rb, agCache, rbCache>>

(* deleteRoleBinding, called by handleDeletion, which ignores its error,   *)
(* and by expireGrant, which returns it.                                   *)
AfterCleanup ==
  IF Deleting(obj) THEN Continue("removeFinalizer", obj)
                   ELSE Continue("writeExpired", Expired(obj))

(* Variant: expireGrant ignores the error as handleDeletion does. *)
CleanupFailedIgnored == AfterCleanup

CleanupFailed ==
  IF Deleting(obj) THEN Continue("removeFinalizer", obj) ELSE Requeue

FindBinding(out) ==
  /\ pc = "findBinding" /\ out # "lost"
  /\ Ends(out)
  /\ IF out = "failed" THEN CleanupFailed
     ELSE IF rbCache[BindingKey(key, obj.spec)] = NoBinding
          THEN AfterCleanup ELSE Continue("deleteBinding", obj)
  /\ UNCHANGED <<ag, rb, caches>>

DeleteBinding(out) ==
  LET k == BindingKey(key, obj.spec) IN
  /\ pc = "deleteBinding"
  /\ Ends(out)
  /\ rb' = IF out = "failed" THEN rb ELSE [rb EXCEPT ![k] = NoBinding]
  /\ IF rb[k] # NoBinding /\ out = "ok" THEN AfterCleanup ELSE CleanupFailed
  /\ UNCHANGED <<ag, caches>>

(* expireGrant ignores the result of the update and asks for no requeue. *)
WriteExpired(out) ==
  /\ pc = "writeExpired"
  /\ Ends(out) /\ Update(out, obj) /\ Done
  /\ UNCHANGED <<rb, agCache, rbCache>>

(* The last finalizer of a deleted object: the object is gone. *)
RemoveFinalizer(out) ==
  /\ pc = "removeFinalizer"
  /\ Ends(out) /\ Update(out, NoObject)
  /\ IF Accepted(out) THEN Done ELSE Requeue
  /\ UNCHANGED <<rb, agCache, rbCache>>

Call(out) ==
  \/ AddFinalizer(out) \/ WriteFailed(out) \/ WritePending(out)
  \/ LookupBinding(out) \/ CreateBinding(out) \/ WriteActive(out)
  \/ FindBinding(out) \/ DeleteBinding(out) \/ WriteExpired(out)
  \/ RemoveFinalizer(out)

-----------------------------------------------------------------------------
(* The manager around Reconcile: watches, the delaying queue, the periodic *)
(* resync of the informer, restarts; and the clock.                        *)

(* The watch of the grants; its event enqueues the grant.  A cache that is *)
(* several versions behind catches up at once.                             *)
CacheSync(g) ==
  /\ g \in behind
  /\ agCache' = [agCache EXCEPT ![g] = ag[g]]
  /\ behind' = behind \ {g}
  /\ queue' = queue \cup {g}
  /\ UNCHANGED <<now, cluster, rbCache, wakeAt, worker, counters>>

(* The watch of the bindings, started by the first Get, enqueues nothing.  *)
BindingSync(k) ==
  /\ rbCache[k] # rb[k]
  /\ rbCache' = [rbCache EXCEPT ![k] = rb[k]]
  /\ UNCHANGED <<now, cluster, agCache, behind, scheduler, worker, counters>>

(* Sub-tick delays count as positive: a timer set for t fires after t. *)
TimerFire(g) ==
  /\ wakeAt[g] # NoTime /\ now > wakeAt[g]
  /\ queue' = queue \cup {g}
  /\ wakeAt' = [wakeAt EXCEPT ![g] = NoTime]
  /\ UNCHANGED <<now, cluster, caches, worker, counters>>

Resync(g) ==
  /\ agCache[g].phase # "absent" /\ g \notin queue
  /\ queue' = queue \cup {g}
  /\ UNCHANGED <<now, cluster, caches, wakeAt, worker, counters>>

Tick ==
  /\ now < MaxTime
  /\ PromptBindings => rbCache = rb
  /\ now' = now + 1
  /\ UNCHANGED <<cluster, caches, scheduler, worker, counters>>

(* The process stops anywhere and starts with what the API server holds. *)
Restart ==
  /\ restarts < MaxRestarts
  /\ restarts' = restarts + 1
  /\ Return
  /\ agCache' = ag /\ behind' = {} /\ rbCache' = rb
  /\ queue' = {g \in Grants : ag[g].phase # "absent"}
  /\ wakeAt' = [g \in Grants |-> NoTime]
  /\ UNCHANGED <<now, cluster, userOps, faults>>

-----------------------------------------------------------------------------
(* Users, the access broker and other clients of the API server. *)

ClientWrite(action, g, o) ==
  /\ action \in UserActions
  /\ userOps < MaxUserOps
  /\ userOps' = userOps + 1
  /\ Store(g, o)
  /\ fresh' = (fresh /\ key # g)
  /\ UNCHANGED <<now, rb, agCache, rbCache, scheduler, pc, key, obj, faults,
                 restarts>>

Exists(g) == ag[g].phase # "absent"

UserCreate(g, s) ==
  /\ ~Exists(g)
  /\ ClientWrite(IF g \in created THEN "recreate" ELSE "create", g, NewObject(s))
  /\ created' = created \cup {g}

UserDelete(g) ==
  /\ ag[g].phase = "live"
  /\ ClientWrite("delete", g, IF ag[g].finalizer
                              THEN [ag[g] EXCEPT !.phase = "deleting"]
                              ELSE NoObject)
  /\ UNCHANGED created

UserEdit(g, s) ==
  /\ Exists(g) /\ s # ag[g].spec
  /\ ClientWrite("edit", g, [ag[g] EXCEPT !.spec = s])
  /\ UNCHANGED created

(* The broker approves, withdraws an approval, revokes. *)
BrokerAnnotate(g, a) ==
  /\ Exists(g) /\ a # ag[g].approver
  /\ ClientWrite(IF a = NoApprover THEN "withdraw" ELSE "annotate", g,
                 [ag[g] EXCEPT !.approver = a])
  /\ UNCHANGED created

BrokerRevoke(g) ==
  /\ Exists(g) /\ ag[g].status.state \notin Terminal
  /\ ClientWrite("revoke", g, [ag[g] EXCEPT !.status.state = "Revoked"])
  /\ UNCHANGED created

(* Someone deletes a RoleBinding by hand. *)
Unbind(k) ==
  /\ "unbind" \in UserActions /\ userOps < MaxUserOps
  /\ rb[k] # NoBinding
  /\ rb' = [rb EXCEPT ![k] = NoBinding]
  /\ userOps' = userOps + 1
  /\ UNCHANGED <<now, ag, created, caches, scheduler, worker, faults, restarts>>

Clients ==
  \/ \E g \in Grants, s \in Specs : UserCreate(g, s) \/ UserEdit(g, s)
  \/ \E g \in Grants, a \in Approvers \cup {NoApprover} : BrokerAnnotate(g, a)
  \/ \E g \in Grants : UserDelete(g) \/ BrokerRevoke(g)
  \/ \E k \in BindingKeys : Unbind(k)

Next ==
  \/ \E g \in Grants : Reconcile(g)
  \/ \E out \in Outcomes : Call(out)
  \/ \E g \in Grants : CacheSync(g) \/ TimerFire(g) \/ Resync(g)
  \/ \E k \in BindingKeys : BindingSync(k)
  \/ Tick \/ Restart
  \/ Clients

Spec == Init /\ [][Next]_vars

(* The queue is first-in first-out, so a grant that keeps coming back to   *)
(* it is reconciled: strong fairness.  Calls return, watches deliver,      *)
(* timers fire, the informer resyncs, time passes: weak fairness.  Nothing *)
(* is assumed of users, of faults or of restarts.                          *)
Fairness ==
  /\ \A g \in Grants : SF_vars(Reconcile(g))
  /\ WF_vars(\E out \in Outcomes : Call(out))
  /\ \A g \in Grants : /\ WF_vars(CacheSync(g))
                       /\ WF_vars(TimerFire(g))
                       /\ WF_vars(Resync(g))
  /\ \A k \in BindingKeys : WF_vars(BindingSync(k))
  /\ WF_vars(Tick)

FairSpec == Spec /\ Fairness

-----------------------------------------------------------------------------
(* Properties that hold whatever users, faults and restarts do. *)

(* Calls made for a grant that is being activated. *)
Activating == {"lookupBinding", "createBinding", "writeActive"}

(* What the worker holds agrees with the API server wherever the code      *)
(* relies on it: if the conflict check would let the pending update pass,  *)
(* the update is computed from the stored grant itself, and the grant is   *)
(* still in the state that led Reconcile to the update.                    *)
FreshCopyIsStored ==
  fresh => LET o == ag[key] IN
    /\ key \notin behind
    /\ pc = "addFinalizer"  => /\ o.phase = "live" /\ ~o.finalizer
                               /\ obj = [o EXCEPT !.finalizer = TRUE]
    /\ pc = "writeFailed"   => o.status.state \notin Terminal /\ obj = Rejected(o)
    /\ pc = "writePending"  => /\ o.status.state \notin Terminal \cup {"Active"}
                               /\ obj = AwaitingApproval(o)
    /\ pc \in Activating    => o.status.state \notin Terminal \cup {"Active"}
    /\ pc \in {"lookupBinding", "createBinding"} => obj = Approved(o)
    /\ pc = "writeActive"   => \E t \in 0..now : obj = Activated(Approved(o), t)
    /\ pc \in {"findBinding", "deleteBinding"} => obj = o
    /\ pc = "writeExpired"  => Granted(o) /\ obj = Expired(o)
    /\ pc = "removeFinalizer" => Deleting(o) /\ obj = o

(* The cache is the API server's past: the same version unless an event is *)
(* on its way; a grant seen with the finalizer still has it, for only the  *)
(* worker takes it off; a grant that expired was seen active first.        *)
CacheIsPast ==
  \A g \in Grants : LET c == agCache[g] IN
    /\ g \notin behind => c = ag[g]
    /\ Reconcilable(c) =>
         /\ Exists(g) /\ ag[g].finalizer
         /\ ag[g].status.state = "Expired" => Granted(c) \/ c.status.state = "Expired"

(* An active grant has an expiry, stored or cached. *)
ActiveHasExpiry ==
  \A g \in Grants : \A o \in {ag[g], agCache[g]} :
    o.status.state = "Active" => o.status.expiresAt # NoTime

(* A grant that is being activated is within policy and approved as far as *)
(* the worker knows; it still exists with its finalizer and is not expired.*)
ActivationIsSound ==
  /\ pc \in Activating =>
       /\ WithinPolicy(obj.spec)
       /\ obj.spec.environment = "prod" =>
            obj.approver # NoApprover /\ obj.status.approvedBy = obj.approver
       /\ Exists(key) /\ ag[key].finalizer
       /\ ag[key].status.state # "Expired"
  /\ pc \in {"findBinding", "deleteBinding"} => Deleting(obj) \/ Granted(obj)

(* The inductive invariant behind the theorems of AccessGrantProofs. *)
IInv == /\ FreshCopyIsStored
        /\ CacheIsPast
        /\ ActiveHasExpiry
        /\ ActivationIsSound

(* Once a grant is active, nothing the controller does moves its expiry:   *)
(* stale caches, replayed reconciles and lost answers never renew access.  *)
ExpiryNeverExtended ==
  [][\A g \in Grants :
       ag[g].status.state = "Active" /\ ag'[g].status.state = "Active"
         => ag'[g].status.expiresAt = ag[g].status.expiresAt]_vars

(* An expired or revoked grant stays so until the object is removed.       *)
TerminalStable ==
  [][\A g \in Grants :
       Exists(g) /\ ag[g].status.state \in Terminal /\ ag'[g].phase # "absent"
         => ag'[g].status.state = ag[g].status.state]_vars

(* A grant turns Active only if its stored spec is within policy at that   *)
(* moment, a production grant only with an approval that has not been      *)
(* withdrawn and that the status records, and the access ends in time.     *)
ActivationRespectsPolicy ==
  [][\A g \in Grants : LET o == ag[g] IN
       o.status.state # "Active" /\ ag'[g].status.state = "Active" =>
         /\ WithinPolicy(o.spec)
         /\ o.spec.environment = "prod" =>
              /\ o.approver # NoApprover
              /\ ag'[g].status.approvedBy = o.approver
         /\ ag'[g].status.expiresAt <= now + MaxTTL(o.spec)]_vars

(* A RoleBinding appears only while a grant of its name exists and carries *)
(* the finalizer, so a cleanup of it is still to come.                     *)
BindingCreatedUnderFinalizer ==
  [][\A k \in BindingKeys :
       rb[k] = NoBinding /\ rb'[k] # NoBinding =>
         \E g \in Grants : g.name = k[1] /\ Exists(g) /\ ag[g].finalizer]_vars

(* The step that creates a RoleBinding is never one for an expired grant:  *)
(* the comment at step 3.5 fears that the event of the status update in    *)
(* expireGrant recreates the binding.                                      *)
NoResurrection ==
  [][rb' # rb /\ pc = "createBinding" => ag[key].status.state # "Expired"]_vars

(* An active grant whose time has not come is never forgotten: a timer is  *)
(* pending, or something else is about to reconcile it.                    *)
ActiveGrantIsWatched ==
  \A g \in Grants :
    ag[g].phase = "live" /\ ag[g].status.state = "Active"
      /\ now < ag[g].status.expiresAt
    => wakeAt[g] # NoTime \/ g \in queue \/ g \in behind \/ (pc # "idle" /\ key = g)

-----------------------------------------------------------------------------
(* The abstract specification this module implements. *)

Absent == [phase |-> "absent"]

(* What GrantLifecycle sees of a stored object. *)
View(o) ==
  IF o.phase = "absent" THEN Absent
  ELSE [spec |-> o.spec, approver |-> o.approver, state |-> o.status.state,
        expiresAt |-> o.status.expiresAt, approvedBy |-> o.status.approvedBy]

Lifecycle == INSTANCE GrantLifecycle WITH
  ValidSpecs <- {s \in Specs : WithinPolicy(s)},
  grant      <- [g \in Grants |-> View(ag[g])]

(* Seen from the API, every reconcile is one decision on the stored grant, *)
(* taken when it is due: a reconcile that is spread over several calls,    *)
(* starts from a stale cache, loses an answer or is cut off by a restart   *)
(* never shows anything else.                                              *)
ImplementsLifecycle == Lifecycle!Spec

-----------------------------------------------------------------------------
(* Properties that need a calmer environment; the README says which. *)

BindingOf(g) == rb[BindingKey(g, ag[g].spec)]

(* "RoleBinding created and access is live": an active grant whose TTL     *)
(* runs has its own RoleBinding, with its subject and its role.            *)
BoundWhileActive ==
  \A g \in Grants :
    ag[g].phase = "live" /\ ag[g].status.state = "Active"
      /\ now < ag[g].status.expiresAt
    => BindingOf(g) = Binding(ag[g].spec)

(* "TTL elapsed - RoleBinding deleted": an expired grant has no binding.   *)
ExpiredHasNoBinding ==
  \A g \in Grants :
    Exists(g) /\ ag[g].status.state = "Expired" => BindingOf(g) = NoBinding

(* "Prod grants require explicit approval before RoleBinding is created."  *)
UnapprovedHasNoBinding ==
  \A g \in Grants :
    Exists(g) /\ ag[g].spec.environment = "prod" /\ ag[g].approver = NoApprover
    => BindingOf(g) = NoBinding

(* "Cleanup is handled explicitly in the finalizer": a RoleBinding belongs *)
(* to a grant that exists.                                                 *)
NoOrphanBinding ==
  \A k \in BindingKeys :
    rb[k] # NoBinding => \E g \in Grants : Exists(g) /\ BindingKey(g, ag[g].spec) = k

(* Access ends: a binding of a grant whose expiry has passed is removed.   *)
Overdue(g) ==
  /\ ag[g].phase = "live" /\ ag[g].status.expiresAt # NoTime
  /\ now > ag[g].status.expiresAt
  /\ BindingOf(g) # NoBinding

OverdueIsRemoved == \A g \in Grants : Overdue(g) ~> ~Overdue(g)

(* A deleted grant is removed from the API server, whatever fails.         *)
DeletionCompletes ==
  \A g \in Grants : ag[g].phase = "deleting" ~> ag[g].phase # "deleting"

(* A valid grant that is approved where it has to be becomes active.       *)
Deserving(g) ==
  /\ ag[g].phase = "live" /\ WithinPolicy(ag[g].spec)
  /\ ag[g].spec.environment = "prod" => ag[g].approver # NoApprover

DeservingIsActivated ==
  \A g \in Grants :
    Deserving(g) ~> ag[g].status.state \in {"Active"} \cup Terminal \/ ~Deserving(g)

=============================================================================
