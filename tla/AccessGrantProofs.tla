------------------------- MODULE AccessGrantProofs -------------------------
(* Theorems about AccessGrant, for all grants, specs, bounds and clients.  *)
EXTENDS AccessGrant, TLAPS

-----------------------------------------------------------------------------
(* What the operators on objects return. *)

(* The default grant of an idle worker is a grant. *)
LEMMA AnyGrantType == AnyGrant \in Grants
  BY GrantsAssumption DEF AnyGrant

(* The absent object is an object. *)
LEMMA NoObjectType ==
  /\ NoObject \in Objects
  /\ NoObject.phase = "absent" /\ ~NoObject.finalizer
  /\ NoObject.status.state = ""
<1>1. (CHOOSE s \in Specs : TRUE) \in Specs
  BY GrantsAssumption
<1>2. NoStatus \in Statuses
  BY DEF NoStatus, Statuses, States
<1> QED
  BY <1>1, <1>2 DEF NoObject, Objects, NoStatus

(* A new grant is live, without finalizer and without state. *)
LEMMA NewObjectType ==
  ASSUME NEW s \in Specs
  PROVE  /\ NewObject(s) \in Objects
         /\ NewObject(s).phase = "live" /\ ~NewObject(s).finalizer
         /\ NewObject(s).status.state = ""
<1>1. NoStatus \in Statuses
  BY DEF NoStatus, Statuses, States
<1> QED
  BY <1>1 DEF NewObject, Objects, NoStatus

(* The status mutations of Reconcile: each returns an object and changes   *)
(* only what it names.                                                     *)
LEMMA RejectedType ==
  ASSUME NEW o \in Objects
  PROVE  /\ Rejected(o) \in Objects
         /\ Rejected(o).status.state = "Pending"
         /\ Rejected(o).phase = o.phase /\ Rejected(o).finalizer = o.finalizer
  BY DEF Rejected, Objects, Statuses, States

LEMMA AwaitingApprovalType ==
  ASSUME NEW o \in Objects
  PROVE  /\ AwaitingApproval(o) \in Objects
         /\ AwaitingApproval(o).status.state = "PendingApproval"
         /\ AwaitingApproval(o).phase = o.phase
         /\ AwaitingApproval(o).finalizer = o.finalizer
  BY DEF AwaitingApproval, Objects, Statuses, States

LEMMA ApprovedType ==
  ASSUME NEW o \in Objects
  PROVE  /\ Approved(o) \in Objects
         /\ Approved(o).status.state = o.status.state
         /\ Approved(o).phase = o.phase /\ Approved(o).finalizer = o.finalizer
         /\ Approved(o).spec = o.spec /\ Approved(o).approver = o.approver
         /\ Approved(o).status.expiresAt = o.status.expiresAt
         /\ NeedsApproval(o) => Approved(o).status.approvedBy = o.approver
  BY DEF Approved, NeedsApproval, Objects, Statuses

LEMMA ActivatedType ==
  ASSUME NEW o \in Objects, NEW t \in Int
  PROVE  /\ Activated(o, t) \in Objects
         /\ Activated(o, t).status.state = "Active"
         /\ Activated(o, t).status.expiresAt = t + o.spec.ttl
         /\ Activated(o, t).status.approvedBy = o.status.approvedBy
         /\ Activated(o, t).phase = o.phase
         /\ Activated(o, t).finalizer = o.finalizer
         /\ Activated(o, t).spec = o.spec
         /\ Activated(o, t).approver = o.approver
<1>1. o.spec.ttl \in Int
  BY SpecsAssumption DEF Objects, SpecType
<1> DEFINE e == t + o.spec.ttl
           st == [state |-> "Active", expiresAt |-> e, ref |-> TRUE,
                  approvedBy |-> o.status.approvedBy]
<1>2. e \in Int
  BY <1>1
<1>3. Activated(o, t) = [o EXCEPT !.status = st]
  BY DEF Activated
<1>4. st \in Statuses
  BY <1>2 DEF Objects, Statuses, States
<1>5. /\ st.state = "Active" /\ st.expiresAt = t + o.spec.ttl
      /\ st.approvedBy = o.status.approvedBy
  OBVIOUS
<1> HIDE DEF st
<1>6. /\ Activated(o, t) \in Objects
      /\ Activated(o, t).status = st
      /\ Activated(o, t).phase = o.phase
      /\ Activated(o, t).finalizer = o.finalizer
      /\ Activated(o, t).spec = o.spec
      /\ Activated(o, t).approver = o.approver
  BY <1>3, <1>4 DEF Objects
<1> QED
  BY <1>5, <1>6

LEMMA ExpiredType ==
  ASSUME NEW o \in Objects
  PROVE  /\ Expired(o) \in Objects
         /\ Expired(o).status.state = "Expired"
         /\ Expired(o).phase = o.phase /\ Expired(o).finalizer = o.finalizer
  BY DEF Expired, Objects, Statuses, States

LEMMA RevokedType ==
  ASSUME NEW o \in Objects
  PROVE  [o EXCEPT !.status.state = "Revoked"] \in Objects
  BY DEF Objects, Statuses, States

(* Every binding has a key and a value of the right kind. *)
LEMMA BindingTypes ==
  ASSUME NEW g \in Grants, NEW s \in Specs
  PROVE  BindingKey(g, s) \in BindingKeys /\ Binding(s) \in Bindings
  BY DEF BindingKey, BindingKeys, Binding, Bindings, ClusterRole, Roles

-----------------------------------------------------------------------------
(* Type correctness. *)

(* TypeOK in three parts: the variables an update writes, those the end of *)
(* a call or of Reconcile writes, and the rest.                            *)
StoreType == ag \in [Grants -> Objects] /\ behind \subseteq Grants

WorkerType == /\ pc \in Calls /\ key \in Grants /\ obj \in Objects
              /\ fresh \in BOOLEAN
              /\ queue \subseteq Grants
              /\ wakeAt \in [Grants -> Int \cup {NoTime}]

RestType == /\ now \in Nat
            /\ rb \in [BindingKeys -> Bindings \cup {NoBinding}]
            /\ agCache \in [Grants -> Objects]
            /\ rbCache \in [BindingKeys -> Bindings \cup {NoBinding}]
            /\ created \subseteq Grants
            /\ userOps \in Nat /\ faults \in Nat /\ restarts \in Nat

LEMMA TypeParts == TypeOK <=> StoreType /\ WorkerType /\ RestType
  BY DEF TypeOK, StoreType, WorkerType, RestType

LEMMA UpdateType ==
  ASSUME TypeOK, NEW o \in Objects, NEW out, Update(out, o)
  PROVE  StoreType'
  BY DEF TypeOK, StoreType, Update, Store

LEMMA ReturnTypes ==
  ASSUME TypeOK
  PROVE  /\ Done => WorkerType'
         /\ Requeue => WorkerType'
         /\ \A t \in Int : RequeueAt(t) => WorkerType'
<1> USE AnyGrantType, NoObjectType
<1>1. ASSUME Return PROVE pc' \in Calls /\ key' \in Grants /\ obj' \in Objects
                          /\ fresh' \in BOOLEAN
  BY <1>1 DEF Return, Calls
<1>2. ASSUME Done PROVE WorkerType'
  BY <1>1, <1>2 DEF Done, WorkerType, TypeOK
<1>3. ASSUME Requeue PROVE WorkerType'
  BY <1>1, <1>3 DEF Requeue, WorkerType, TypeOK
<1>4. ASSUME NEW t \in Int, RequeueAt(t) PROVE WorkerType'
  BY <1>1, <1>4 DEF RequeueAt, Earliest, WorkerType, TypeOK
<1> QED
  BY <1>2, <1>3, <1>4

LEMMA ContinueType ==
  ASSUME TypeOK, NEW call \in Calls, NEW o \in Objects, Continue(call, o)
  PROVE  WorkerType'
  BY DEF TypeOK, WorkerType, Continue

LEMMA StartType ==
  ASSUME TypeOK, NEW g \in Grants, NEW call \in Calls, NEW o \in Objects,
         Start(g, call, o)
  PROVE  TypeOK'
  BY DEF TypeOK, Start, Take, cluster, caches, counters

LEMMA EndsType ==
  ASSUME TypeOK, NEW out, Ends(out)
  PROVE  /\ now' \in Nat /\ created' \subseteq Grants
         /\ userOps' \in Nat /\ faults' \in Nat /\ restarts' \in Nat
  BY DEF TypeOK, Ends

(* Reconcile, from the Get on. *)
LEMMA ReconcileType ==
  ASSUME TypeOK, NEW g \in Grants, Reconcile(g)
  PROVE  TypeOK'
<1> DEFINE o == agCache[g]
<1>1. o \in Objects
  BY DEF TypeOK
<1>2. Granted(o) => o.status.expiresAt \in Int
  BY <1>1 DEF Granted, Objects, Statuses
<1>3. ASSUME Take(g), wakeAt' \in [Grants -> Int \cup {NoTime}], UNCHANGED worker
      PROVE  TypeOK'
  BY <1>3 DEF TypeOK, Take, cluster, caches, counters, worker
<1>4. CASE ReconcileNothing(g)
  BY <1>3, <1>4 DEF ReconcileNothing, TypeOK
<1>5. CASE ReconcileDeletion(g)
  <2>1. (IF o.status.ref THEN "findBinding" ELSE "removeFinalizer") \in Calls
    BY DEF Calls
  <2> QED
    BY <1>1, <1>5, <2>1, StartType DEF ReconcileDeletion
<1>6. CASE ReconcileAddFinalizer(g)
  <2>1. [o EXCEPT !.finalizer = TRUE] \in Objects
    BY <1>1 DEF Objects
  <2> QED
    BY <1>6, <2>1, StartType DEF ReconcileAddFinalizer, Calls
<1>7. CASE ReconcileReject(g)
  BY <1>1, <1>7, RejectedType, StartType DEF ReconcileReject, Calls
<1>8. CASE ReconcileStillActive(g)
  <2>1. wakeAt' \in [Grants -> Int \cup {NoTime}]
    BY <1>2, <1>8 DEF ReconcileStillActive, Earliest, TypeOK
  <2> QED
    BY <1>3, <1>8, <2>1 DEF ReconcileStillActive
<1>9. CASE ReconcileExpire(g)
  BY <1>1, <1>9, ExpiredType, StartType DEF ReconcileExpire, Calls
<1>10. CASE ReconcileAwaitApproval(g)
  <2>1. CASE o.status.state # "PendingApproval"
    BY <1>1, <1>10, <2>1, AwaitingApprovalType, StartType
       DEF ReconcileAwaitApproval, Calls
  <2>2. CASE o.status.state = "PendingApproval"
    <3>1. wakeAt' \in [Grants -> Int \cup {NoTime}]
      BY <1>10, <2>2, BoundsAssumption DEF ReconcileAwaitApproval, Earliest, TypeOK
    <3> QED
      BY <1>3, <1>10, <2>2, <3>1 DEF ReconcileAwaitApproval
  <2> QED
    BY <2>1, <2>2
<1>11. CASE ReconcileActivate(g)
  BY <1>1, <1>11, ApprovedType, StartType DEF ReconcileActivate, Calls
<1> QED
  BY <1>4, <1>5, <1>6, <1>7, <1>8, <1>9, <1>10, <1>11 DEF Reconcile

(* The API calls. *)
LEMMA CallType ==
  ASSUME TypeOK, NEW out \in Outcomes, Call(out)
  PROVE  TypeOK'
<1> USE DEF TypeOK
<1>1. obj \in Objects /\ key \in Grants /\ now \in Int /\ obj.spec \in Specs
  BY DEF Objects
<1>2. obj.spec.ttl \in Int
  BY <1>1, SpecsAssumption DEF SpecType
<1>3. Activated(obj, now) \in Objects /\ Expired(obj) \in Objects
  BY <1>1, ActivatedType, ExpiredType
<1>4. ASSUME Ends(out), Update(out, obj) \/ Update(out, NoObject), WorkerType',
             UNCHANGED <<rb, agCache, rbCache>>
      PROVE  TypeOK'
  <2>1. StoreType'
    BY <1>1, <1>4, UpdateType, NoObjectType
  <2>2. RestType'
    BY <1>4, EndsType DEF RestType
  <2> QED
    BY <1>4, <2>1, <2>2, TypeParts DEF StoreType, WorkerType, RestType
<1>5. ASSUME Ends(out), WorkerType', UNCHANGED <<ag, caches>>,
             rb' \in [BindingKeys -> Bindings \cup {NoBinding}]
      PROVE  TypeOK'
  <2>1. StoreType' /\ RestType'
    BY <1>5, EndsType DEF StoreType, RestType, caches
  <2> QED
    BY <1>5, <2>1 DEF StoreType, WorkerType, RestType
<1>6. CASE AddFinalizer(out)
  BY <1>4, <1>6, ReturnTypes DEF AddFinalizer
<1>7. CASE WriteFailed(out)
  BY <1>4, <1>7, ReturnTypes DEF WriteFailed
<1>8. CASE WritePending(out)
  BY <1>1, <1>4, <1>8, ReturnTypes, BoundsAssumption DEF WritePending
<1>9. CASE LookupBinding(out)
  <2>1. WorkerType'
    BY <1>1, <1>3, <1>9, ReturnTypes, ContinueType DEF LookupBinding, Calls
  <2> QED
    BY <1>5, <1>9, <2>1 DEF LookupBinding
<1>10. CASE CreateBinding(out)
  <2>1. WorkerType'
    BY <1>3, <1>10, ReturnTypes, ContinueType DEF CreateBinding, Calls
  <2>2. rb' \in [BindingKeys -> Bindings \cup {NoBinding}]
    BY <1>1, <1>10, BindingTypes DEF CreateBinding
  <2> QED
    BY <1>5, <1>10, <2>1, <2>2 DEF CreateBinding
<1>11. CASE WriteActive(out)
  <2>1. WorkerType'
    BY <1>1, <1>2, <1>11, ReturnTypes DEF WriteActive
  <2> QED
    BY <1>4, <1>11, <2>1 DEF WriteActive
<1>12. AfterCleanup \/ CleanupFailed => WorkerType'
  BY <1>1, <1>3, ReturnTypes, ContinueType DEF AfterCleanup, CleanupFailed, Calls
<1>13. CASE FindBinding(out)
  <2>1. WorkerType'
    BY <1>1, <1>12, <1>13, ContinueType DEF FindBinding, Calls
  <2> QED
    BY <1>5, <1>13, <2>1 DEF FindBinding
<1>14. CASE DeleteBinding(out)
  <2>1. rb' \in [BindingKeys -> Bindings \cup {NoBinding}]
    BY <1>14 DEF DeleteBinding
  <2> QED
    BY <1>5, <1>12, <1>14, <2>1 DEF DeleteBinding
<1>15. CASE WriteExpired(out)
  BY <1>4, <1>15, ReturnTypes DEF WriteExpired
<1>16. CASE RemoveFinalizer(out)
  BY <1>4, <1>16, ReturnTypes DEF RemoveFinalizer
<1> QED
  BY <1>6, <1>7, <1>8, <1>9, <1>10, <1>11, <1>13, <1>14, <1>15, <1>16 DEF Call

(* The manager, the clock, and a restart. *)
Manager ==
  \/ \E g \in Grants : CacheSync(g) \/ TimerFire(g) \/ Resync(g)
  \/ \E k \in BindingKeys : BindingSync(k)
  \/ Tick \/ Restart

LEMMA ManagerType ==
  ASSUME TypeOK, Manager
  PROVE  TypeOK'
<1> USE DEF TypeOK, cluster, caches, scheduler, worker, counters
<1>1. ASSUME NEW g \in Grants, CacheSync(g) PROVE TypeOK'
  BY <1>1 DEF CacheSync
<1>2. ASSUME NEW g \in Grants, TimerFire(g) PROVE TypeOK'
  BY <1>2 DEF TimerFire
<1>3. ASSUME NEW g \in Grants, Resync(g) PROVE TypeOK'
  BY <1>3 DEF Resync
<1>4. ASSUME NEW k \in BindingKeys, BindingSync(k) PROVE TypeOK'
  BY <1>4 DEF BindingSync
<1>5. ASSUME Tick PROVE TypeOK'
  BY <1>5 DEF Tick
<1>6. ASSUME Restart PROVE TypeOK'
  <2>1. pc' \in Calls /\ key' \in Grants /\ obj' \in Objects /\ fresh' \in BOOLEAN
    BY <1>6, AnyGrantType, NoObjectType DEF Restart, Return, Calls
  <2> QED
    BY <1>6, <2>1 DEF Restart
<1> QED
  BY <1>1, <1>2, <1>3, <1>4, <1>5, <1>6 DEF Manager

(* Users, the broker and other clients. *)
LEMMA ClientWriteType ==
  ASSUME TypeOK, NEW action, NEW g \in Grants, NEW o \in Objects,
         ClientWrite(action, g, o), created' \subseteq Grants
  PROVE  TypeOK'
  BY DEF TypeOK, ClientWrite, Store, scheduler

LEMMA ClientsType ==
  ASSUME TypeOK, Clients
  PROVE  TypeOK'
<1>0. created \subseteq Grants /\ \A g \in Grants : ag[g] \in Objects
  BY DEF TypeOK
<1>1. ASSUME NEW g \in Grants, NEW s \in Specs, UserCreate(g, s) PROVE TypeOK'
  BY <1>0, <1>1, NewObjectType, ClientWriteType DEF UserCreate
<1>2. ASSUME NEW g \in Grants, NEW s \in Specs, UserEdit(g, s) PROVE TypeOK'
  <2>1. [ag[g] EXCEPT !.spec = s] \in Objects
    BY <1>0 DEF Objects
  <2> QED
    BY <1>0, <1>2, <2>1, ClientWriteType DEF UserEdit
<1>3. ASSUME NEW g \in Grants, NEW a \in Approvers \cup {NoApprover},
             BrokerAnnotate(g, a)
      PROVE  TypeOK'
  <2>1. [ag[g] EXCEPT !.approver = a] \in Objects
    BY <1>0 DEF Objects
  <2> QED
    BY <1>0, <1>3, <2>1, ClientWriteType DEF BrokerAnnotate
<1>4. ASSUME NEW g \in Grants, UserDelete(g) PROVE TypeOK'
  <2>1. [ag[g] EXCEPT !.phase = "deleting"] \in Objects
    BY <1>0 DEF Objects
  <2> QED
    BY <1>0, <1>4, <2>1, NoObjectType, ClientWriteType DEF UserDelete
<1>5. ASSUME NEW g \in Grants, BrokerRevoke(g) PROVE TypeOK'
  <2>1. [ag[g] EXCEPT !.status.state = "Revoked"] \in Objects
    BY <1>0, RevokedType
  <2> QED
    BY <1>0, <1>5, <2>1, ClientWriteType DEF BrokerRevoke
<1>6. ASSUME NEW k \in BindingKeys, Unbind(k) PROVE TypeOK'
  BY <1>6 DEF Unbind, TypeOK, caches, scheduler, worker
<1> QED
  BY <1>1, <1>2, <1>3, <1>4, <1>5, <1>6 DEF Clients

(* A step is one of Reconcile, an API call, the manager or a client. *)
LEMMA NextKinds ==
  Next <=> \/ \E g \in Grants : Reconcile(g)
           \/ \E out \in Outcomes : Call(out)
           \/ Manager \/ Clients
  BY DEF Next, Manager

LEMMA InitType == Init => TypeOK
<1> SUFFICES ASSUME Init PROVE TypeOK
  OBVIOUS
<1>1. pc \in Calls /\ key \in Grants /\ obj \in Objects /\ fresh \in BOOLEAN
  BY AnyGrantType, NoObjectType DEF Init, Calls
<1>2. ag \in [Grants -> Objects] /\ agCache \in [Grants -> Objects]
  BY NoObjectType DEF Init
<1> QED
  BY <1>1, <1>2 DEF Init, TypeOK

LEMMA NextType == TypeOK /\ [Next]_vars => TypeOK'
<1> SUFFICES ASSUME TypeOK, [Next]_vars PROVE TypeOK'
  OBVIOUS
<1>1. CASE UNCHANGED vars
  BY <1>1 DEF TypeOK, vars, cluster, caches, scheduler, worker, counters
<1>2. CASE Next
  BY <1>2, NextKinds, ReconcileType, CallType, ManagerType, ClientsType
<1> QED
  BY <1>1, <1>2

(* Every variable keeps its type, for all constants: whatever clients,     *)
(* failures and restarts do, the status stays within the states that the   *)
(* validation of the API accepts, and a binding has one of the three roles.*)
THEOREM TypeCorrect == Spec => []TypeOK
  BY InitType, NextType, PTL DEF Spec

-----------------------------------------------------------------------------
(* The inductive invariant. *)

LEMMA InitInv == Init => IInv
<1> SUFFICES ASSUME Init PROVE IInv
  OBVIOUS
<1>1. FreshCopyIsStored
  BY DEF Init, FreshCopyIsStored
<1>2. CacheIsPast
  BY NoObjectType DEF Init, CacheIsPast, Reconcilable
<1>3. ActiveHasExpiry
  BY NoObjectType DEF Init, ActiveHasExpiry
<1>4. ActivationIsSound
  BY DEF Init, ActivationIsSound, Activating
<1> QED
  BY <1>1, <1>2, <1>3, <1>4 DEF IInv

(* A step that leaves store, cache and worker alone keeps the invariant. *)
LEMMA QuietInv ==
  ASSUME IInv, UNCHANGED <<now, ag, agCache, behind, worker>>
  PROVE  IInv'
<1>1. FreshCopyIsStored'
  BY DEF IInv, FreshCopyIsStored, Granted, Deleting, Rejected, AwaitingApproval,
         Approved, NeedsApproval, Activated, Expired, worker
<1>2. CacheIsPast'
  BY DEF IInv, CacheIsPast, Reconcilable, Granted, Exists
<1>3. ActiveHasExpiry'
  BY DEF IInv, ActiveHasExpiry
<1>4. ActivationIsSound'
  BY DEF IInv, ActivationIsSound, Exists, Deleting, Granted, worker
<1> QED
  BY <1>1, <1>2, <1>3, <1>4 DEF IInv

(* What an API call or the start of one keeps as long as it writes no      *)
(* grant.                                                                  *)
LEMMA StoreUntouchedInv ==
  ASSUME IInv, UNCHANGED <<ag, agCache, behind>>,
         FreshCopyIsStored', ActivationIsSound'
  PROVE  IInv'
<1>1. CacheIsPast'
  BY DEF IInv, CacheIsPast, Reconcilable, Granted, Exists
<1>2. ActiveHasExpiry'
  BY DEF IInv, ActiveHasExpiry
<1> QED
  BY <1>1, <1>2 DEF IInv

(* A worker that returned holds nothing. *)
LEMMA ReturnInv ==
  ASSUME Return
  PROVE  FreshCopyIsStored' /\ ActivationIsSound'
  BY DEF Return, FreshCopyIsStored, ActivationIsSound, Activating

(* Reconcile, from the Get on. *)
LEMMA ReconcileInv ==
  ASSUME TypeOK, IInv, NEW g \in Grants, Reconcile(g)
  PROVE  IInv'
<1> DEFINE o == agCache[g]
<1>1. o \in Objects /\ ag[g] \in Objects
  BY DEF TypeOK
<1>2. /\ g \notin behind => o = ag[g]
      /\ Reconcilable(o) => /\ Exists(g) /\ ag[g].finalizer
                            /\ ag[g].status.state = "Expired" =>
                                 Granted(o) \/ o.status.state = "Expired"
      /\ o.status.state = "Active" => Granted(o)
  BY DEF IInv, CacheIsPast, ActiveHasExpiry, Granted
<1>3. ASSUME Take(g), UNCHANGED worker PROVE IInv'
  BY <1>3, QuietInv DEF Take, cluster, caches
<1>4. ASSUME NEW call, NEW c, Start(g, call, c),
             FreshCopyIsStored', ActivationIsSound'
      PROVE  IInv'
  BY <1>4, StoreUntouchedInv DEF Start, Take, cluster, caches
<1>5. CASE ReconcileNothing(g)
  BY <1>3, <1>5 DEF ReconcileNothing
<1>6. CASE ReconcileDeletion(g)
  <2>1. FreshCopyIsStored'
    BY <1>2, <1>6 DEF ReconcileDeletion, Start, Take, cluster, caches,
                      FreshCopyIsStored, Activating, Deleting
  <2>2. ActivationIsSound'
    BY <1>6 DEF ReconcileDeletion, Start, ActivationIsSound, Activating, Deleting
  <2> QED
    BY <1>4, <1>6, <2>1, <2>2 DEF ReconcileDeletion
<1>7. CASE ReconcileAddFinalizer(g)
  <2>1. FreshCopyIsStored'
    BY <1>2, <1>7 DEF ReconcileAddFinalizer, Start, Take, cluster, caches,
                      FreshCopyIsStored, Activating
  <2>2. ActivationIsSound'
    BY <1>7 DEF ReconcileAddFinalizer, Start, ActivationIsSound, Activating
  <2> QED
    BY <1>4, <1>7, <2>1, <2>2 DEF ReconcileAddFinalizer
<1>8. CASE ReconcileReject(g)
  <2>1. FreshCopyIsStored'
    BY <1>2, <1>8 DEF ReconcileReject, Start, Take, cluster, caches,
                      FreshCopyIsStored, Activating, Rejected
  <2>2. ActivationIsSound'
    BY <1>8 DEF ReconcileReject, Start, ActivationIsSound, Activating
  <2> QED
    BY <1>4, <1>8, <2>1, <2>2 DEF ReconcileReject
<1>9. CASE ReconcileStillActive(g)
  BY <1>3, <1>9 DEF ReconcileStillActive
<1>10. CASE ReconcileExpire(g)
  <2>1. FreshCopyIsStored'
    BY <1>2, <1>10 DEF ReconcileExpire, Start, Take, cluster, caches,
                       FreshCopyIsStored, Activating, Expired, Granted
  <2>2. ActivationIsSound'
    BY <1>10 DEF ReconcileExpire, Start, ActivationIsSound, Activating, Granted
  <2> QED
    BY <1>4, <1>10, <2>1, <2>2 DEF ReconcileExpire
<1>11. CASE ReconcileAwaitApproval(g)
  <2>1. CASE o.status.state # "PendingApproval"
    <3>1. Start(g, "writePending", AwaitingApproval(o))
      BY <1>11, <2>1 DEF ReconcileAwaitApproval
    <3>2. FreshCopyIsStored'
      BY <1>2, <1>11, <3>1 DEF ReconcileAwaitApproval, Valid, Start, Take, cluster,
         caches, FreshCopyIsStored, Activating, AwaitingApproval
    <3>3. ActivationIsSound'
      BY <3>1 DEF Start, ActivationIsSound, Activating
    <3> QED
      BY <1>4, <3>1, <3>2, <3>3
  <2>2. CASE o.status.state = "PendingApproval"
    BY <1>3, <1>11, <2>2 DEF ReconcileAwaitApproval
  <2> QED
    BY <2>1, <2>2
<1>12. CASE ReconcileActivate(g)
  <2>1. Start(g, "lookupBinding", Approved(o)) /\ Valid(o) /\ ~Granted(o)
    BY <1>12 DEF ReconcileActivate
  <2>2. NeedsApproval(o) => o.approver # NoApprover
    BY <1>12 DEF ReconcileActivate
  <2>3. FreshCopyIsStored'
    BY <1>2, <2>1 DEF Valid, Start, Take, cluster, caches, FreshCopyIsStored,
       Activating, Approved, NeedsApproval
  <2>4. o.spec.environment = "prod" => NeedsApproval(o)
    BY <1>2, <2>1 DEF NeedsApproval
  <2>5. /\ WithinPolicy(Approved(o).spec)
        /\ Approved(o).spec.environment = "prod" =>
             /\ Approved(o).approver # NoApprover
             /\ Approved(o).status.approvedBy = Approved(o).approver
    BY <1>1, <2>1, <2>2, <2>4, ApprovedType DEF Valid
  <2>6. Exists(g) /\ ag[g].finalizer /\ ag[g].status.state # "Expired"
    BY <1>2, <2>1 DEF Valid, Terminal
  <2>7. ActivationIsSound'
    BY <2>1, <2>5, <2>6 DEF Start, Take, cluster, ActivationIsSound, Activating,
       WithinPolicy, Exists, MaxTTL
  <2> QED
    BY <1>4, <2>1, <2>3, <2>7
<1> QED
  BY <1>5, <1>6, <1>7, <1>8, <1>9, <1>10, <1>11, <1>12 DEF Reconcile

(* An update that may replace the stored grant by o, after which the       *)
(* worker returns.                                                         *)
LEMMA UpdateInv ==
  ASSUME TypeOK, IInv, NEW out, NEW o \in Objects,
         Update(out, o), Return, UNCHANGED agCache,
         fresh /\ Reconcilable(ag[key]) =>
           /\ o.phase # "absent" /\ o.finalizer
           /\ o.status.state = "Expired" => Granted(ag[key]),
         fresh /\ o.status.state = "Active" => o.status.expiresAt # NoTime
  PROVE  IInv'
<1>1. FreshCopyIsStored' /\ ActivationIsSound'
  BY ReturnInv
<1>2. CASE UNCHANGED <<ag, behind>>
  BY <1>1, <1>2, StoreUntouchedInv
<1>3. CASE fresh /\ Store(key, o)
  <2>1. key \in Grants /\ key \notin behind /\ agCache[key] = ag[key]
    BY <1>3 DEF IInv, FreshCopyIsStored, CacheIsPast, TypeOK
  <2>2. /\ ag' = [ag EXCEPT ![key] = o] /\ behind' = behind \cup {key}
        /\ agCache' = agCache
    BY <1>3 DEF Store
  <2>3. CacheIsPast'
    <3>1. SUFFICES ASSUME NEW g \in Grants
                   PROVE  /\ g \notin behind' => agCache[g] = ag'[g]
                          /\ Reconcilable(agCache[g]) =>
                               /\ ag'[g].phase # "absent" /\ ag'[g].finalizer
                               /\ ag'[g].status.state = "Expired" =>
                                    \/ Granted(agCache[g])
                                    \/ agCache[g].status.state = "Expired"
      BY <2>2 DEF CacheIsPast, Exists, Reconcilable, Granted
    <3>2. CASE g = key
      BY <1>3, <2>1, <2>2, <3>2 DEF TypeOK
    <3>3. CASE g # key
      BY <2>2, <3>3 DEF TypeOK, IInv, CacheIsPast, Exists
    <3> QED
      BY <3>2, <3>3
  <2>4. ActiveHasExpiry'
    BY <1>3, <2>1, <2>2 DEF TypeOK, IInv, ActiveHasExpiry
  <2> QED
    BY <1>1, <2>3, <2>4 DEF IInv
<1> QED
  BY <1>2, <1>3 DEF Update

(* The API calls that update the grant. *)
LEMMA UpdatingCallInv ==
  ASSUME TypeOK, IInv, NEW out \in Outcomes,
         \/ AddFinalizer(out) \/ WriteFailed(out) \/ WritePending(out)
         \/ WriteActive(out) \/ WriteExpired(out) \/ RemoveFinalizer(out)
  PROVE  IInv'
<1>1. obj \in Objects /\ key \in Grants /\ ag[key] \in Objects /\ now \in Nat
  BY DEF TypeOK
<1>2. FreshCopyIsStored /\ ActiveHasExpiry /\ ActivationIsSound
  BY DEF IInv
<1>3. ag[key].status.state = "Active" => ag[key].status.expiresAt # NoTime
  BY <1>1, <1>2 DEF ActiveHasExpiry
<1>4. CASE AddFinalizer(out)
  <2>1. fresh => obj = [ag[key] EXCEPT !.finalizer = TRUE] /\ ~ag[key].finalizer
    BY <1>2, <1>4 DEF AddFinalizer, FreshCopyIsStored
  <2>2. fresh => obj.status = ag[key].status
    BY <1>1, <2>1 DEF Objects
  <2> QED
    BY <1>1, <1>3, <1>4, <2>1, <2>2, UpdateInv DEF AddFinalizer, Requeue, Reconcilable
<1>5. CASE WriteFailed(out)
  <2>1. fresh => obj = Rejected(ag[key])
    BY <1>2, <1>5 DEF WriteFailed, FreshCopyIsStored
  <2> QED
    BY <1>1, <1>5, <2>1, RejectedType, UpdateInv DEF WriteFailed, Requeue, Reconcilable
<1>6. CASE WritePending(out)
  <2>1. fresh => obj = AwaitingApproval(ag[key])
    BY <1>2, <1>6 DEF WritePending, FreshCopyIsStored
  <2> QED
    BY <1>1, <1>6, <2>1, AwaitingApprovalType, UpdateInv
       DEF WritePending, RequeueAt, Reconcilable
<1>7. CASE WriteActive(out)
  <2>1. fresh => \E t \in 0..now : obj = Activated(Approved(ag[key]), t)
    BY <1>2, <1>7 DEF WriteActive, FreshCopyIsStored
  <2>2. ASSUME fresh
        PROVE  /\ obj.phase = ag[key].phase /\ obj.finalizer = ag[key].finalizer
               /\ obj.status.state = "Active" /\ obj.status.expiresAt \in Int
    <3>1. PICK t \in 0..now : obj = Activated(Approved(ag[key]), t)
      BY <2>1, <2>2
    <3>2. t \in Int /\ t + Approved(ag[key]).spec.ttl \in Int
      BY <1>1, <3>1, ApprovedType, SpecsAssumption DEF Objects, SpecType
    <3> QED
      BY <1>1, <3>1, <3>2, ApprovedType, ActivatedType
  <2>3. Return /\ Update(out, obj) /\ UNCHANGED agCache
    BY <1>7 DEF WriteActive, Done, Requeue, RequeueAt
  <2> QED
    BY <1>1, <2>2, <2>3, UpdateInv, NilAssumption DEF Reconcilable
<1>8. CASE WriteExpired(out)
  <2>1. fresh => obj = Expired(ag[key]) /\ Granted(ag[key])
    BY <1>2, <1>8 DEF WriteExpired, FreshCopyIsStored
  <2> QED
    BY <1>1, <1>8, <2>1, ExpiredType, UpdateInv DEF WriteExpired, Done, Reconcilable
<1>9. CASE RemoveFinalizer(out)
  <2>1. fresh => ~Reconcilable(ag[key])
    BY <1>2, <1>9 DEF RemoveFinalizer, FreshCopyIsStored, Deleting, Reconcilable
  <2>2. Return
    BY <1>9 DEF RemoveFinalizer, Done, Requeue
  <2> QED
    BY <1>9, <2>1, <2>2, NoObjectType, UpdateInv DEF RemoveFinalizer
<1> QED
  BY <1>4, <1>5, <1>6, <1>7, <1>8, <1>9

(* The API calls that leave the stored grants alone. *)
LEMMA OtherCallInv ==
  ASSUME TypeOK, IInv, NEW out \in Outcomes,
         \/ LookupBinding(out) \/ CreateBinding(out)
         \/ FindBinding(out) \/ DeleteBinding(out)
  PROVE  IInv'
<1>1. UNCHANGED <<ag, agCache, behind>> /\ now' = now
  BY DEF LookupBinding, CreateBinding, FindBinding, DeleteBinding, caches, Ends
<1>2. FreshCopyIsStored /\ ActivationIsSound /\ now \in Nat
  BY DEF IInv, TypeOK
<1>3. SUFFICES FreshCopyIsStored' /\ ActivationIsSound'
  BY <1>1, StoreUntouchedInv
<1>4. CASE Done \/ Requeue
  BY <1>4, ReturnInv DEF Done, Requeue
<1>5. ASSUME pc \in {"lookupBinding", "createBinding"},
             Continue("createBinding", obj)
      PROVE  FreshCopyIsStored' /\ ActivationIsSound'
  <2>1. FreshCopyIsStored'
    BY <1>1, <1>2, <1>5 DEF Continue, FreshCopyIsStored, Activating, Approved,
       NeedsApproval
  <2>2. ActivationIsSound'
    BY <1>1, <1>2, <1>5 DEF Continue, ActivationIsSound, Activating, Exists
  <2> QED
    BY <2>1, <2>2
<1>6. ASSUME pc \in {"lookupBinding", "createBinding"},
             Continue("writeActive", Activated(obj, now))
      PROVE  FreshCopyIsStored' /\ ActivationIsSound'
  <2>1. /\ obj \in Objects /\ Activated(obj, now).spec = obj.spec
        /\ Activated(obj, now).approver = obj.approver
        /\ Activated(obj, now).status.approvedBy = obj.status.approvedBy
    BY <1>2, ActivatedType DEF TypeOK
  <2>2. FreshCopyIsStored'
    <3>1. SUFFICES ASSUME fresh
                   PROVE  /\ key \notin behind
                          /\ ag[key].status.state \notin Terminal \cup {"Active"}
                          /\ \E t \in 0..now : Activated(obj, now)
                                                 = Activated(Approved(ag[key]), t)
      BY <1>1, <1>6 DEF Continue, FreshCopyIsStored, Activating, Activated,
         Approved, NeedsApproval
    <3>2. obj = Approved(ag[key]) /\ now \in 0..now
      BY <1>2, <1>6, <3>1 DEF FreshCopyIsStored
    <3> QED
      BY <1>2, <1>6, <3>1, <3>2 DEF FreshCopyIsStored, Activating
  <2>3. ActivationIsSound'
    BY <1>1, <1>2, <1>6, <2>1 DEF Continue, ActivationIsSound, Activating, Exists,
       WithinPolicy, MaxTTL
  <2> QED
    BY <2>2, <2>3
<1>7. ASSUME pc = "findBinding", Continue("deleteBinding", obj)
      PROVE  FreshCopyIsStored' /\ ActivationIsSound'
  BY <1>1, <1>2, <1>7 DEF Continue, FreshCopyIsStored, ActivationIsSound, Activating,
     Deleting, Granted
<1>8. ASSUME pc \in {"findBinding", "deleteBinding"},
             Continue("removeFinalizer", obj), Deleting(obj)
      PROVE  FreshCopyIsStored' /\ ActivationIsSound'
  BY <1>1, <1>2, <1>8 DEF Continue, FreshCopyIsStored, ActivationIsSound, Activating,
     Deleting
<1>9. ASSUME pc \in {"findBinding", "deleteBinding"},
             Continue("writeExpired", Expired(obj)), ~Deleting(obj)
      PROVE  FreshCopyIsStored' /\ ActivationIsSound'
  <2>1. FreshCopyIsStored'
    BY <1>1, <1>2, <1>9 DEF Continue, FreshCopyIsStored, ActivationIsSound,
       Activating, Granted, Expired
  <2>2. ActivationIsSound'
    BY <1>9 DEF Continue, ActivationIsSound, Activating
  <2> QED
    BY <2>1, <2>2
<1>10. CASE LookupBinding(out)
  BY <1>4, <1>5, <1>6, <1>10 DEF LookupBinding
<1>11. CASE CreateBinding(out)
  BY <1>4, <1>6, <1>11 DEF CreateBinding
<1>12. CASE FindBinding(out)
  BY <1>4, <1>7, <1>8, <1>9, <1>12 DEF FindBinding, CleanupFailed, AfterCleanup
<1>13. CASE DeleteBinding(out)
  BY <1>4, <1>8, <1>9, <1>13 DEF DeleteBinding, CleanupFailed, AfterCleanup
<1> QED
  BY <1>10, <1>11, <1>12, <1>13

(* The manager, the clock and a restart. *)
LEMMA ManagerInv ==
  ASSUME TypeOK, IInv, Manager
  PROVE  IInv'
<1>1. ASSUME NEW g \in Grants, CacheSync(g) PROVE IInv'
  <2>1. /\ agCache' = [agCache EXCEPT ![g] = ag[g]] /\ behind' = behind \ {g}
        /\ UNCHANGED <<now, ag, worker>>
    BY <1>1 DEF CacheSync, cluster
  <2>2. FreshCopyIsStored'
    BY <2>1 DEF IInv, FreshCopyIsStored, worker, Granted, Deleting, Rejected,
       AwaitingApproval, Approved, NeedsApproval, Activated, Expired
  <2>3. CacheIsPast'
    BY <2>1 DEF IInv, CacheIsPast, TypeOK, Reconcilable, Exists, Granted
  <2>4. ActiveHasExpiry'
    BY <2>1 DEF IInv, ActiveHasExpiry, TypeOK
  <2>5. ActivationIsSound'
    BY <2>1 DEF IInv, ActivationIsSound, worker, Exists, Deleting, Granted
  <2> QED
    BY <2>2, <2>3, <2>4, <2>5 DEF IInv
<1>2. ASSUME NEW g \in Grants, TimerFire(g) \/ Resync(g) PROVE IInv'
  BY <1>2, QuietInv DEF TimerFire, Resync, cluster, caches
<1>3. ASSUME NEW k \in BindingKeys, BindingSync(k) PROVE IInv'
  BY <1>3, QuietInv DEF BindingSync, cluster
<1>4. ASSUME Tick PROVE IInv'
  <2>1. UNCHANGED <<ag, agCache, behind, worker>> /\ now' = now + 1 /\ now \in Nat
    BY <1>4 DEF Tick, cluster, caches, TypeOK
  <2>2. \A t \in 0..now : t \in 0..now'
    BY <2>1
  <2>3. FreshCopyIsStored'
    BY <2>1, <2>2 DEF IInv, FreshCopyIsStored, worker, Granted, Deleting, Rejected,
       AwaitingApproval, Approved, NeedsApproval, Activated, Expired
  <2>4. ActivationIsSound'
    BY <2>1 DEF IInv, ActivationIsSound, worker, Exists, Deleting, Granted
  <2> QED
    BY <2>1, <2>3, <2>4, StoreUntouchedInv
<1>5. ASSUME Restart PROVE IInv'
  <2>1. ag' = ag /\ agCache' = ag /\ behind' = {}
    BY <1>5 DEF Restart, cluster
  <2>2. CacheIsPast' /\ ActiveHasExpiry'
    BY <2>1 DEF IInv, CacheIsPast, ActiveHasExpiry, Reconcilable, Exists
  <2> QED
    BY <1>5, <2>2, ReturnInv DEF Restart, IInv
<1> QED
  BY <1>1, <1>2, <1>3, <1>4, <1>5 DEF Manager

(* A write of a client: it may delete, but it takes off no finalizer, and  *)
(* it neither expires nor activates a grant.                               *)
LEMMA ClientWriteInv ==
  ASSUME TypeOK, IInv, NEW action, NEW g \in Grants, NEW o \in Objects,
         ClientWrite(action, g, o),
         Exists(g) /\ ag[g].finalizer => o.phase # "absent" /\ o.finalizer,
         o.status.state = "Expired" => ag[g].status.state = "Expired",
         o.status.state = "Active" => o.status.expiresAt # NoTime
  PROVE  IInv'
<1>1. /\ ag' = [ag EXCEPT ![g] = o] /\ behind' = behind \cup {g}
      /\ UNCHANGED <<now, agCache, pc, key, obj>> /\ fresh' = (fresh /\ key # g)
  BY DEF ClientWrite, Store
<1>2. FreshCopyIsStored'
  <2>1. SUFFICES ASSUME fresh'
                 PROVE  FreshCopyIsStored'
    BY DEF FreshCopyIsStored
  <2>2. fresh /\ ag'[key] = ag[key] /\ key # g
    BY <1>1, <2>1 DEF TypeOK
  <2> QED
    BY <1>1, <2>1, <2>2 DEF IInv, FreshCopyIsStored, Granted, Deleting, Rejected,
       AwaitingApproval, Approved, NeedsApproval, Activated, Expired
<1>3. CacheIsPast'
  <2>1. SUFFICES ASSUME NEW h \in Grants
                 PROVE  /\ h \notin behind' => agCache[h] = ag'[h]
                        /\ Reconcilable(agCache[h]) =>
                             /\ ag'[h].phase # "absent" /\ ag'[h].finalizer
                             /\ ag'[h].status.state = "Expired" =>
                                  \/ Granted(agCache[h])
                                  \/ agCache[h].status.state = "Expired"
    BY <1>1 DEF CacheIsPast, Exists, Reconcilable, Granted
  <2>2. CASE h = g
    BY <1>1, <2>2 DEF TypeOK, IInv, CacheIsPast
  <2>3. CASE h # g
    BY <1>1, <2>3 DEF TypeOK, IInv, CacheIsPast, Exists
  <2> QED
    BY <2>2, <2>3
<1>4. ActiveHasExpiry'
  BY <1>1 DEF TypeOK, IInv, ActiveHasExpiry
<1>5. ActivationIsSound'
  <2>1. /\ Exists(key) /\ ag[key].finalizer
             => ag'[key].phase # "absent" /\ ag'[key].finalizer
        /\ ag[key].status.state # "Expired" => ag'[key].status.state # "Expired"
    BY <1>1 DEF TypeOK, Exists
  <2> QED
    BY <1>1, <2>1 DEF IInv, ActivationIsSound, Exists, Deleting, Granted, WithinPolicy,
       MaxTTL
<1> QED
  BY <1>2, <1>3, <1>4, <1>5 DEF IInv

LEMMA ClientsInv ==
  ASSUME TypeOK, IInv, Clients
  PROVE  IInv'
<1>0. \A g \in Grants : /\ ag[g] \in Objects
                        /\ ag[g].status.state = "Active" =>
                             ag[g].status.expiresAt # NoTime
  BY DEF TypeOK, IInv, ActiveHasExpiry
<1>1. ASSUME NEW g \in Grants, NEW s \in Specs, UserCreate(g, s) PROVE IInv'
  BY <1>1, NewObjectType, ClientWriteInv DEF UserCreate
<1>2. ASSUME NEW g \in Grants, NEW s \in Specs, UserEdit(g, s) PROVE IInv'
  <2> DEFINE o == [ag[g] EXCEPT !.spec = s]
  <2>1. /\ o \in Objects /\ o.phase = ag[g].phase /\ o.finalizer = ag[g].finalizer
        /\ o.status = ag[g].status
    BY <1>0 DEF Objects
  <2> HIDE DEF o
  <2>2. \E action : ClientWrite(action, g, o)
    BY <1>2 DEF UserEdit, o
  <2> QED
    BY <1>0, <2>1, <2>2, ClientWriteInv DEF Exists
<1>3. ASSUME NEW g \in Grants, NEW a \in Approvers \cup {NoApprover},
             BrokerAnnotate(g, a)
      PROVE  IInv'
  <2> DEFINE o == [ag[g] EXCEPT !.approver = a]
  <2>1. /\ o \in Objects /\ o.phase = ag[g].phase /\ o.finalizer = ag[g].finalizer
        /\ o.status = ag[g].status
    BY <1>0 DEF Objects
  <2> HIDE DEF o
  <2>2. \E action : ClientWrite(action, g, o)
    BY <1>3 DEF BrokerAnnotate, o
  <2> QED
    BY <1>0, <2>1, <2>2, ClientWriteInv DEF Exists
<1>4. ASSUME NEW g \in Grants, UserDelete(g) PROVE IInv'
  <2>1. CASE ag[g].finalizer
    <3> DEFINE o == [ag[g] EXCEPT !.phase = "deleting"]
    <3>1. /\ o \in Objects /\ o.phase = "deleting" /\ o.finalizer
          /\ o.status = ag[g].status
      BY <1>0, <2>1 DEF Objects
    <3> HIDE DEF o
    <3>2. ClientWrite("delete", g, o)
      BY <1>4, <2>1 DEF UserDelete, o
    <3> QED
      BY <1>0, <3>1, <3>2, ClientWriteInv
  <2>2. CASE ~ag[g].finalizer
    BY <1>4, <2>2, NoObjectType, ClientWriteInv DEF UserDelete
  <2> QED
    BY <2>1, <2>2
<1>5. ASSUME NEW g \in Grants, BrokerRevoke(g) PROVE IInv'
  <2> DEFINE o == [ag[g] EXCEPT !.status.state = "Revoked"]
  <2>1. /\ o \in Objects /\ o.phase = ag[g].phase /\ o.finalizer = ag[g].finalizer
        /\ o.status.state = "Revoked"
    BY <1>0, RevokedType DEF Objects, Statuses
  <2> HIDE DEF o
  <2>2. ClientWrite("revoke", g, o)
    BY <1>5 DEF BrokerRevoke, o
  <2> QED
    BY <2>1, <2>2, ClientWriteInv DEF Exists
<1>6. ASSUME NEW k \in BindingKeys, Unbind(k) PROVE IInv'
  BY <1>6, QuietInv DEF Unbind, caches
<1> QED
  BY <1>1, <1>2, <1>3, <1>4, <1>5, <1>6 DEF Clients

LEMMA NextInv == TypeOK /\ IInv /\ [Next]_vars => IInv'
<1> SUFFICES ASSUME TypeOK, IInv, [Next]_vars PROVE IInv'
  OBVIOUS
<1>1. CASE UNCHANGED vars
  BY <1>1, QuietInv DEF vars, cluster, caches
<1>2. ASSUME NEW out \in Outcomes, Call(out) PROVE IInv'
  BY <1>2, UpdatingCallInv, OtherCallInv DEF Call
<1>3. CASE Next
  BY <1>2, <1>3, NextKinds, ReconcileInv, ManagerInv, ClientsInv
<1> QED
  BY <1>1, <1>3

(* The worker's copy, the cache and the stored grants agree as FreshCopyIs-*)
(* Stored, CacheIsPast, ActiveHasExpiry and ActivationIsSound say, under   *)
(* any interleaving of reconciles, clients, lost answers and restarts.     *)
THEOREM InvariantHolds == Spec => []IInv
<1>1. TypeOK /\ IInv /\ [Next]_vars => (TypeOK /\ IInv)'
  BY NextType, NextInv
<1> QED
  BY <1>1, InitType, InitInv, PTL DEF Spec

-----------------------------------------------------------------------------
(* What a step may do to the status of a grant. *)

(* A grant is activated: the only step that makes a status Active. *)
Activation(g) ==
  /\ pc = "writeActive" /\ fresh /\ key = g /\ ag'[g] = obj

StatusStep(g) ==
  \/ ag'[g].status = ag[g].status
  \/ /\ ag'[g].status.state = ""
     /\ ag[g].phase = "absent" \/ ag'[g].phase = "absent"
  \/ /\ ag[g].status.state \notin Terminal
     /\ ag'[g].status.state \in {"Pending", "PendingApproval", "Revoked"}
  \/ Granted(ag[g]) /\ ag'[g].status.state = "Expired"
  \/ Activation(g)

LEMMA CallStatus ==
  ASSUME TypeOK, IInv, NEW out \in Outcomes, Call(out), NEW g \in Grants
  PROVE  StatusStep(g)
<1>1. obj \in Objects /\ key \in Grants /\ ag[key] \in Objects /\ FreshCopyIsStored
  BY DEF TypeOK, IInv
<1>2. ASSUME NEW o, Update(out, o),
             fresh /\ g = key /\ ag'[key] = o => StatusStep(g)
      PROVE  StatusStep(g)
  BY <1>2 DEF Update, Store, StatusStep, TypeOK
<1>3. CASE AddFinalizer(out)
  <2>1. fresh => obj.status = ag[key].status
    BY <1>1, <1>3 DEF AddFinalizer, FreshCopyIsStored, Objects
  <2> QED
    BY <1>2, <1>3, <2>1 DEF AddFinalizer, StatusStep
<1>4. CASE WriteFailed(out)
  <2>1. fresh => ag[key].status.state \notin Terminal /\ obj.status.state = "Pending"
    BY <1>1, <1>4, RejectedType DEF WriteFailed, FreshCopyIsStored
  <2> QED
    BY <1>2, <1>4, <2>1 DEF WriteFailed, StatusStep
<1>5. CASE WritePending(out)
  <2>1. fresh => /\ ag[key].status.state \notin Terminal
                 /\ obj.status.state = "PendingApproval"
    BY <1>1, <1>5, AwaitingApprovalType DEF WritePending, FreshCopyIsStored
  <2> QED
    BY <1>2, <1>5, <2>1 DEF WritePending, StatusStep
<1>6. CASE WriteActive(out)
  BY <1>2, <1>6 DEF WriteActive, StatusStep, Activation
<1>7. CASE WriteExpired(out)
  <2>1. fresh => Granted(ag[key]) /\ obj.status.state = "Expired"
    BY <1>1, <1>7, ExpiredType DEF WriteExpired, FreshCopyIsStored
  <2> QED
    BY <1>2, <1>7, <2>1 DEF WriteExpired, StatusStep
<1>8. CASE RemoveFinalizer(out)
  BY <1>2, <1>8, NoObjectType DEF RemoveFinalizer, StatusStep
<1>9. CASE \/ LookupBinding(out) \/ CreateBinding(out)
           \/ FindBinding(out) \/ DeleteBinding(out)
  BY <1>9 DEF LookupBinding, CreateBinding, FindBinding, DeleteBinding, StatusStep
<1> QED
  BY <1>3, <1>4, <1>5, <1>6, <1>7, <1>8, <1>9 DEF Call

LEMMA ClientsStatus ==
  ASSUME TypeOK, Clients, NEW g \in Grants
  PROVE  StatusStep(g)
<1>0. \A h \in Grants : ag[h] \in Objects
  BY DEF TypeOK
<1>1. ASSUME NEW action, NEW h \in Grants, NEW o, ClientWrite(action, h, o),
             g = h /\ ag'[h] = o => StatusStep(g)
      PROVE  StatusStep(g)
  BY <1>1 DEF ClientWrite, Store, StatusStep, TypeOK
<1>2. ASSUME NEW h \in Grants, NEW s \in Specs, UserCreate(h, s) PROVE StatusStep(g)
  BY <1>1, <1>2, NewObjectType DEF UserCreate, Exists, StatusStep
<1>3. ASSUME NEW h \in Grants, NEW s \in Specs, UserEdit(h, s) PROVE StatusStep(g)
  <2>1. [ag[h] EXCEPT !.spec = s].status = ag[h].status
    BY <1>0 DEF Objects
  <2> QED
    BY <1>1, <1>3, <2>1 DEF UserEdit, StatusStep
<1>4. ASSUME NEW h \in Grants, NEW a \in Approvers \cup {NoApprover},
             BrokerAnnotate(h, a)
      PROVE  StatusStep(g)
  <2>1. [ag[h] EXCEPT !.approver = a].status = ag[h].status
    BY <1>0 DEF Objects
  <2> QED
    BY <1>1, <1>4, <2>1 DEF BrokerAnnotate, StatusStep
<1>5. ASSUME NEW h \in Grants, UserDelete(h) PROVE StatusStep(g)
  <2>1. [ag[h] EXCEPT !.phase = "deleting"].status = ag[h].status
    BY <1>0 DEF Objects
  <2> QED
    BY <1>1, <1>5, <2>1, NoObjectType DEF UserDelete, StatusStep
<1>6. ASSUME NEW h \in Grants, BrokerRevoke(h) PROVE StatusStep(g)
  <2>1. [ag[h] EXCEPT !.status.state = "Revoked"].status.state = "Revoked"
    BY <1>0 DEF Objects, Statuses
  <2> QED
    BY <1>1, <1>6, <2>1 DEF BrokerRevoke, StatusStep
<1>7. ASSUME NEW k \in BindingKeys, Unbind(k) PROVE StatusStep(g)
  BY <1>7 DEF Unbind, StatusStep
<1> QED
  BY <1>2, <1>3, <1>4, <1>5, <1>6, <1>7 DEF Clients

LEMMA NextStatus ==
  ASSUME TypeOK, IInv, [Next]_vars, NEW g \in Grants
  PROVE  StatusStep(g)
<1>1. CASE ag' = ag
  BY <1>1 DEF StatusStep
<1>2. ASSUME NEW h \in Grants, Reconcile(h) PROVE ag' = ag
  BY <1>2 DEF Reconcile, ReconcileNothing, ReconcileDeletion, ReconcileAddFinalizer,
     ReconcileReject, ReconcileStillActive, ReconcileExpire, ReconcileAwaitApproval,
     ReconcileActivate, Start, Take, cluster
<1>3. ASSUME Manager PROVE ag' = ag
  BY <1>3 DEF Manager, CacheSync, TimerFire, Resync, BindingSync, Tick, Restart,
     cluster
<1>4. CASE UNCHANGED vars
  BY <1>1, <1>4 DEF vars, cluster
<1> QED
  BY <1>1, <1>2, <1>3, <1>4, CallStatus, ClientsStatus, NextKinds

-----------------------------------------------------------------------------
(* The properties. *)

(* Access is never renewed in place: between two steps in which a grant is *)
(* active its expiry is the same, whatever the caches show.                *)
THEOREM ExpiryIsFixed == Spec => ExpiryNeverExtended
<1>1. ASSUME TypeOK, IInv, [Next]_vars, NEW g \in Grants,
             ag[g].status.state = "Active", ag'[g].status.state = "Active"
      PROVE  ag'[g].status.expiresAt = ag[g].status.expiresAt
  <2>1. StatusStep(g)
    BY <1>1, NextStatus
  <2>2. ~Activation(g)
    BY <1>1 DEF Activation, IInv, FreshCopyIsStored, Activating
  <2> QED
    BY <1>1, <2>1, <2>2 DEF StatusStep
<1>2. TypeOK /\ IInv /\ [Next]_vars =>
        [\A g \in Grants :
           ag[g].status.state = "Active" /\ ag'[g].status.state = "Active"
             => ag'[g].status.expiresAt = ag[g].status.expiresAt]_vars
  BY <1>1
<1> QED
  BY <1>2, TypeCorrect, InvariantHolds, PTL DEF Spec, ExpiryNeverExtended

(* Expired and Revoked are final for the life of the object.               *)
THEOREM TerminalIsStable == Spec => TerminalStable
<1>1. ASSUME TypeOK, IInv, [Next]_vars, NEW g \in Grants,
             Exists(g), ag[g].status.state \in Terminal, ag'[g].phase # "absent"
      PROVE  ag'[g].status.state = ag[g].status.state
  <2>1. StatusStep(g)
    BY <1>1, NextStatus
  <2>2. ~Activation(g)
    BY <1>1 DEF Activation, IInv, FreshCopyIsStored, Activating
  <2> QED
    BY <1>1, <2>1, <2>2 DEF StatusStep, Exists, Granted, Terminal
<1>2. TypeOK /\ IInv /\ [Next]_vars =>
        [\A g \in Grants :
           Exists(g) /\ ag[g].status.state \in Terminal /\ ag'[g].phase # "absent"
             => ag'[g].status.state = ag[g].status.state]_vars
  BY <1>1
<1> QED
  BY <1>2, TypeCorrect, InvariantHolds, PTL DEF Spec, TerminalStable

(* A grant becomes active only by an update computed from the stored grant,*)
(* which is within policy, approved if it is for production, and given no  *)
(* more time than the limit of its environment.                            *)
THEOREM ActivationIsWithinPolicy == Spec => ActivationRespectsPolicy
<1>1. ASSUME TypeOK, IInv, [Next]_vars, NEW g \in Grants,
             ag[g].status.state # "Active", ag'[g].status.state = "Active"
      PROVE  /\ WithinPolicy(ag[g].spec)
             /\ ag[g].spec.environment = "prod" =>
                  /\ ag[g].approver # NoApprover
                  /\ ag'[g].status.approvedBy = ag[g].approver
             /\ ag'[g].status.expiresAt <= now + MaxTTL(ag[g].spec)
  <2>1. Activation(g)
    BY <1>1, NextStatus DEF StatusStep
  <2>2. ag[g] \in Objects /\ now \in Nat
    BY <1>1 DEF TypeOK
  <2>3. PICK t \in 0..now : obj = Activated(Approved(ag[g]), t)
    BY <1>1, <2>1 DEF Activation, IInv, FreshCopyIsStored
  <2>4. /\ obj.spec = ag[g].spec /\ obj.approver = ag[g].approver
        /\ obj.status.expiresAt = t + ag[g].spec.ttl
    BY <2>2, <2>3, ApprovedType, ActivatedType
  <2>5. /\ WithinPolicy(obj.spec)
        /\ obj.spec.environment = "prod" =>
             obj.approver # NoApprover /\ obj.status.approvedBy = obj.approver
    BY <1>1, <2>1 DEF Activation, IInv, ActivationIsSound, Activating
  <2>6. ag[g].spec.ttl \in Int /\ MaxTTL(ag[g].spec) \in Int
    BY <2>2, SpecsAssumption, BoundsAssumption DEF Objects, SpecType, MaxTTL
  <2>7. t + ag[g].spec.ttl <= now + MaxTTL(ag[g].spec)
    BY <2>2, <2>4, <2>5, <2>6 DEF WithinPolicy
  <2> QED
    BY <2>1, <2>4, <2>5, <2>7 DEF Activation
<1>2. TypeOK /\ IInv /\ [Next]_vars =>
        [\A g \in Grants : LET o == ag[g] IN
           o.status.state # "Active" /\ ag'[g].status.state = "Active" =>
             /\ WithinPolicy(o.spec)
             /\ o.spec.environment = "prod" =>
                  /\ o.approver # NoApprover
                  /\ ag'[g].status.approvedBy = o.approver
             /\ ag'[g].status.expiresAt <= now + MaxTTL(o.spec)]_vars
  BY <1>1
<1> QED
  BY <1>2, TypeCorrect, InvariantHolds, PTL DEF Spec, ActivationRespectsPolicy

(* The only step that makes a RoleBinding appear is the Create of step 7.  *)
LEMMA BindingCreation ==
  ASSUME TypeOK, [Next]_vars, NEW k \in BindingKeys,
         rb[k] = NoBinding, rb'[k] # NoBinding
  PROVE  pc = "createBinding" /\ k = BindingKey(key, obj.spec)
<1>1. ASSUME NEW g \in Grants, Reconcile(g) PROVE rb' = rb
  BY <1>1 DEF Reconcile, ReconcileNothing, ReconcileDeletion, ReconcileAddFinalizer,
     ReconcileReject, ReconcileStillActive, ReconcileExpire, ReconcileAwaitApproval,
     ReconcileActivate, Start, Take, cluster
<1>2. ASSUME Manager PROVE rb' = rb
  BY <1>2 DEF Manager, CacheSync, TimerFire, Resync, BindingSync, Tick, Restart,
     cluster
<1>3. ASSUME Clients PROVE rb'[k] = NoBinding
  BY <1>3 DEF Clients, UserCreate, UserEdit, UserDelete, BrokerAnnotate, BrokerRevoke,
     ClientWrite, Unbind, TypeOK
<1>4. ASSUME NEW out \in Outcomes, Call(out)
      PROVE  pc = "createBinding" /\ k = BindingKey(key, obj.spec)
  <2>1. CASE CreateBinding(out)
    BY <2>1 DEF CreateBinding, TypeOK
  <2>2. CASE DeleteBinding(out)
    BY <2>2 DEF DeleteBinding, TypeOK
  <2>3. CASE ~CreateBinding(out) /\ ~DeleteBinding(out)
    BY <1>4, <2>3 DEF Call, AddFinalizer, WriteFailed, WritePending, LookupBinding,
       WriteActive, FindBinding, WriteExpired, RemoveFinalizer
  <2> QED
    BY <2>1, <2>2, <2>3
<1>5. CASE UNCHANGED vars
  BY <1>5 DEF vars, cluster
<1> QED
  BY <1>1, <1>2, <1>3, <1>4, <1>5, NextKinds

(* Whenever a RoleBinding appears, the grant it is made for exists and     *)
(* holds the finalizer: no binding is created without a cleanup to come.   *)
THEOREM BindingIsUnderFinalizer == Spec => BindingCreatedUnderFinalizer
<1>1. ASSUME TypeOK, IInv, [Next]_vars, NEW k \in BindingKeys,
             rb[k] = NoBinding, rb'[k] # NoBinding
      PROVE  \E g \in Grants : g.name = k[1] /\ Exists(g) /\ ag[g].finalizer
  <2>1. pc = "createBinding" /\ k[1] = key.name /\ key \in Grants
    BY <1>1, BindingCreation DEF BindingKey, TypeOK
  <2>2. Exists(key) /\ ag[key].finalizer
    BY <1>1, <2>1 DEF IInv, ActivationIsSound, Activating
  <2> QED
    BY <2>1, <2>2
<1>2. TypeOK /\ IInv /\ [Next]_vars =>
        [\A k \in BindingKeys :
           rb[k] = NoBinding /\ rb'[k] # NoBinding =>
             \E g \in Grants : g.name = k[1] /\ Exists(g) /\ ag[g].finalizer]_vars
  BY <1>1
<1> QED
  BY <1>2, TypeCorrect, InvariantHolds, PTL DEF Spec, BindingCreatedUnderFinalizer

(* No stale event brings the RoleBinding of an expired grant back.         *)
THEOREM ExpiredIsNotResurrected == Spec => NoResurrection
<1>1. TypeOK /\ IInv /\ [Next]_vars =>
        [rb' # rb /\ pc = "createBinding" => ag[key].status.state # "Expired"]_vars
  BY DEF IInv, ActivationIsSound, Activating
<1> QED
  BY <1>1, TypeCorrect, InvariantHolds, PTL DEF Spec, NoResurrection

=============================================================================
