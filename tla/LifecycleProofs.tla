-------------------------- MODULE LifecycleProofs --------------------------
(* AccessGrant implements GrantLifecycle, no active grant is forgotten     *)
(* before it expires, and the RoleBinding of a grant is there while the    *)
(* access is, for all constants.                                           *)
EXTENDS AccessGrantProofs

-----------------------------------------------------------------------------
(* What the worker is about to write was due when it decided, and still    *)
(* is: the copy it decided on stays the same, and time does not turn back. *)

Due(o) == o.status.expiresAt # NoTime /\ now >= o.status.expiresAt

DecisionIsDue ==
  /\ pc = "writeFailed" => ~WithinPolicy(obj.spec)
  /\ pc = "writePending" => /\ WithinPolicy(obj.spec)
                            /\ obj.spec.environment = "prod"
                            /\ obj.approver = NoApprover
  /\ pc \in {"findBinding", "deleteBinding"} => Deleting(obj) \/ Due(obj)
  /\ pc = "writeExpired" => Due(obj)

LEMMA SameDecisionIsDue ==
  ASSUME TypeOK, DecisionIsDue, UNCHANGED <<pc, obj>>,
         now' = now \/ now' = now + 1
  PROVE  DecisionIsDue'
<1>1. now \in Int /\ obj.status.expiresAt \in Int \cup {NoTime}
  BY DEF TypeOK, Objects, Statuses
<1>2. Due(obj) => Due(obj)'
  BY <1>1, NilAssumption DEF Due
<1> QED
  BY <1>2 DEF DecisionIsDue, WithinPolicy, MaxTTL, Deleting

LEMMA NoDecisionIsDue ==
  ASSUME pc' \in {"idle", "addFinalizer", "lookupBinding", "createBinding",
                  "writeActive", "removeFinalizer"}
  PROVE  DecisionIsDue'
  BY DEF DecisionIsDue

LEMMA ReconcileIsDue ==
  ASSUME TypeOK, DecisionIsDue, NEW g \in Grants, Reconcile(g)
  PROVE  DecisionIsDue'
<1> DEFINE o == agCache[g]
<1>1. o \in Objects
  BY DEF TypeOK
<1>2. ASSUME Take(g), UNCHANGED worker PROVE DecisionIsDue'
  BY <1>2, SameDecisionIsDue DEF Take, worker
<1>3. CASE ReconcileNothing(g) \/ ReconcileStillActive(g)
  BY <1>2, <1>3 DEF ReconcileNothing, ReconcileStillActive
<1>4. CASE ReconcileDeletion(g)
  BY <1>4 DEF ReconcileDeletion, Start, DecisionIsDue, Deleting
<1>5. CASE ReconcileAddFinalizer(g) \/ ReconcileActivate(g)
  BY <1>5, NoDecisionIsDue DEF ReconcileAddFinalizer, ReconcileActivate, Start
<1>6. CASE ReconcileReject(g)
  <2>1. Rejected(o).spec = o.spec
    BY <1>1 DEF Rejected, Objects
  <2> QED
    BY <1>6, <2>1 DEF ReconcileReject, Start, DecisionIsDue, WithinPolicy, MaxTTL
<1>7. CASE ReconcileExpire(g)
  <2>1. Expired(o).status.expiresAt = o.status.expiresAt
    BY <1>1 DEF Expired, Objects, Statuses
  <2>2. Due(o) /\ now' = now
    BY <1>7 DEF ReconcileExpire, Granted, Due, Start, Take
  <2>3. \/ pc' = "findBinding" /\ obj' = o
        \/ pc' = "writeExpired" /\ obj' = Expired(o)
    BY <1>7 DEF ReconcileExpire, Start
  <2> QED
    BY <2>1, <2>2, <2>3 DEF DecisionIsDue, Due
<1>8. CASE ReconcileAwaitApproval(g)
  <2>1. /\ AwaitingApproval(o).spec = o.spec
        /\ AwaitingApproval(o).approver = o.approver
    BY <1>1 DEF AwaitingApproval, Objects
  <2>2. /\ WithinPolicy(o.spec) /\ o.spec.environment = "prod"
        /\ o.approver = NoApprover
    BY <1>8 DEF ReconcileAwaitApproval, Valid, NeedsApproval
  <2>3. \/ Take(g) /\ UNCHANGED worker
        \/ pc' = "writePending" /\ obj' = AwaitingApproval(o)
    BY <1>8 DEF ReconcileAwaitApproval, Start
  <2> QED
    BY <1>2, <2>1, <2>2, <2>3 DEF DecisionIsDue, WithinPolicy, MaxTTL
<1> QED
  BY <1>3, <1>4, <1>5, <1>6, <1>7, <1>8 DEF Reconcile

LEMMA CallIsDue ==
  ASSUME TypeOK, DecisionIsDue, NEW out \in Outcomes, Call(out)
  PROVE  DecisionIsDue'
<1>1. obj \in Objects /\ now' = now
  BY DEF TypeOK, Call, AddFinalizer, WriteFailed, WritePending, LookupBinding,
     CreateBinding, WriteActive, FindBinding, DeleteBinding, WriteExpired,
     RemoveFinalizer, Ends
<1>2. ASSUME Return PROVE DecisionIsDue'
  BY <1>2, NoDecisionIsDue DEF Return
<1>3. CASE AddFinalizer(out) \/ WriteFailed(out) \/ WritePending(out)
           \/ WriteActive(out) \/ WriteExpired(out) \/ RemoveFinalizer(out)
  BY <1>2, <1>3 DEF AddFinalizer, WriteFailed, WritePending, WriteActive,
     WriteExpired, RemoveFinalizer, Done, Requeue, RequeueAt
<1>4. CASE LookupBinding(out) \/ CreateBinding(out)
  <2>1. Requeue \/ pc' \in {"createBinding", "writeActive"}
    BY <1>4 DEF LookupBinding, CreateBinding, Continue
  <2> QED
    BY <1>2, <2>1, NoDecisionIsDue DEF Requeue
<1>5. ASSUME pc \in {"findBinding", "deleteBinding"}, AfterCleanup
      PROVE  DecisionIsDue'
  <2>1. Expired(obj).status.expiresAt = obj.status.expiresAt
    BY <1>1 DEF Expired, Objects, Statuses
  <2>2. CASE Deleting(obj)
    BY <1>5, <2>2, NoDecisionIsDue DEF AfterCleanup, Continue
  <2>3. CASE ~Deleting(obj)
    BY <1>1, <1>5, <2>1, <2>3 DEF AfterCleanup, Continue, DecisionIsDue, Due
  <2> QED
    BY <2>2, <2>3
<1>6. ASSUME CleanupFailed PROVE DecisionIsDue'
  BY <1>2, <1>6, NoDecisionIsDue DEF CleanupFailed, Continue, Requeue
<1>7. CASE FindBinding(out)
  <2>1. CleanupFailed \/ AfterCleanup \/ Continue("deleteBinding", obj)
    BY <1>7 DEF FindBinding
  <2>2. ASSUME Continue("deleteBinding", obj) PROVE DecisionIsDue'
    BY <1>1, <1>7, <2>2 DEF FindBinding, Continue, DecisionIsDue, Due, Deleting
  <2> QED
    BY <1>5, <1>6, <1>7, <2>1, <2>2 DEF FindBinding
<1>8. CASE DeleteBinding(out)
  BY <1>5, <1>6, <1>8 DEF DeleteBinding
<1> QED
  BY <1>3, <1>4, <1>7, <1>8 DEF Call

LEMMA NextIsDue ==
  ASSUME TypeOK, DecisionIsDue, [Next]_vars
  PROVE  DecisionIsDue'
<1>1. CASE UNCHANGED vars
  BY <1>1, SameDecisionIsDue DEF vars, worker
<1>2. CASE Manager
  <2>1. CASE Restart
    BY <2>1, NoDecisionIsDue DEF Restart, Return
  <2>2. CASE ~Restart
    BY <1>2, <2>2, SameDecisionIsDue
       DEF Manager, CacheSync, TimerFire, Resync, BindingSync, Tick, worker
  <2> QED
    BY <2>1, <2>2
<1>3. CASE Clients
  BY <1>3, SameDecisionIsDue DEF Clients, UserCreate, UserEdit, UserDelete,
     BrokerAnnotate, BrokerRevoke, ClientWrite, Unbind, worker
<1> QED
  BY <1>1, <1>2, <1>3, NextKinds, ReconcileIsDue, CallIsDue

-----------------------------------------------------------------------------
(* The refinement mapping. *)

StoredGrants == [g \in Grants |-> View(ag[g])]

(* The view of an object that exists is a record of five fields. *)
LEMMA ViewOfPresent ==
  ASSUME NEW o \in Objects, o.phase # "absent"
  PROVE  /\ View(o) # Absent
         /\ View(o).spec = o.spec /\ View(o).approver = o.approver
         /\ View(o).state = o.status.state
         /\ View(o).expiresAt = o.status.expiresAt
         /\ View(o).approvedBy = o.status.approvedBy
<1>1. View(o) = [spec |-> o.spec, approver |-> o.approver, state |-> o.status.state,
                 expiresAt |-> o.status.expiresAt, approvedBy |-> o.status.approvedBy]
  BY DEF View
<1>2. DOMAIN View(o) # DOMAIN Absent
  BY <1>1 DEF Absent
<1> QED
  BY <1>1, <1>2

(* A write of one grant, seen through the mapping. *)
LEMMA WriteIsBecoming ==
  ASSUME TypeOK, NEW g \in Grants, NEW o, ag' = [ag EXCEPT ![g] = o], now' = now,
         NEW r, View(o) = r
  PROVE  Lifecycle!Becomes(g, r)
<1>1. StoredGrants' = [StoredGrants EXCEPT ![g] = r]
  BY DEF TypeOK, StoredGrants
<1> QED
  BY <1>1 DEF Lifecycle!Becomes, StoredGrants

(* A write that leaves the view of its grant as it is shows nothing. *)
LEMMA SameViewIsStutter ==
  ASSUME TypeOK, NEW g \in Grants, NEW o, ag' = [ag EXCEPT ![g] = o], now' = now,
         View(o) = View(ag[g])
  PROVE  UNCHANGED Lifecycle!vars
<1>1. StoredGrants' = StoredGrants
  BY DEF TypeOK, StoredGrants
<1> QED
  BY <1>1 DEF Lifecycle!vars, StoredGrants

LEMMA CallRefines ==
  ASSUME TypeOK, IInv, DecisionIsDue, NEW out \in Outcomes, Call(out)
  PROVE  Lifecycle!Next \/ UNCHANGED Lifecycle!vars
<1> DEFINE o == ag[key]
<1>1. /\ key \in Grants /\ o \in Objects /\ obj \in Objects /\ now \in Nat
      /\ FreshCopyIsStored /\ ActivationIsSound
  BY DEF TypeOK, IInv
<1>2. now' = now
  BY DEF Call, AddFinalizer, WriteFailed, WritePending, LookupBinding,
     CreateBinding, WriteActive, FindBinding, DeleteBinding, WriteExpired,
     RemoveFinalizer, Ends
<1>3. CASE ag' = ag
  BY <1>2, <1>3 DEF Lifecycle!vars
<1>4. ASSUME NEW c, Update(out, c), ag' # ag
      PROVE  fresh /\ ag' = [ag EXCEPT ![key] = c]
  BY <1>4 DEF Update, Store
<1>5. CASE AddFinalizer(out) /\ ag' # ag
  <2>1. fresh /\ ag' = [ag EXCEPT ![key] = obj] /\ obj = [o EXCEPT !.finalizer = TRUE]
    BY <1>1, <1>4, <1>5 DEF AddFinalizer, FreshCopyIsStored
  <2>2. View(obj) = View(o)
    BY <1>1, <2>1 DEF View, Objects
  <2> QED
    BY <1>1, <1>2, <2>1, <2>2, SameViewIsStutter
<1>6. CASE WriteFailed(out) /\ ag' # ag
  <2>1. /\ fresh /\ ag' = [ag EXCEPT ![key] = obj] /\ obj = Rejected(o)
        /\ o.status.state \notin Terminal /\ ~WithinPolicy(obj.spec)
    BY <1>1, <1>4, <1>6 DEF WriteFailed, FreshCopyIsStored, DecisionIsDue
  <2>2. obj.spec = o.spec /\ obj.phase = o.phase
    BY <1>1, <2>1 DEF Rejected, Objects
  <2>3. CASE o.phase = "absent"
    BY <1>1, <1>2, <2>1, <2>2, <2>3, SameViewIsStutter DEF View
  <2>4. CASE o.phase # "absent"
    <3>1. View(obj) = [View(o) EXCEPT !.state = "Pending"]
      BY <1>1, <2>1, <2>2, <2>4 DEF View, Rejected, Objects, Statuses
    <3>2. Lifecycle!Becomes(key, [View(o) EXCEPT !.state = "Pending"])
      BY <1>1, <1>2, <2>1, <3>1, WriteIsBecoming
    <3>3. Lifecycle!Reject(key)
      BY <1>1, <2>1, <2>2, <2>4, <3>2, ViewOfPresent
         DEF Lifecycle!Reject, Lifecycle!Present, Lifecycle!Terminal, Terminal,
             Lifecycle!Becomes
    <3> QED
      BY <1>1, <3>3 DEF Lifecycle!Next, Lifecycle!Decide
  <2> QED
    BY <2>3, <2>4
<1>7. CASE WritePending(out) /\ ag' # ag
  <2>1. /\ fresh /\ ag' = [ag EXCEPT ![key] = obj] /\ obj = AwaitingApproval(o)
        /\ o.status.state \notin Terminal \cup {"Active"}
        /\ WithinPolicy(obj.spec) /\ obj.spec.environment = "prod"
        /\ obj.approver = NoApprover
    BY <1>1, <1>4, <1>7 DEF WritePending, FreshCopyIsStored, DecisionIsDue
  <2>2. /\ obj.spec = o.spec /\ obj.phase = o.phase /\ obj.approver = o.approver
        /\ o.spec \in Specs
    BY <1>1, <2>1 DEF AwaitingApproval, Objects
  <2>3. CASE o.phase = "absent"
    BY <1>1, <1>2, <2>1, <2>2, <2>3, SameViewIsStutter DEF View
  <2>4. CASE o.phase # "absent"
    <3>1. View(obj) = [View(o) EXCEPT !.state = "PendingApproval"]
      BY <1>1, <2>1, <2>2, <2>4 DEF View, AwaitingApproval, Objects, Statuses
    <3>2. Lifecycle!Becomes(key, [View(o) EXCEPT !.state = "PendingApproval"])
      BY <1>1, <1>2, <2>1, <3>1, WriteIsBecoming
    <3>3. Lifecycle!AwaitApproval(key)
      BY <1>1, <2>1, <2>2, <2>4, <3>2, ViewOfPresent
         DEF Lifecycle!AwaitApproval, Lifecycle!Undecided, Lifecycle!Production,
             Lifecycle!Present, Lifecycle!Terminal, Terminal,
             Lifecycle!Becomes
    <3> QED
      BY <1>1, <3>3 DEF Lifecycle!Next, Lifecycle!Decide
  <2> QED
    BY <2>3, <2>4
<1>8. CASE WriteActive(out) /\ ag' # ag
  <2>1. /\ fresh /\ ag' = [ag EXCEPT ![key] = obj]
        /\ o.status.state \notin Terminal \cup {"Active"}
        /\ \E t \in 0..now : obj = Activated(Approved(o), t)
    BY <1>1, <1>4, <1>8 DEF WriteActive, FreshCopyIsStored, Activating
  <2>2. PICK t \in 0..now : obj = Activated(Approved(o), t)
    BY <2>1
  <2>3. /\ obj.spec = o.spec /\ obj.approver = o.approver /\ obj.phase = o.phase
        /\ o.spec \in Specs
    BY <1>1, <2>2 DEF Activated, Approved, Objects, Statuses
  <2>4. /\ o.phase # "absent" /\ WithinPolicy(o.spec)
        /\ o.spec.environment = "prod" => o.approver # NoApprover
    BY <1>1, <1>8, <2>3 DEF WriteActive, ActivationIsSound, Activating, Exists
  <2>5. View(obj) = Lifecycle!Granted(View(o), t)
    <3>1. /\ obj.status.state = "Active" /\ obj.status.expiresAt = t + o.spec.ttl
          /\ obj.status.approvedBy = IF o.spec.environment = "prod"
                                     THEN o.approver ELSE o.status.approvedBy
      BY <1>1, <2>1, <2>2 DEF Activated, Approved, NeedsApproval, Objects, Statuses
    <3> QED
      BY <1>1, <2>3, <2>4, <3>1, ViewOfPresent DEF View, Lifecycle!Granted
  <2>6. Lifecycle!Becomes(key, Lifecycle!Granted(View(o), t))
    BY <1>1, <1>2, <2>1, <2>5, WriteIsBecoming
  <2>7. Lifecycle!Activate(key)
    BY <1>1, <2>1, <2>3, <2>4, <2>6, ViewOfPresent
       DEF Lifecycle!Activate, Lifecycle!Undecided, Lifecycle!Production,
           Lifecycle!Present, Lifecycle!Terminal, Terminal, Lifecycle!Becomes
  <2> QED
    BY <1>1, <2>7 DEF Lifecycle!Next, Lifecycle!Decide
<1>9. CASE WriteExpired(out) /\ ag' # ag
  <2>1. /\ fresh /\ ag' = [ag EXCEPT ![key] = obj] /\ obj = Expired(o)
        /\ o.status.state = "Active" /\ Due(obj)
    BY <1>1, <1>4, <1>9 DEF WriteExpired, FreshCopyIsStored, DecisionIsDue, Granted
  <2>2. obj.phase = o.phase /\ Due(o)
    BY <1>1, <2>1 DEF Expired, Objects, Statuses, Due
  <2>3. CASE o.phase = "absent"
    BY <1>1, <1>2, <2>1, <2>2, <2>3, SameViewIsStutter DEF View
  <2>4. CASE o.phase # "absent"
    <3>1. View(obj) = [View(o) EXCEPT !.state = "Expired"]
      BY <1>1, <2>1, <2>2, <2>4 DEF View, Expired, Objects, Statuses
    <3>2. Lifecycle!Becomes(key, [View(o) EXCEPT !.state = "Expired"])
      BY <1>1, <1>2, <2>1, <3>1, WriteIsBecoming
    <3>3. Lifecycle!Expire(key)
      BY <1>1, <2>1, <2>2, <2>4, <3>2, ViewOfPresent
         DEF Lifecycle!Expire, Lifecycle!Present, Due,
             Lifecycle!Becomes
    <3> QED
      BY <1>1, <3>3 DEF Lifecycle!Next, Lifecycle!Decide
  <2> QED
    BY <2>3, <2>4
<1>10. CASE RemoveFinalizer(out) /\ ag' # ag
  <2>1. fresh /\ ag' = [ag EXCEPT ![key] = NoObject] /\ o.phase # "absent"
    BY <1>1, <1>4, <1>10 DEF RemoveFinalizer, FreshCopyIsStored, Deleting
  <2>2. View(NoObject) = Absent
    BY NoObjectType DEF View
  <2>3. Lifecycle!Remove(key)
    BY <1>1, <1>2, <2>1, <2>2, ViewOfPresent, WriteIsBecoming
       DEF Lifecycle!Remove, Lifecycle!Present
  <2> QED
    BY <1>1, <2>3 DEF Lifecycle!Next
<1>11. CASE LookupBinding(out) \/ CreateBinding(out)
            \/ FindBinding(out) \/ DeleteBinding(out)
  BY <1>3, <1>11 DEF LookupBinding, CreateBinding, FindBinding, DeleteBinding
<1> QED
  BY <1>3, <1>5, <1>6, <1>7, <1>8, <1>9, <1>10, <1>11 DEF Call

LEMMA ClientsRefine ==
  ASSUME TypeOK, Clients
  PROVE  Lifecycle!Next \/ UNCHANGED Lifecycle!vars
<1>0. \A g \in Grants : ag[g] \in Objects
  BY DEF TypeOK
<1>1. ASSUME NEW action, NEW g \in Grants, NEW o, ClientWrite(action, g, o)
      PROVE  ag' = [ag EXCEPT ![g] = o] /\ now' = now
  BY <1>1 DEF ClientWrite, Store
<1>2. ASSUME NEW g \in Grants, NEW s \in Specs, UserCreate(g, s)
      PROVE  Lifecycle!Next
  <2>1. ag' = [ag EXCEPT ![g] = NewObject(s)] /\ now' = now /\ View(ag[g]) = Absent
    BY <1>1, <1>2 DEF UserCreate, Exists, View
  <2>2. View(NewObject(s)) = [spec |-> s, approver |-> NoApprover, state |-> "",
                              expiresAt |-> NoTime, approvedBy |-> NoApprover]
    BY DEF View, NewObject, NoStatus
  <2>3. Lifecycle!Create(g, s)
    BY <2>1, <2>2, WriteIsBecoming DEF Lifecycle!Create, Lifecycle!Present
  <2> QED
    BY <2>3 DEF Lifecycle!Next
<1>3. ASSUME NEW g \in Grants, NEW s \in Specs, UserEdit(g, s)
      PROVE  Lifecycle!Next
  <2> DEFINE o == [ag[g] EXCEPT !.spec = s]
  <2>1. ag' = [ag EXCEPT ![g] = o] /\ now' = now /\ ag[g].phase # "absent"
    BY <1>1, <1>3 DEF UserEdit, Exists
  <2>2. View(o) = [View(ag[g]) EXCEPT !.spec = s]
    BY <1>0, <2>1 DEF View, Objects
  <2>3. Lifecycle!Becomes(g, [View(ag[g]) EXCEPT !.spec = s])
    BY <2>1, <2>2, WriteIsBecoming
  <2>4. Lifecycle!Edit(g, s)
    BY <1>0, <2>1, <2>3, ViewOfPresent
       DEF Lifecycle!Edit, Lifecycle!Present, Lifecycle!Becomes
  <2> QED
    BY <2>4 DEF Lifecycle!Next
<1>4. ASSUME NEW g \in Grants, NEW a \in Approvers \cup {NoApprover},
             BrokerAnnotate(g, a)
      PROVE  Lifecycle!Next
  <2> DEFINE o == [ag[g] EXCEPT !.approver = a]
  <2>1. ag' = [ag EXCEPT ![g] = o] /\ now' = now /\ ag[g].phase # "absent"
    BY <1>1, <1>4 DEF BrokerAnnotate, Exists
  <2>2. View(o) = [View(ag[g]) EXCEPT !.approver = a]
    BY <1>0, <2>1 DEF View, Objects
  <2>3. Lifecycle!Becomes(g, [View(ag[g]) EXCEPT !.approver = a])
    BY <2>1, <2>2, WriteIsBecoming
  <2>4. Lifecycle!Annotate(g, a)
    BY <1>0, <2>1, <2>3, ViewOfPresent
       DEF Lifecycle!Annotate, Lifecycle!Present, Lifecycle!Becomes
  <2> QED
    BY <2>4 DEF Lifecycle!Next
<1>5. ASSUME NEW g \in Grants, UserDelete(g)
      PROVE  Lifecycle!Next \/ UNCHANGED Lifecycle!vars
  <2>1. CASE ag[g].finalizer
    <3> DEFINE o == [ag[g] EXCEPT !.phase = "deleting"]
    <3>1. ag' = [ag EXCEPT ![g] = o] /\ now' = now /\ ag[g].phase # "absent"
      BY <1>1, <1>5, <2>1 DEF UserDelete
    <3>2. View(o) = View(ag[g])
      BY <1>0, <3>1 DEF View, Objects
    <3> QED
      BY <3>1, <3>2, SameViewIsStutter
  <2>2. CASE ~ag[g].finalizer
    <3>1. /\ ag' = [ag EXCEPT ![g] = NoObject] /\ now' = now
          /\ ag[g].phase # "absent"
      BY <1>1, <1>5, <2>2 DEF UserDelete
    <3>2. View(NoObject) = Absent
      BY NoObjectType DEF View
    <3>3. Lifecycle!Remove(g)
      BY <1>0, <3>1, <3>2, ViewOfPresent, WriteIsBecoming
         DEF Lifecycle!Remove, Lifecycle!Present
    <3> QED
      BY <3>3 DEF Lifecycle!Next
  <2> QED
    BY <2>1, <2>2
<1>6. ASSUME NEW g \in Grants, BrokerRevoke(g) PROVE Lifecycle!Next
  <2> DEFINE o == [ag[g] EXCEPT !.status.state = "Revoked"]
  <2>1. /\ ag' = [ag EXCEPT ![g] = o] /\ now' = now /\ ag[g].phase # "absent"
        /\ ag[g].status.state \notin Terminal
    BY <1>1, <1>6 DEF BrokerRevoke, Exists
  <2>2. View(o) = [View(ag[g]) EXCEPT !.state = "Revoked"]
    BY <1>0, <2>1 DEF View, Objects, Statuses
  <2>3. Lifecycle!Becomes(g, [View(ag[g]) EXCEPT !.state = "Revoked"])
    BY <2>1, <2>2, WriteIsBecoming
  <2>4. Lifecycle!Revoke(g)
    BY <1>0, <2>1, <2>3, ViewOfPresent
       DEF Lifecycle!Revoke, Lifecycle!Present, Lifecycle!Becomes,
           Lifecycle!Terminal, Terminal
  <2> QED
    BY <2>4 DEF Lifecycle!Next
<1>7. ASSUME NEW k \in BindingKeys, Unbind(k) PROVE UNCHANGED Lifecycle!vars
  BY <1>7 DEF Unbind, Lifecycle!vars
<1> QED
  BY <1>2, <1>3, <1>4, <1>5, <1>6, <1>7 DEF Clients

LEMMA NextRefines ==
  ASSUME TypeOK, IInv, DecisionIsDue, [Next]_vars
  PROVE  [Lifecycle!Next]_(Lifecycle!vars)
<1>1. CASE ag' = ag /\ now' = now
  BY <1>1 DEF Lifecycle!vars
<1>2. ASSUME NEW g \in Grants, Reconcile(g) PROVE ag' = ag /\ now' = now
  BY <1>2 DEF Reconcile, ReconcileNothing, ReconcileDeletion, ReconcileAddFinalizer,
     ReconcileReject, ReconcileStillActive, ReconcileExpire, ReconcileAwaitApproval,
     ReconcileActivate, Start, Take, cluster
<1>3. CASE Tick
  BY <1>3 DEF Tick, cluster, Lifecycle!Next, Lifecycle!Tick
<1>4. CASE Manager /\ ~Tick
  BY <1>1, <1>4 DEF Manager, CacheSync, TimerFire, Resync, BindingSync, Restart,
     cluster
<1>5. CASE UNCHANGED vars
  BY <1>1, <1>5 DEF vars, cluster
<1> QED
  BY <1>1, <1>2, <1>3, <1>4, <1>5, CallRefines, ClientsRefine, NextKinds

(* AccessGrant implements GrantLifecycle: under any interleaving of the    *)
(* calls of Reconcile with clients, stale caches, failed and lost answers  *)
(* and restarts, each change of a grant is one decision that is right for  *)
(* the grant stored at that instant: granted only within policy and with   *)
(* approval, expired not before its time.                                  *)
THEOREM LifecycleImplemented == Spec => ImplementsLifecycle
<1>1. Init => Lifecycle!Init /\ DecisionIsDue
  BY NoObjectType DEF Init, Lifecycle!Init, View, DecisionIsDue
<1>2. TypeOK /\ IInv /\ DecisionIsDue /\ [Next]_vars
        => DecisionIsDue' /\ [Lifecycle!Next]_(Lifecycle!vars)
  BY NextIsDue, NextRefines
<1> QED
  BY <1>1, <1>2, TypeCorrect, InvariantHolds, PTL
     DEF Spec, ImplementsLifecycle, Lifecycle!Spec

-----------------------------------------------------------------------------
(* No active grant is forgotten before it expires. *)

(* A worker whose copy is out of date has the newer version before it: it  *)
(* is on its way to the cache or its event is in the queue.                *)
StaleIsQueued == pc # "idle" /\ ~fresh => key \in behind \cup queue

(* What keeps an eye on g. *)
Watched(g) ==
  wakeAt[g] # NoTime \/ g \in queue \/ g \in behind \/ (pc # "idle" /\ key = g)

Unexpired(g) ==
  ag[g].phase = "live" /\ ag[g].status.state = "Active" /\ now < ag[g].status.expiresAt

WatchInv == StaleIsQueued /\ \A g \in Grants : Unexpired(g) => Watched(g)

LEMMA TimerIsSet ==
  ASSUME TypeOK, NEW g \in Grants, NEW t \in Int,
         wakeAt' = [wakeAt EXCEPT ![g] = Earliest(@, t)]
  PROVE  /\ wakeAt'[g] # NoTime
         /\ \A h \in Grants : wakeAt[h] # NoTime => wakeAt'[h] # NoTime
  BY NilAssumption DEF TypeOK, Earliest

(* A step by which no grant starts to need a watch and none loses it. *)
LEMMA WatchKept ==
  ASSUME TypeOK, WatchInv, StaleIsQueued',
         \A g \in Grants : Unexpired(g)' /\ (Unexpired(g) => Watched(g))
                             => Watched(g)'
  PROVE  WatchInv'
  BY DEF WatchInv

(* Time only lets grants expire. *)
LEMMA ExpiryStays ==
  ASSUME TypeOK, NEW g \in Grants, ag'[g] = ag[g], now' = now \/ now' = now + 1,
         Unexpired(g)', ActiveHasExpiry
  PROVE  Unexpired(g)
<1>1. now \in Int /\ ag[g].status.expiresAt \in Int
  BY DEF TypeOK, Objects, Statuses, Unexpired, ActiveHasExpiry
<1> QED
  BY <1>1 DEF Unexpired

LEMMA ReconcileWatch ==
  ASSUME TypeOK, IInv, WatchInv, NEW g \in Grants, Reconcile(g)
  PROVE  WatchInv'
<1> DEFINE o == agCache[g]
<1>1. /\ UNCHANGED <<now, ag, behind>> /\ queue' = queue \ {g} /\ pc = "idle"
      /\ ag[g] \in Objects /\ o \in Objects /\ now \in Nat
      /\ g \notin behind => o = ag[g]
  BY DEF Reconcile, ReconcileNothing, ReconcileDeletion, ReconcileAddFinalizer,
     ReconcileReject, ReconcileStillActive, ReconcileExpire, ReconcileAwaitApproval,
     ReconcileActivate, Start, Take, cluster, caches, TypeOK, IInv, CacheIsPast
<1>2. \A h \in Grants : Unexpired(h)' <=> Unexpired(h)
  BY <1>1 DEF Unexpired
<1>3. ASSUME NEW call \in Calls \ {"idle"}, NEW c, Start(g, call, c) PROVE WatchInv'
  <2>1. pc' = call /\ key' = g /\ fresh' = (g \notin behind) /\ wakeAt' = wakeAt
    BY <1>3 DEF Start
  <2>2. StaleIsQueued'
    BY <1>1, <2>1 DEF StaleIsQueued
  <2>3. \A h \in Grants : Watched(h) => Watched(h)'
    BY <1>1, <1>3, <2>1 DEF Watched
  <2> QED
    BY <1>2, <2>2, <2>3, WatchKept
<1>4. ASSUME UNCHANGED worker, ~Unexpired(g) \/ g \in behind \/ wakeAt'[g] # NoTime,
             \A h \in Grants : wakeAt[h] # NoTime => wakeAt'[h] # NoTime
      PROVE  WatchInv'
  <2>1. StaleIsQueued'
    BY <1>1, <1>4 DEF StaleIsQueued, worker
  <2>2. \A h \in Grants : Unexpired(h) /\ Watched(h) => Watched(h)'
    BY <1>1, <1>4 DEF Watched, worker
  <2> QED
    BY <1>2, <2>1, <2>2, WatchKept
<1>5. CASE ReconcileNothing(g)
  <2>1. UNCHANGED <<worker, wakeAt>>
    BY <1>5 DEF ReconcileNothing
  <2>2. g \in behind \/ ~Unexpired(g)
    BY <1>1, <1>5 DEF ReconcileNothing, Unexpired, Deleting, Reconcilable, Terminal
  <2> QED
    BY <1>4, <2>1, <2>2
<1>6. CASE ReconcileStillActive(g)
  <2>1. UNCHANGED worker
    BY <1>6 DEF ReconcileStillActive
  <2>2. o.status.expiresAt \in Int
    BY <1>1, <1>6 DEF ReconcileStillActive, Granted, Objects, Statuses
  <2>3. CASE wakeAt' = [wakeAt EXCEPT ![g] = Earliest(@, o.status.expiresAt)]
    BY <1>4, <2>1, <2>2, <2>3, TimerIsSet
  <2>4. CASE now = o.status.expiresAt /\ UNCHANGED wakeAt
    <3>1. g \in behind \/ ~Unexpired(g)
      BY <1>1, <2>4 DEF Unexpired
    <3> QED
      BY <1>4, <2>1, <2>4, <3>1
  <2> QED
    BY <1>6, <2>3, <2>4 DEF ReconcileStillActive
<1>7. CASE ReconcileAwaitApproval(g) /\ UNCHANGED worker
  <2>1. now + ApprovalPoll \in Int
    BY <1>1, BoundsAssumption
  <2>2. wakeAt' = [wakeAt EXCEPT ![g] = Earliest(@, now + ApprovalPoll)]
    BY <1>1, <1>7 DEF ReconcileAwaitApproval, Start, worker
  <2> QED
    BY <1>4, <1>7, <2>1, <2>2, TimerIsSet
<1>8. CASE \/ ReconcileDeletion(g) \/ ReconcileAddFinalizer(g) \/ ReconcileReject(g)
           \/ ReconcileExpire(g) \/ ReconcileActivate(g)
           \/ ReconcileAwaitApproval(g) /\ ~UNCHANGED worker
  <2>1. \E call \in Calls \ {"idle"} : \E c : Start(g, call, c)
    BY <1>8 DEF ReconcileDeletion, ReconcileAddFinalizer, ReconcileReject,
       ReconcileExpire, ReconcileActivate, ReconcileAwaitApproval, Start, Calls
  <2> QED
    BY <1>3, <2>1
<1> QED
  BY <1>5, <1>6, <1>7, <1>8 DEF Reconcile

LEMMA CallWatch ==
  ASSUME TypeOK, IInv, DecisionIsDue, WatchInv, NEW out \in Outcomes, Call(out)
  PROVE  WatchInv'
<1>1. /\ now' = now /\ agCache' = agCache /\ pc # "idle" /\ key \in Grants
      /\ ag[key] \in Objects /\ obj \in Objects /\ now \in Nat
      /\ FreshCopyIsStored /\ ActiveHasExpiry
  BY DEF Call, AddFinalizer, WriteFailed, WritePending, LookupBinding,
     CreateBinding, WriteActive, FindBinding, DeleteBinding, WriteExpired,
     RemoveFinalizer, Ends, TypeOK, IInv, caches
<1>2. ~fresh => key \in behind \cup queue
  BY <1>1 DEF WatchInv, StaleIsQueued
<1>3. /\ behind \subseteq behind'
      /\ \A g \in Grants : g \in behind' \/ ag'[g] = ag[g]
      /\ (ag' = ag /\ behind' = behind) \/ key \in behind'
  BY DEF Call, AddFinalizer, WriteFailed, WritePending, LookupBinding,
     CreateBinding, WriteActive, FindBinding, DeleteBinding, WriteExpired,
     RemoveFinalizer, Update, Store, caches, TypeOK
<1>4. \A g \in Grants : Unexpired(g)' => Unexpired(g) \/ g \in behind'
  BY <1>1, <1>3, ExpiryStays
<1>5. ASSUME Return, queue \subseteq queue',
             \A g \in Grants : wakeAt[g] # NoTime => wakeAt'[g] # NoTime,
             \A g \in Grants : g = key /\ Unexpired(g)' =>
               g \in queue' \/ g \in behind' \/ wakeAt'[g] # NoTime
      PROVE  WatchInv'
  <2>1. StaleIsQueued'
    BY <1>5 DEF StaleIsQueued, Return
  <2>2. ASSUME NEW g \in Grants, Unexpired(g)', Unexpired(g) => Watched(g)
        PROVE  Watched(g)'
    <3>1. CASE g = key
      BY <1>5, <2>2, <3>1 DEF Watched
    <3>2. CASE g # key
      BY <1>3, <1>4, <1>5, <2>2, <3>2 DEF Watched
    <3> QED
      BY <3>1, <3>2
  <2> QED
    BY <2>1, <2>2, WatchKept
<1>6. CASE Requeue
  BY <1>1, <1>5, <1>6 DEF Requeue
<1>7. ASSUME NEW t \in Int, RequeueAt(t) PROVE WatchInv'
  <2>1. Return /\ queue' = queue /\ wakeAt' = [wakeAt EXCEPT ![key] = Earliest(@, t)]
    BY <1>7 DEF RequeueAt
  <2> QED
    BY <1>1, <1>5, <2>1, TimerIsSet
<1>8. ASSUME NEW call, NEW c, Continue(call, c), call # "idle", ag' = ag
      PROVE  WatchInv'
  <2>1. pc' = call /\ UNCHANGED <<key, fresh, queue, wakeAt>>
    BY <1>8 DEF Continue
  <2>2. StaleIsQueued'
    BY <1>2, <1>3, <2>1 DEF StaleIsQueued
  <2>3. \A g \in Grants : Watched(g) => Watched(g)'
    BY <1>3, <1>8, <2>1 DEF Watched
  <2>4. \A g \in Grants : Unexpired(g)' => Unexpired(g)
    BY <1>1, <1>8, ExpiryStays
  <2> QED
    BY <2>2, <2>3, <2>4, WatchKept
<1>9. ASSUME Done,
             \A g \in Grants : g = key /\ Unexpired(g)' => g \in behind' \cup queue
      PROVE  WatchInv'
  BY <1>3, <1>5, <1>9 DEF Done
<1>10. ASSUME NEW o, Update(out, o), Accepted(out) PROVE key \in behind'
  BY <1>10 DEF Update, Accepted, Store
<1>11. CASE AddFinalizer(out) \/ WriteFailed(out)
  BY <1>6, <1>11 DEF AddFinalizer, WriteFailed
<1>12. CASE WritePending(out)
  BY <1>1, <1>7, <1>12, BoundsAssumption DEF WritePending
<1>13. CASE WriteActive(out)
  <2>1. now + obj.spec.ttl \in Int
    BY <1>1, SpecsAssumption DEF Objects, SpecType
  <2> QED
    BY <1>6, <1>7, <1>9, <1>10, <1>13, <2>1 DEF WriteActive
<1>14. CASE WriteExpired(out)
  <2>1. Done /\ Update(out, obj)
    BY <1>14 DEF WriteExpired
  <2>2. CASE ~fresh
    BY <1>2, <1>3, <1>9, <2>1, <2>2
  <2>3. CASE fresh /\ out # "failed"
    BY <1>9, <2>1, <2>3 DEF Update, Store
  <2>4. CASE fresh /\ out = "failed"
    <3>1. ag' = ag /\ Due(obj) /\ obj = Expired(ag[key])
      BY <1>1, <1>14, <2>1, <2>4
         DEF WriteExpired, Update, DecisionIsDue, FreshCopyIsStored
    <3>2. ag[key].status.expiresAt # NoTime /\ now >= ag[key].status.expiresAt
      BY <1>1, <3>1 DEF Due, Expired, Objects, Statuses
    <3>3. ag[key].status.expiresAt \in Int
      BY <1>1, <3>2 DEF Objects, Statuses
    <3>4. \A g \in Grants : g = key => ~Unexpired(g)'
      BY <1>1, <3>1, <3>2, <3>3 DEF Unexpired
    <3> QED
      BY <1>9, <2>1, <2>4, <3>4
  <2> QED
    BY <2>2, <2>3, <2>4
<1>15. CASE RemoveFinalizer(out)
  BY <1>6, <1>9, <1>10, <1>15 DEF RemoveFinalizer
<1>16. CASE LookupBinding(out)
  BY <1>6, <1>8, <1>16 DEF LookupBinding
<1>17. CASE CreateBinding(out)
  BY <1>6, <1>8, <1>17 DEF CreateBinding
<1>18. CASE FindBinding(out)
  BY <1>6, <1>8, <1>18 DEF FindBinding, CleanupFailed, AfterCleanup
<1>19. CASE DeleteBinding(out)
  BY <1>6, <1>8, <1>19 DEF DeleteBinding, CleanupFailed, AfterCleanup
<1> QED
  BY <1>11, <1>12, <1>13, <1>14, <1>15, <1>16, <1>17, <1>18, <1>19 DEF Call

LEMMA ManagerWatch ==
  ASSUME TypeOK, IInv, WatchInv, Manager
  PROVE  WatchInv'
<1>0. ActiveHasExpiry /\ ag' = ag /\ (now' = now \/ now' = now + 1)
  BY DEF IInv, Manager, CacheSync, TimerFire, Resync, BindingSync, Tick, Restart,
     cluster
<1>1. \A g \in Grants : Unexpired(g)' => Unexpired(g)
  BY <1>0, ExpiryStays
<1>2. ASSUME UNCHANGED worker, behind \subseteq behind' \cup queue',
             queue \subseteq queue',
             \A g \in Grants : wakeAt[g] # NoTime => wakeAt'[g] # NoTime \/ g \in queue'
      PROVE  WatchInv'
  <2>1. StaleIsQueued'
    BY <1>2 DEF WatchInv, StaleIsQueued, worker
  <2>2. \A g \in Grants : Watched(g) => Watched(g)'
    BY <1>2 DEF Watched, worker
  <2> QED
    BY <1>1, <2>1, <2>2, WatchKept
<1>3. ASSUME NEW g \in Grants, CacheSync(g) \/ TimerFire(g) \/ Resync(g)
      PROVE  WatchInv'
  BY <1>2, <1>3 DEF CacheSync, TimerFire, Resync, caches, TypeOK
<1>4. CASE (\E k \in BindingKeys : BindingSync(k)) \/ Tick
  BY <1>2, <1>4 DEF BindingSync, Tick, caches, scheduler
<1>5. CASE Restart
  <2>1. StaleIsQueued'
    BY <1>5 DEF Restart, Return, StaleIsQueued
  <2>2. \A g \in Grants : Unexpired(g)' => Watched(g)'
    BY <1>0, <1>5 DEF Restart, Unexpired, Watched
  <2> QED
    BY <2>1, <2>2 DEF WatchInv
<1> QED
  BY <1>3, <1>4, <1>5 DEF Manager

LEMMA ClientsWatch ==
  ASSUME TypeOK, IInv, WatchInv, Clients
  PROVE  WatchInv'
<1>1. ASSUME NEW action, NEW g \in Grants, NEW o, ClientWrite(action, g, o)
      PROVE  WatchInv'
  <2>1. /\ ag' = [ag EXCEPT ![g] = o] /\ behind' = behind \cup {g}
        /\ fresh' = (fresh /\ key # g) /\ UNCHANGED <<now, queue, wakeAt, pc, key>>
    BY <1>1 DEF ClientWrite, Store, scheduler
  <2>2. StaleIsQueued'
    BY <2>1 DEF WatchInv, StaleIsQueued, TypeOK
  <2>3. \A h \in Grants : Unexpired(h)' => Unexpired(h) \/ h \in behind'
    BY <2>1, ExpiryStays DEF TypeOK, IInv
  <2>4. \A h \in Grants : Watched(h) => Watched(h)'
    BY <2>1 DEF Watched
  <2> QED
    BY <2>2, <2>3, <2>4, WatchKept DEF Watched
<1>2. ASSUME NEW k \in BindingKeys, Unbind(k) PROVE WatchInv'
  BY <1>2 DEF Unbind, WatchInv, StaleIsQueued, Unexpired, Watched, caches, scheduler,
     worker
<1> QED
  BY <1>1, <1>2
     DEF Clients, UserCreate, UserEdit, UserDelete, BrokerAnnotate, BrokerRevoke

LEMMA NextWatch ==
  ASSUME TypeOK, IInv, DecisionIsDue, WatchInv, [Next]_vars
  PROVE  WatchInv'
<1>1. CASE UNCHANGED vars
  BY <1>1 DEF vars, cluster, caches, scheduler, worker, WatchInv, StaleIsQueued,
     Unexpired, Watched
<1> QED
  BY <1>1, NextKinds, ReconcileWatch, CallWatch, ManagerWatch, ClientsWatch

(* The expiry of an active grant is never forgotten, whatever fails: until *)
(* it is due a timer runs for the grant, or a reconcile of it is still to  *)
(* come; a restart, a lost answer or an ignored error does not change that.*)
THEOREM ActiveIsWatched == Spec => []ActiveGrantIsWatched
<1>1. Init => WatchInv /\ DecisionIsDue
  BY NoObjectType DEF Init, WatchInv, StaleIsQueued, Unexpired, DecisionIsDue
<1>2. TypeOK /\ IInv /\ DecisionIsDue /\ WatchInv /\ [Next]_vars
        => (DecisionIsDue /\ WatchInv)'
  BY NextIsDue, NextWatch
<1>3. WatchInv => ActiveGrantIsWatched
  BY DEF WatchInv, Unexpired, Watched, ActiveGrantIsWatched
<1> QED
  BY <1>1, <1>2, <1>3, TypeCorrect, InvariantHolds, PTL DEF Spec

-----------------------------------------------------------------------------
(* The RoleBinding of a grant, where names of grants are unique, nobody    *)
(* edits a spec and no grant is created again under its old name: the      *)
(* RoleBinding is named after the grant alone and compared with nothing.   *)

DistinctNames == \A g, h \in Grants : g.name = h.name => g = h

OneLife == {"edit", "recreate"} \cap UserActions = {}

ApprovalsStay == "withdraw" \notin UserActions

(* A later version of a grant: still the same spec, never back from        *)
(* deletion, and approved if it was.                                       *)
Later(o, p) ==
  /\ p.phase # "absent" => o.phase # "absent" /\ p.spec = o.spec
  /\ p.phase = "live" => o.phase = "live"
  /\ ApprovalsStay /\ o.approver # NoApprover /\ p.phase # "absent"
       => p.approver # NoApprover

FirstCreation(g) ==
  /\ g \notin created /\ g \in created' /\ ~Exists(g)
  /\ ag'[g].phase = "live" /\ ag'[g].status = NoStatus
  /\ UNCHANGED <<rb, agCache, rbCache, pc, key, obj, now>>

(* An update that passes the conflict check is one of the stored grant.    *)
LEMMA FreshCopy ==
  ASSUME TypeOK, IInv, fresh, pc # "idle"
  PROVE  /\ obj.phase = ag[key].phase /\ obj.spec = ag[key].spec
         /\ obj.approver = ag[key].approver
<1> DEFINE o == ag[key]
<1>1. o \in Objects /\ FreshCopyIsStored /\ now \in Nat
  BY DEF TypeOK, IInv
<1>2. CASE pc = "addFinalizer"
  <2>1. obj = [o EXCEPT !.finalizer = TRUE]
    BY <1>1, <1>2 DEF FreshCopyIsStored
  <2> QED
    BY <1>1, <2>1 DEF Objects
<1>3. CASE pc \in {"writeFailed", "writePending"}
  <2>1. obj = Rejected(o) \/ obj = AwaitingApproval(o)
    BY <1>1, <1>3 DEF FreshCopyIsStored
  <2> QED
    BY <1>1, <2>1 DEF Rejected, AwaitingApproval, Objects
<1>4. CASE pc \in {"lookupBinding", "createBinding"}
  <2>1. obj = Approved(o)
    BY <1>1, <1>4 DEF FreshCopyIsStored
  <2> QED
    BY <1>1, <2>1, ApprovedType
<1>5. CASE pc = "writeActive"
  <2>1. PICK t \in 0..now : obj = Activated(Approved(o), t)
    BY <1>1, <1>5 DEF FreshCopyIsStored
  <2>2. t \in Int
    BY <1>1
  <2> QED
    BY <1>1, <2>1, <2>2, ApprovedType, ActivatedType
<1>6. CASE pc = "writeExpired"
  <2>1. obj = Expired(o)
    BY <1>1, <1>6 DEF FreshCopyIsStored
  <2> QED
    BY <1>1, <2>1 DEF Expired, Objects
<1>7. CASE pc \in {"findBinding", "deleteBinding", "removeFinalizer"}
  BY <1>1, <1>7 DEF FreshCopyIsStored
<1> QED
  BY <1>2, <1>3, <1>4, <1>5, <1>6, <1>7 DEF TypeOK, Calls

LEMMA CallStores ==
  ASSUME TypeOK, IInv, NEW out \in Outcomes, Call(out), NEW g \in Grants
  PROVE  Later(ag[g], ag'[g]) /\ created' = created
<1>1. ag[g] \in Objects /\ key \in Grants /\ created' = created
  BY DEF TypeOK, Call, AddFinalizer, WriteFailed, WritePending, LookupBinding,
     CreateBinding, WriteActive, FindBinding, DeleteBinding, WriteExpired,
     RemoveFinalizer, Ends
<1>2. ag'[g] = ag[g] => Later(ag[g], ag'[g])
  BY DEF Later
<1>3. ASSUME pc # "idle", NEW o, Update(out, o), o = obj \/ o = NoObject
      PROVE  Later(ag[g], ag'[g])
  <2>1. CASE fresh /\ out # "failed" /\ g = key
    <3>1. ag'[g] = o
      BY <1>3, <2>1 DEF Update, Store, TypeOK
    <3> QED
      BY <1>3, <2>1, <3>1, FreshCopy, NoObjectType DEF Later
  <2>2. CASE ~(fresh /\ out # "failed" /\ g = key)
    <3>1. ag'[g] = ag[g]
      BY <1>1, <1>3, <2>2 DEF Update, Store, TypeOK
    <3> QED
      BY <1>2, <3>1
  <2> QED
    BY <2>1, <2>2
<1>4. CASE AddFinalizer(out) \/ WriteFailed(out) \/ WritePending(out)
           \/ WriteActive(out) \/ WriteExpired(out) \/ RemoveFinalizer(out)
  BY <1>1, <1>3, <1>4 DEF AddFinalizer, WriteFailed, WritePending, WriteActive,
     WriteExpired, RemoveFinalizer
<1>5. CASE LookupBinding(out) \/ CreateBinding(out)
           \/ FindBinding(out) \/ DeleteBinding(out)
  BY <1>1, <1>2, <1>5 DEF LookupBinding, CreateBinding, FindBinding, DeleteBinding
<1> QED
  BY <1>1, <1>4, <1>5 DEF Call

LEMMA ClientsStore ==
  ASSUME TypeOK, OneLife, Clients, NEW g \in Grants
  PROVE  /\ Later(ag[g], ag'[g]) \/ FirstCreation(g)
         /\ created \subseteq created'
<1>1. \A h \in Grants : ag[h] \in Objects
  BY DEF TypeOK
<1>2. ASSUME NEW action, NEW h \in Grants, NEW o, ClientWrite(action, h, o),
             g = h => Later(ag[g], o), created' = created
      PROVE  Later(ag[g], ag'[g]) /\ created \subseteq created'
  BY <1>2 DEF ClientWrite, Store, TypeOK, Later
<1>3. ASSUME NEW h \in Grants, NEW s \in Specs, UserCreate(h, s)
      PROVE  /\ Later(ag[g], ag'[g]) \/ FirstCreation(g)
             /\ created \subseteq created'
  <2>1. /\ h \notin created /\ created' = created \cup {h} /\ ~Exists(h)
        /\ ag' = [ag EXCEPT ![h] = NewObject(s)]
        /\ UNCHANGED <<rb, agCache, rbCache, pc, key, obj, now>>
    BY <1>3 DEF UserCreate, ClientWrite, Store, OneLife
  <2>2. NewObject(s).phase = "live" /\ NewObject(s).status = NoStatus
    BY DEF NewObject
  <2>3. CASE g = h
    <3>1. ag'[g] = NewObject(s)
      BY <2>1, <2>3 DEF TypeOK
    <3> QED
      BY <2>1, <2>2, <2>3, <3>1 DEF FirstCreation
  <2>4. CASE g # h
    BY <2>1, <2>4 DEF TypeOK, Later
  <2> QED
    BY <2>1, <2>3, <2>4
<1>4. ASSUME NEW h \in Grants, NEW s \in Specs PROVE ~UserEdit(h, s)
  BY DEF UserEdit, ClientWrite, OneLife
<1>5. ASSUME NEW h \in Grants, NEW a \in Approvers \cup {NoApprover},
             BrokerAnnotate(h, a)
      PROVE  Later(ag[g], ag'[g]) /\ created \subseteq created'
  <2> DEFINE o == [ag[h] EXCEPT !.approver = a]
  <2>1. o.phase = ag[h].phase /\ o.spec = ag[h].spec /\ o.approver = a
    BY <1>1 DEF Objects
  <2>2. ApprovalsStay => a # NoApprover
    BY <1>5 DEF BrokerAnnotate, ClientWrite, ApprovalsStay
  <2>3. Later(ag[h], o)
    BY <2>1, <2>2 DEF Later
  <2> QED
    BY <1>2, <1>5, <2>3 DEF BrokerAnnotate
<1>6. ASSUME NEW h \in Grants, UserDelete(h)
      PROVE  Later(ag[g], ag'[g]) /\ created \subseteq created'
  <2> DEFINE o == [ag[h] EXCEPT !.phase = "deleting"]
  <2>1. o.phase = "deleting" /\ o.spec = ag[h].spec /\ o.approver = ag[h].approver
    BY <1>1 DEF Objects
  <2>2. Later(ag[h], o) /\ Later(ag[h], NoObject)
    BY <1>6, <2>1, NoObjectType DEF Later, UserDelete
  <2> QED
    BY <1>2, <1>6, <2>2 DEF UserDelete
<1>7. ASSUME NEW h \in Grants, BrokerRevoke(h)
      PROVE  Later(ag[g], ag'[g]) /\ created \subseteq created'
  <2> DEFINE o == [ag[h] EXCEPT !.status.state = "Revoked"]
  <2>1. o.phase = ag[h].phase /\ o.spec = ag[h].spec /\ o.approver = ag[h].approver
    BY <1>1 DEF Objects
  <2>2. Later(ag[h], o)
    BY <2>1 DEF Later
  <2> QED
    BY <1>2, <1>7, <2>2 DEF BrokerRevoke
<1>8. ASSUME NEW k \in BindingKeys, Unbind(k)
      PROVE  Later(ag[g], ag'[g]) /\ created \subseteq created'
  BY <1>8 DEF Unbind, Later
<1> QED
  BY <1>3, <1>4, <1>5, <1>6, <1>7, <1>8 DEF Clients

(* How a stored grant changes. *)
LEMMA StoredMoves ==
  ASSUME TypeOK, IInv, OneLife, Next, NEW g \in Grants
  PROVE  /\ Later(ag[g], ag'[g]) \/ FirstCreation(g)
         /\ created \subseteq created'
<1>1. CASE UNCHANGED <<ag, created>>
  BY <1>1 DEF Later
<1>2. ASSUME NEW h \in Grants, Reconcile(h) PROVE UNCHANGED <<ag, created>>
  BY <1>2 DEF Reconcile, ReconcileNothing, ReconcileDeletion, ReconcileAddFinalizer,
     ReconcileReject, ReconcileStillActive, ReconcileExpire, ReconcileAwaitApproval,
     ReconcileActivate, Start, Take, cluster
<1>3. ASSUME Manager PROVE UNCHANGED <<ag, created>>
  BY <1>3 DEF Manager, CacheSync, TimerFire, Resync, BindingSync, Tick, Restart,
     cluster
<1> QED
  BY <1>1, <1>2, <1>3, CallStores, ClientsStore, NextKinds

(* A cache takes what is stored.                                           *)
LEMMA GrantCacheMoves ==
  ASSUME TypeOK, Next, NEW g \in Grants
  PROVE  agCache'[g] = agCache[g] \/ (agCache'[g] = ag[g] /\ UNCHANGED <<ag, created, rb, now>>)
<1>1. ASSUME NEW h \in Grants, Reconcile(h) PROVE agCache' = agCache
  BY <1>1 DEF Reconcile, ReconcileNothing, ReconcileDeletion, ReconcileAddFinalizer,
     ReconcileReject, ReconcileStillActive, ReconcileExpire, ReconcileAwaitApproval,
     ReconcileActivate, Start, Take, caches
<1>2. ASSUME NEW out \in Outcomes, Call(out) PROVE agCache' = agCache
  BY <1>2 DEF Call, AddFinalizer, WriteFailed, WritePending, LookupBinding,
     CreateBinding, WriteActive, FindBinding, DeleteBinding, WriteExpired,
     RemoveFinalizer, caches
<1>3. CASE Clients
  BY <1>3 DEF Clients, UserCreate, UserEdit, UserDelete, BrokerAnnotate, BrokerRevoke,
     ClientWrite, Unbind, caches
<1>4. CASE Manager
  <2>1. CASE (\E h \in Grants : CacheSync(h)) \/ Restart
    BY <2>1 DEF CacheSync, Restart, TypeOK, cluster
  <2> QED
    BY <1>4, <2>1 DEF Manager, TimerFire, Resync, BindingSync, Tick, caches
<1> QED
  BY <1>1, <1>2, <1>3, <1>4, NextKinds

LEMMA BindingCacheMoves ==
  ASSUME TypeOK, Next, NEW k \in BindingKeys
  PROVE  rbCache'[k] = rbCache[k] \/ (rbCache'[k] = rb[k] /\ UNCHANGED <<ag, created, rb, now>>)
<1>1. ASSUME NEW h \in Grants, Reconcile(h) PROVE rbCache' = rbCache
  BY <1>1 DEF Reconcile, ReconcileNothing, ReconcileDeletion, ReconcileAddFinalizer,
     ReconcileReject, ReconcileStillActive, ReconcileExpire, ReconcileAwaitApproval,
     ReconcileActivate, Start, Take, caches
<1>2. ASSUME NEW out \in Outcomes, Call(out) PROVE rbCache' = rbCache
  BY <1>2 DEF Call, AddFinalizer, WriteFailed, WritePending, LookupBinding,
     CreateBinding, WriteActive, FindBinding, DeleteBinding, WriteExpired,
     RemoveFinalizer, caches
<1>3. CASE Clients
  BY <1>3 DEF Clients, UserCreate, UserEdit, UserDelete, BrokerAnnotate, BrokerRevoke,
     ClientWrite, Unbind, caches
<1>4. CASE Manager
  <2>1. CASE (\E l \in BindingKeys : BindingSync(l)) \/ Restart
    BY <2>1 DEF BindingSync, Restart, TypeOK, cluster
  <2> QED
    BY <1>4, <2>1 DEF Manager, TimerFire, Resync, CacheSync, Tick, caches
<1> QED
  BY <1>1, <1>2, <1>3, <1>4, NextKinds

(* What the worker decides on is a cached grant; its calls keep to that.   *)
SameRequest(o, p) ==
  o.phase = p.phase /\ o.spec = p.spec /\ o.approver = p.approver

TakesUp(g) ==
  /\ pc = "idle" /\ pc' # "idle" /\ key' = g /\ agCache[g].phase # "absent"
  /\ SameRequest(obj', agCache[g])
  /\ UNCHANGED <<ag, rb, agCache, rbCache, created, now>>

LEMMA Requests ==
  ASSUME NEW o \in Objects
  PROVE  /\ SameRequest(Rejected(o), o) /\ SameRequest(AwaitingApproval(o), o)
         /\ SameRequest(Approved(o), o) /\ SameRequest(Expired(o), o)
         /\ SameRequest([o EXCEPT !.finalizer = TRUE], o)
         /\ \A t \in Int : SameRequest(Activated(o, t), o)
<1>1. \A t \in Int : SameRequest(Activated(o, t), o)
  BY ActivatedType DEF SameRequest
<1>2. SameRequest(Approved(o), o)
  BY ApprovedType DEF SameRequest
<1> QED
  BY <1>1, <1>2 DEF SameRequest, Rejected, AwaitingApproval, Expired, Objects

LEMMA ReconcileMoves ==
  ASSUME TypeOK, NEW g \in Grants, Reconcile(g)
  PROVE  TakesUp(g) \/ UNCHANGED <<worker, ag, rb, agCache, rbCache, created, now>>
<1> DEFINE o == agCache[g]
<1>1. o \in Objects
  BY DEF TypeOK
<1>2. ASSUME NEW call \in Calls \ {"idle"}, NEW p, Start(g, call, p), SameRequest(p, o),
             o.phase # "absent"
      PROVE  TakesUp(g)
  BY <1>2 DEF Start, Take, TakesUp, cluster, caches
<1>3. CASE ReconcileNothing(g) \/ ReconcileStillActive(g)
  BY <1>3 DEF ReconcileNothing, ReconcileStillActive, Take, cluster, caches, worker
<1>4. CASE ReconcileDeletion(g)
  <2>1. o.phase # "absent" /\ SameRequest(o, o)
    BY <1>4 DEF ReconcileDeletion, Deleting, SameRequest
  <2>2. Start(g, "findBinding", o) \/ Start(g, "removeFinalizer", o)
    BY <1>4 DEF ReconcileDeletion
  <2> QED
    BY <1>2, <2>1, <2>2 DEF Calls
<1>5. CASE ReconcileAddFinalizer(g)
  BY <1>1, <1>2, <1>5, Requests DEF ReconcileAddFinalizer, Calls
<1>6. CASE ReconcileReject(g)
  BY <1>1, <1>2, <1>6, Requests DEF ReconcileReject, Reconcilable, Calls
<1>7. CASE ReconcileExpire(g)
  <2>1. o.phase # "absent" /\ SameRequest(o, o)
    BY <1>7 DEF ReconcileExpire, Valid, Reconcilable, SameRequest
  <2>2. Start(g, "findBinding", o) \/ Start(g, "writeExpired", Expired(o))
    BY <1>7 DEF ReconcileExpire
  <2> QED
    BY <1>1, <1>2, <2>1, <2>2, Requests DEF Calls
<1>8. CASE ReconcileAwaitApproval(g)
  <2>1. o.phase # "absent"
    BY <1>8 DEF ReconcileAwaitApproval, Valid, Reconcilable
  <2>2. Start(g, "writePending", AwaitingApproval(o)) \/ (Take(g) /\ UNCHANGED worker)
    BY <1>8 DEF ReconcileAwaitApproval
  <2> QED
    BY <1>1, <1>2, <2>1, <2>2, Requests DEF Calls, Take, cluster, caches
<1>9. CASE ReconcileActivate(g)
  BY <1>1, <1>2, <1>9, Requests DEF ReconcileActivate, Valid, Reconcilable, Calls
<1> QED
  BY <1>3, <1>4, <1>5, <1>6, <1>7, <1>8, <1>9 DEF Reconcile

LEMMA CallMoves ==
  ASSUME TypeOK, NEW out \in Outcomes, Call(out), pc' # "idle"
  PROVE  /\ pc # "idle" /\ key' = key /\ SameRequest(obj', obj)
         /\ UNCHANGED <<ag, agCache, rbCache, created, now>>
<1>1. obj \in Objects /\ now \in Int /\ SameRequest(obj, obj)
  BY DEF TypeOK, SameRequest
<1>2. ~(AddFinalizer(out) \/ WriteFailed(out) \/ WritePending(out)
        \/ WriteActive(out) \/ WriteExpired(out) \/ RemoveFinalizer(out))
  BY DEF AddFinalizer, WriteFailed, WritePending, WriteActive, WriteExpired,
     RemoveFinalizer, Done, Requeue, RequeueAt, Return
<1>3. ASSUME NEW call, NEW o, Continue(call, o), SameRequest(o, obj)
      PROVE  key' = key /\ SameRequest(obj', obj)
  BY <1>3 DEF Continue
<1>4. CASE LookupBinding(out) \/ CreateBinding(out)
  <2>1. \/ Continue("createBinding", obj)
        \/ Continue("writeActive", Activated(obj, now))
    BY <1>4 DEF LookupBinding, CreateBinding, Requeue, Return
  <2>2. key' = key /\ SameRequest(obj', obj)
    BY <1>1, <1>3, <2>1, Requests
  <2> QED
    BY <1>4, <2>2 DEF LookupBinding, CreateBinding, Ends, caches
<1>5. CASE FindBinding(out) \/ DeleteBinding(out)
  <2>1. \/ Continue("deleteBinding", obj) \/ Continue("removeFinalizer", obj)
        \/ Continue("writeExpired", Expired(obj))
    BY <1>5 DEF FindBinding, DeleteBinding, AfterCleanup, CleanupFailed, Requeue, Return
  <2>2. key' = key /\ SameRequest(obj', obj)
    BY <1>1, <1>3, <2>1, Requests
  <2> QED
    BY <1>5, <2>2 DEF FindBinding, DeleteBinding, Ends, caches
<1> QED
  BY <1>2, <1>4, <1>5 DEF Call

LEMMA WorkerMoves ==
  ASSUME TypeOK, Next, pc' # "idle"
  PROVE  \/ pc # "idle" /\ key' = key /\ SameRequest(obj', obj)
         \/ \E g \in Grants : TakesUp(g)
<1>1. CASE UNCHANGED worker
  BY <1>1 DEF worker, SameRequest
<1>2. CASE UNCHANGED <<pc, key, obj>>
  BY <1>2 DEF SameRequest
<1>3. CASE Manager
  BY <1>1, <1>3 DEF Manager, CacheSync, TimerFire, Resync, BindingSync, Tick, Restart,
     Return
<1>4. CASE Clients
  BY <1>1, <1>2, <1>4 DEF Clients, UserCreate, UserEdit, UserDelete, BrokerAnnotate,
     BrokerRevoke, ClientWrite, Unbind
<1> QED
  BY <1>1, <1>3, <1>4, NextKinds, ReconcileMoves, CallMoves

(* A RoleBinding is made at one call and deleted at another.               *)
LEMMA BindingMoves ==
  ASSUME TypeOK, Next, NEW k \in BindingKeys
  PROVE  \/ rb'[k] = rb[k]
         \/ /\ pc = "createBinding" /\ k = BindingKey(key, obj.spec)
            /\ rb[k] = NoBinding /\ rb'[k] = Binding(obj.spec)
            /\ UNCHANGED <<ag, agCache, rbCache, created, now>>
         \/ /\ pc = "deleteBinding" /\ k = BindingKey(key, obj.spec)
            /\ rb'[k] = NoBinding
            /\ UNCHANGED <<ag, agCache, rbCache, created, now>>
         \/ /\ "unbind" \in UserActions /\ rb'[k] = NoBinding
            /\ UNCHANGED <<ag, agCache, rbCache, created, now, pc, key, obj>>
<1>1. ASSUME NEW g \in Grants, Reconcile(g) PROVE rb' = rb
  BY <1>1 DEF Reconcile, ReconcileNothing, ReconcileDeletion, ReconcileAddFinalizer,
     ReconcileReject, ReconcileStillActive, ReconcileExpire, ReconcileAwaitApproval,
     ReconcileActivate, Start, Take, cluster
<1>2. ASSUME Manager PROVE rb' = rb
  BY <1>2 DEF Manager, CacheSync, TimerFire, Resync, BindingSync, Tick, Restart,
     cluster
<1>3. CASE Clients
  <2>1. CASE \E l \in BindingKeys : Unbind(l)
    BY <2>1 DEF Unbind, TypeOK, caches, worker
  <2> QED
    BY <1>3, <2>1 DEF Clients, UserCreate, UserEdit, UserDelete, BrokerAnnotate,
       BrokerRevoke, ClientWrite
<1>4. ASSUME NEW out \in Outcomes, Call(out), rb'[k] # rb[k]
      PROVE  \/ /\ pc = "createBinding" /\ k = BindingKey(key, obj.spec)
                /\ rb[k] = NoBinding /\ rb'[k] = Binding(obj.spec)
                /\ UNCHANGED <<ag, agCache, rbCache, created, now>>
             \/ /\ pc = "deleteBinding" /\ k = BindingKey(key, obj.spec)
                /\ rb'[k] = NoBinding
                /\ UNCHANGED <<ag, agCache, rbCache, created, now>>
  <2>1. CASE CreateBinding(out)
    BY <1>4, <2>1 DEF CreateBinding, TypeOK, Ends, caches
  <2>2. CASE DeleteBinding(out)
    BY <1>4, <2>2 DEF DeleteBinding, TypeOK, Ends, caches
  <2>3. CASE ~CreateBinding(out) /\ ~DeleteBinding(out)
    BY <1>4, <2>3 DEF Call, AddFinalizer, WriteFailed, WritePending, LookupBinding,
       WriteActive, FindBinding, WriteExpired, RemoveFinalizer
  <2> QED
    BY <2>1, <2>2, <2>3
<1> QED
  BY <1>1, <1>2, <1>3, <1>4, NextKinds

-----------------------------------------------------------------------------
(* One life: whatever the worker and the cache hold of a grant is of the   *)
(* grant that is stored, or of one that is gone for good.                  *)

Known(o, g) ==
  /\ g \in created
  /\ ag[g].phase = "live" => o.phase = "live"
  /\ Exists(g) => o.spec = ag[g].spec
  /\ ApprovalsStay /\ o.approver # NoApprover /\ Exists(g)
       => ag[g].approver # NoApprover

LifeInv ==
  /\ \A g \in Grants : Exists(g) => g \in created
  /\ \A g \in Grants : agCache[g].phase # "absent" => Known(agCache[g], g)
  /\ pc # "idle" => obj.phase # "absent" /\ Known(obj, key)

LEMMA KnownStays ==
  ASSUME TypeOK, IInv, OneLife, Next, NEW g \in Grants, NEW o, Known(o, g)
  PROVE  Known(o, g)'
<1>1. Later(ag[g], ag'[g]) /\ g \in created'
  BY StoredMoves DEF FirstCreation, Known
<1> QED
  BY <1>1 DEF Known, Later, Exists

(* Known(o, g) is about these fields only. *)
LEMMA SameIsKnown ==
  ASSUME NEW g, NEW o, NEW p, SameRequest(o, p), Known(p, g)
  PROVE  Known(o, g)
  BY DEF Known, SameRequest

LEMMA NextLife ==
  ASSUME TypeOK, IInv, OneLife, LifeInv, [Next]_vars
  PROVE  LifeInv'
<1>1. CASE UNCHANGED vars
  BY <1>1 DEF vars, cluster, caches, worker, LifeInv, Known, Exists
<1>2. CASE Next
  <2>1. ASSUME NEW g \in Grants, ag'[g].phase # "absent"
        PROVE  g \in created'
    BY <1>2, <2>1, StoredMoves DEF LifeInv, Exists, Later, FirstCreation
  <2>2. ASSUME NEW g \in Grants, agCache'[g].phase # "absent",
               NEW o, o = agCache'[g]
        PROVE  Known(o, g)'
    <3>1. CASE o = agCache[g]
      BY <1>2, <2>2, <3>1, KnownStays DEF LifeInv
    <3>2. CASE o = ag[g] /\ UNCHANGED <<ag, created>>
      BY <2>2, <3>2 DEF LifeInv, Known, Exists
    <3> QED
      BY <1>2, <2>2, <3>1, <3>2, GrantCacheMoves
  <2>3. ASSUME pc' # "idle", NEW o, o = obj', NEW g, g = key'
        PROVE  o.phase # "absent" /\ Known(o, g)'
    <3>1. CASE pc # "idle" /\ key' = key /\ SameRequest(obj', obj)
      <4>1. o.phase # "absent" /\ Known(o, g) /\ g \in Grants
        BY <2>3, <3>1, SameIsKnown DEF LifeInv, TypeOK, SameRequest
      <4> QED
        BY <1>2, <4>1, KnownStays
    <3>2. CASE \E h \in Grants : TakesUp(h)
      <4>1. g \in Grants /\ TakesUp(g)
        BY <2>3, <3>2 DEF TakesUp
      <4>2. o.phase # "absent" /\ Known(o, g)
        BY <2>3, <4>1, SameIsKnown DEF TakesUp, LifeInv, SameRequest
      <4> QED
        BY <1>2, <4>1, <4>2, KnownStays
    <3> QED
      BY <1>2, <2>3, <3>1, <3>2, WorkerMoves
  <2> QED
    BY <2>1, <2>2, <2>3 DEF LifeInv, Exists, Known
<1> QED
  BY <1>1, <1>2

LEMMA LifeHolds ==
  ASSUME OneLife
  PROVE  Spec => []LifeInv
<1>1. Init => LifeInv
  BY NoObjectType DEF Init, LifeInv, Exists
<1>2. TypeOK /\ IInv /\ LifeInv /\ [Next]_vars => LifeInv'
  BY NextLife
<1> QED
  BY <1>1, <1>2, TypeCorrect, InvariantHolds, PTL DEF Spec

-----------------------------------------------------------------------------
(* Whose a RoleBinding is: made for a grant that has existed, and if that  *)
(* still exists, from its spec.                                            *)

Owned(k, b) ==
  \E g \in created :
    /\ g.name = k[1]
    /\ Exists(g) => k = BindingKey(g, ag[g].spec) /\ b = Binding(ag[g].spec)

OwnedInv ==
  \A k \in BindingKeys :
    /\ rb[k] # NoBinding => Owned(k, rb[k])
    /\ rbCache[k] # NoBinding => Owned(k, rbCache[k])

LEMMA OwnedStays ==
  ASSUME TypeOK, IInv, OneLife, Next, NEW k, NEW b, Owned(k, b)
  PROVE  Owned(k, b)'
<1>1. PICK g \in created :
        /\ g.name = k[1]
        /\ Exists(g) => k = BindingKey(g, ag[g].spec) /\ b = Binding(ag[g].spec)
  BY DEF Owned
<1>2. g \in Grants /\ Later(ag[g], ag'[g]) /\ g \in created'
  BY StoredMoves DEF TypeOK, FirstCreation
<1>3. Exists(g)' => k = BindingKey(g, ag'[g].spec) /\ b = Binding(ag'[g].spec)
  BY <1>1, <1>2 DEF Later, Exists
<1> QED
  BY <1>1, <1>2, <1>3 DEF Owned, BindingKey

LEMMA NextOwned ==
  ASSUME TypeOK, IInv, OneLife, LifeInv, OwnedInv, [Next]_vars
  PROVE  OwnedInv'
<1>1. CASE UNCHANGED vars
  BY <1>1 DEF vars, cluster, caches, OwnedInv, Owned, Exists, BindingKey, Binding
<1>2. CASE Next
  <2>1. ASSUME NEW k \in BindingKeys, NEW b, b = rb'[k], b # NoBinding
        PROVE  Owned(k, b)'
    <3>1. CASE b = rb[k]
      BY <1>2, <2>1, <3>1, OwnedStays DEF OwnedInv
    <3>2. CASE /\ pc = "createBinding" /\ k = BindingKey(key, obj.spec)
               /\ b = Binding(obj.spec)
      <4>1. Known(obj, key) /\ key \in Grants
        BY <3>2 DEF LifeInv, TypeOK
      <4>2. Owned(k, b)
        BY <3>2, <4>1 DEF Owned, Known, BindingKey
      <4> QED
        BY <1>2, <4>2, OwnedStays
    <3> QED
      BY <1>2, <2>1, <3>1, <3>2, BindingMoves
  <2>2. ASSUME NEW k \in BindingKeys, NEW b, b = rbCache'[k], b # NoBinding
        PROVE  Owned(k, b)'
    <3>1. Owned(k, b)
      BY <1>2, <2>2, BindingCacheMoves DEF OwnedInv
    <3> QED
      BY <1>2, <3>1, OwnedStays
  <2>3. ASSUME NEW k \in BindingKeys
        PROVE  /\ rb'[k] # NoBinding => Owned(k, rb[k])'
               /\ rbCache'[k] # NoBinding => Owned(k, rbCache[k])'
    BY <2>1, <2>2 DEF Owned, Exists, BindingKey, Binding
  <2> QED
    BY <2>3 DEF OwnedInv
<1> QED
  BY <1>1, <1>2

LEMMA OwnedHolds ==
  ASSUME OneLife
  PROVE  Spec => []OwnedInv
<1>1. Init => OwnedInv
  BY DEF Init, OwnedInv
<1>2. TypeOK /\ IInv /\ LifeInv /\ OwnedInv /\ [Next]_vars => OwnedInv'
  BY NextOwned
<1> QED
  BY <1>1, <1>2, TypeCorrect, InvariantHolds, LifeHolds, PTL DEF Spec

(* The RoleBinding of a grant that exists is its own.                      *)
LEMMA OwnBinding ==
  ASSUME TypeOK, DistinctNames, LifeInv, OwnedInv, NEW g \in Grants, NEW k \in BindingKeys,
         k[1] = g.name, rb[k] # NoBinding \/ rbCache[k] # NoBinding
  PROVE  /\ g \in created
         /\ Exists(g) => /\ k = BindingKey(g, ag[g].spec)
                         /\ rb[k] # NoBinding => rb[k] = Binding(ag[g].spec)
  BY DEF OwnedInv, Owned, DistinctNames, TypeOK

LEMMA KeyOf ==
  ASSUME TypeOK, NEW g \in Grants
  PROVE  /\ BindingKey(g, ag[g].spec) \in BindingKeys
         /\ BindingKey(g, ag[g].spec)[1] = g.name
  BY BindingTypes DEF TypeOK, Objects, BindingKey

-----------------------------------------------------------------------------
(* No RoleBinding of a production grant without an approval.               *)

LEMMA NextUnapproved ==
  ASSUME TypeOK, IInv, DistinctNames, OneLife, ApprovalsStay, LifeInv, OwnedInv,
         UnapprovedHasNoBinding, [Next]_vars
  PROVE  UnapprovedHasNoBinding'
<1>1. CASE UNCHANGED vars
  BY <1>1 DEF vars, cluster, UnapprovedHasNoBinding, BindingOf, Exists, BindingKey
<1>2. CASE Next
  <2> SUFFICES ASSUME NEW g \in Grants, ag'[g].phase # "absent",
                      ag'[g].spec.environment = "prod", ag'[g].approver = NoApprover,
                      NEW k, k = BindingKey(g, ag'[g].spec)
               PROVE  rb'[k] = NoBinding
    BY DEF UnapprovedHasNoBinding, BindingOf, Exists, BindingKey
  <2>1. TypeOK' /\ k \in BindingKeys /\ k[1] = g.name
    BY <1>2, NextType, BindingTypes DEF TypeOK, Objects, BindingKey
  <2>2. CASE FirstCreation(g)
    <3>1. rb[k] = NoBinding
      BY <2>1, <2>2, OwnBinding DEF FirstCreation
    <3> QED
      BY <2>2, <3>1 DEF FirstCreation
  <2>3. CASE Later(ag[g], ag'[g])
    <3>1. /\ Exists(g) /\ ag[g].spec = ag'[g].spec /\ ag[g].approver = NoApprover
      BY <2>3 DEF Later, Exists, ApprovalsStay
    <3>2. rb[k] = NoBinding
      BY <3>1 DEF UnapprovedHasNoBinding, BindingOf
    <3>3. ASSUME pc = "createBinding", k = BindingKey(key, obj.spec) PROVE FALSE
      <4>1. key \in Grants /\ Known(obj, key) /\ key = g
        BY <2>1, <3>3 DEF LifeInv, TypeOK, DistinctNames, BindingKey
      <4>2. obj.spec = ag[g].spec /\ obj.approver = NoApprover
        BY <3>1, <4>1 DEF Known
      <4> QED
        BY <3>1, <3>3, <4>2 DEF IInv, ActivationIsSound, Activating
    <3> QED
      BY <1>2, <2>1, <3>2, <3>3, BindingMoves
  <2> QED
    BY <1>2, <2>2, <2>3, StoredMoves
<1> QED
  BY <1>1, <1>2

(* A production grant has no RoleBinding before it is approved, however    *)
(* often it is reconciled from old copies, where approvals are not         *)
(* withdrawn.                                                              *)
THEOREM UnapprovedIsUnbound ==
  ASSUME DistinctNames, OneLife, ApprovalsStay
  PROVE  Spec => []UnapprovedHasNoBinding
<1>1. Init => UnapprovedHasNoBinding
  BY NoObjectType DEF Init, UnapprovedHasNoBinding, Exists
<1>2. TypeOK /\ IInv /\ LifeInv /\ OwnedInv /\ UnapprovedHasNoBinding /\ [Next]_vars
      => UnapprovedHasNoBinding'
  BY NextUnapproved
<1> QED
  BY <1>1, <1>2, TypeCorrect, InvariantHolds, LifeHolds, OwnedHolds, PTL DEF Spec

-----------------------------------------------------------------------------
(* The end of a grant: what is over stays over.                            *)

LEMMA TimeMoves ==
  ASSUME Next
  PROVE  now' = now \/ (Tick /\ now' = now + 1)
<1>1. ASSUME NEW g \in Grants, Reconcile(g) PROVE now' = now
  BY <1>1 DEF Reconcile, ReconcileNothing, ReconcileDeletion, ReconcileAddFinalizer,
     ReconcileReject, ReconcileStillActive, ReconcileExpire, ReconcileAwaitApproval,
     ReconcileActivate, Start, Take
<1>2. ASSUME NEW out \in Outcomes, Call(out) PROVE now' = now
  BY <1>2 DEF Call, AddFinalizer, WriteFailed, WritePending, LookupBinding,
     CreateBinding, WriteActive, FindBinding, DeleteBinding, WriteExpired,
     RemoveFinalizer, Ends
<1>3. CASE Manager
  BY <1>3 DEF Manager, CacheSync, TimerFire, Resync, BindingSync, Tick, Restart
<1>4. CASE Clients
  BY <1>4 DEF Clients, UserCreate, UserEdit, UserDelete, BrokerAnnotate, BrokerRevoke,
     ClientWrite, Unbind
<1> QED
  BY <1>1, <1>2, <1>3, <1>4, NextKinds

(* Only the worker makes a grant wait, when it rejects it or finds no      *)
(* approval, and only the worker makes it expire.                          *)
DecidedAt(g, calls) == pc \in calls /\ fresh /\ key = g

LEMMA WhoDecides ==
  ASSUME TypeOK, IInv, Next, NEW g \in Grants, ag'[g].status # ag[g].status,
         ag'[g].status.state \in {"Pending", "PendingApproval", "Expired"}
  PROVE  DecidedAt(g, IF ag'[g].status.state = "Expired" THEN {"writeExpired"}
                      ELSE {"writeFailed", "writePending"})
<1> DEFINE Goal == DecidedAt(g, IF ag'[g].status.state = "Expired" THEN {"writeExpired"}
                                ELSE {"writeFailed", "writePending"})
<1>1. obj \in Objects /\ key \in Grants /\ ag[g] \in Objects /\ FreshCopyIsStored
  BY DEF TypeOK, IInv
<1>2. ASSUME NEW out, NEW o, Update(out, o), ag'[g] # ag[g]
      PROVE  fresh /\ key = g /\ ag'[g] = o
  BY <1>2 DEF Update, Store, TypeOK
<1>3. ASSUME NEW out \in Outcomes, Call(out)
      PROVE  Goal
  <2>1. CASE WriteFailed(out) \/ WritePending(out)
    <3>1. fresh => obj.status.state \in {"Pending", "PendingApproval"}
      BY <1>1, <2>1, RejectedType, AwaitingApprovalType
         DEF WriteFailed, WritePending, FreshCopyIsStored, TypeOK
    <3> QED
      BY <1>2, <2>1, <3>1 DEF WriteFailed, WritePending, DecidedAt
  <2>2. CASE AddFinalizer(out)
    <3>1. fresh => obj.status = ag[key].status
      BY <1>1, <2>2 DEF AddFinalizer, FreshCopyIsStored, TypeOK, Objects
    <3> QED
      BY <1>2, <2>2, <3>1 DEF AddFinalizer
  <2>3. CASE WriteActive(out)
    <3>1. fresh => obj.status.state = "Active"
      <4> SUFFICES ASSUME fresh PROVE obj.status.state = "Active"
        OBVIOUS
      <4>1. PICK t \in 0..now : obj = Activated(Approved(ag[key]), t)
        BY <1>1, <2>3 DEF WriteActive, FreshCopyIsStored
      <4>2. t \in Int /\ Approved(ag[key]) \in Objects
        BY ApprovedType DEF TypeOK
      <4> QED
        BY <4>1, <4>2, ActivatedType
    <3> QED
      BY <1>2, <2>3, <3>1 DEF WriteActive
  <2>4. CASE WriteExpired(out)
    <3>1. fresh => obj.status.state = "Expired"
      BY <1>1, <2>4, ExpiredType DEF WriteExpired, FreshCopyIsStored, TypeOK
    <3> QED
      BY <1>2, <2>4, <3>1 DEF WriteExpired, DecidedAt
  <2>5. CASE RemoveFinalizer(out)
    BY <1>2, <2>5, NoObjectType DEF RemoveFinalizer
  <2>6. CASE \/ LookupBinding(out) \/ CreateBinding(out)
             \/ FindBinding(out) \/ DeleteBinding(out)
    BY <2>6 DEF LookupBinding, CreateBinding, FindBinding, DeleteBinding
  <2> QED
    BY <1>3, <2>1, <2>2, <2>3, <2>4, <2>5, <2>6 DEF Call
<1>4. ASSUME Clients PROVE FALSE
  <2>1. ASSUME NEW action, NEW h \in Grants, NEW o, ClientWrite(action, h, o)
        PROVE  g = h /\ ag'[g] = o
    BY <2>1 DEF ClientWrite, Store, TypeOK
  <2>2. ASSUME NEW h \in Grants, NEW s \in Specs, UserCreate(h, s) PROVE FALSE
    BY <2>1, <2>2, NewObjectType DEF UserCreate
  <2>3. ASSUME NEW h \in Grants, NEW s \in Specs, UserEdit(h, s) PROVE FALSE
    <3>1. [ag[g] EXCEPT !.spec = s].status = ag[g].status
      BY <1>1 DEF Objects
    <3> QED
      BY <2>1, <2>3, <3>1 DEF UserEdit
  <2>4. ASSUME NEW h \in Grants, NEW a \in Approvers \cup {NoApprover},
               BrokerAnnotate(h, a)
        PROVE  FALSE
    <3>1. [ag[g] EXCEPT !.approver = a].status = ag[g].status
      BY <1>1 DEF Objects
    <3> QED
      BY <2>1, <2>4, <3>1 DEF BrokerAnnotate
  <2>5. ASSUME NEW h \in Grants, UserDelete(h) PROVE FALSE
    <3>1. [ag[g] EXCEPT !.phase = "deleting"].status = ag[g].status
      BY <1>1 DEF Objects
    <3> QED
      BY <2>1, <2>5, <3>1, NoObjectType DEF UserDelete
  <2>6. ASSUME NEW h \in Grants, BrokerRevoke(h) PROVE FALSE
    <3>1. [ag[g] EXCEPT !.status.state = "Revoked"].status.state = "Revoked"
      BY <1>1 DEF Objects, Statuses
    <3> QED
      BY <2>1, <2>6, <3>1 DEF BrokerRevoke
  <2>7. ASSUME NEW k \in BindingKeys, Unbind(k) PROVE FALSE
    BY <2>7 DEF Unbind
  <2> QED
    BY <1>4, <2>2, <2>3, <2>4, <2>5, <2>6, <2>7 DEF Clients
<1>5. ASSUME NEW h \in Grants, Reconcile(h) PROVE FALSE
  BY <1>5, ReconcileMoves DEF TakesUp
<1>6. ASSUME Manager PROVE FALSE
  BY <1>6 DEF Manager, CacheSync, TimerFire, Resync, BindingSync, Tick, Restart,
     cluster
<1> QED
  BY <1>3, <1>4, <1>5, <1>6, NextKinds

(* An active grant is within policy as long as nobody edits it.            *)
ActiveIsValid ==
  \A g \in Grants :
    Exists(g) /\ ag[g].status.state = "Active" => WithinPolicy(ag[g].spec)

LEMMA NextValid ==
  ASSUME TypeOK, IInv, OneLife, ActiveIsValid, [Next]_vars
  PROVE  ActiveIsValid'
<1>1. CASE UNCHANGED vars
  BY <1>1 DEF vars, cluster, ActiveIsValid, Exists, WithinPolicy, MaxTTL
<1>2. CASE Next
  <2> SUFFICES ASSUME NEW g \in Grants, ag'[g].phase # "absent",
                      ag'[g].status.state = "Active"
               PROVE  WithinPolicy(ag'[g].spec)
    BY DEF ActiveIsValid, Exists, WithinPolicy, MaxTTL
  <2>1. CASE Activation(g)
    BY <2>1 DEF Activation, IInv, ActivationIsSound, Activating
  <2>2. CASE ~Activation(g)
    <3>1. ag'[g].status = ag[g].status
      BY <1>2, <2>2, NextStatus DEF StatusStep
    <3>2. NoStatus.state = ""
      BY DEF NoStatus
    <3>3. Later(ag[g], ag'[g])
      BY <1>2, <3>2, StoredMoves DEF FirstCreation
    <3> QED
      BY <3>1, <3>3 DEF ActiveIsValid, Exists, Later
  <2> QED
    BY <2>1, <2>2
<1> QED
  BY <1>1, <1>2

LEMMA ValidHolds ==
  ASSUME OneLife
  PROVE  Spec => []ActiveIsValid
<1>1. Init => ActiveIsValid
  BY NoObjectType DEF Init, ActiveIsValid, Exists
<1>2. TypeOK /\ IInv /\ ActiveIsValid /\ [Next]_vars => ActiveIsValid'
  BY NextValid
<1> QED
  BY <1>1, <1>2, TypeCorrect, InvariantHolds, PTL DEF Spec

(* An active grant stays as it is, or it is over.                          *)
LEMMA ActiveMoves ==
  ASSUME TypeOK, IInv, DecisionIsDue, OneLife, ActiveIsValid, Next,
         NEW g \in Grants, g \in created, ag[g].status.state = "Active",
         ag'[g].phase = "live"
  PROVE  /\ ag[g].phase = "live"
         /\ ag'[g].status = ag[g].status \/ ag'[g].status.state \in Terminal
<1>1. Later(ag[g], ag'[g]) /\ ag[g].phase = "live" /\ Exists(g)
  BY StoredMoves DEF FirstCreation, Later, Exists
<1>2. ~Activation(g)
  BY DEF Activation, IInv, FreshCopyIsStored, Activating
<1>3. ASSUME ag'[g].status # ag[g].status,
             ag'[g].status.state \in {"Pending", "PendingApproval"}
      PROVE  FALSE
  <2>1. pc \in {"writeFailed", "writePending"} /\ fresh /\ key = g
    BY <1>3, WhoDecides DEF DecidedAt
  <2>2. pc = "writeFailed"
    BY <2>1 DEF IInv, FreshCopyIsStored
  <2>3. obj.spec = ag[g].spec
    BY <2>1, FreshCopy
  <2> QED
    BY <1>1, <2>2, <2>3 DEF DecisionIsDue, ActiveIsValid
<1>4. StatusStep(g)
  BY NextStatus
<1> QED
  BY <1>1, <1>2, <1>3, <1>4 DEF StatusStep, Terminal

(* A terminal one stays terminal. *)
LEMMA TerminalMoves ==
  ASSUME TypeOK, IInv, Next, NEW g \in Grants, ag[g].phase = "live",
         ag'[g].phase = "live", ag[g].status.state \in Terminal
  PROVE  ag'[g].status.state \in Terminal
<1>1. ~Activation(g)
  BY DEF Activation, IInv, FreshCopyIsStored, Activating
<1> QED
  BY <1>1, NextStatus DEF StatusStep, Granted, Terminal

Ended(g) ==
  \/ ag[g].phase # "live" \/ ag[g].status.state \in Terminal
  \/ ag[g].status.state = "Active" /\ Due(ag[g])

LEMMA EndedStays ==
  ASSUME TypeOK, IInv, DecisionIsDue, OneLife, ActiveIsValid, Next,
         NEW g \in Grants, g \in created, Ended(g)
  PROVE  Ended(g)'
<1> SUFFICES ASSUME ag'[g].phase = "live" PROVE Ended(g)'
  BY DEF Ended
<1>1. Later(ag[g], ag'[g]) /\ ag[g].phase = "live"
  BY StoredMoves DEF FirstCreation, Later
<1>2. CASE ag[g].status.state \in Terminal
  BY <1>1, <1>2, TerminalMoves DEF Ended
<1>3. CASE ag[g].status.state = "Active" /\ Due(ag[g])
  <2>1. CASE ag'[g].status = ag[g].status
    <3>1. ag[g].status.expiresAt \in Int /\ now \in Int
      BY <1>3 DEF TypeOK, Objects, Statuses, Due
    <3>2. now' >= ag[g].status.expiresAt
      BY <1>3, <3>1, TimeMoves DEF Due
    <3> QED
      BY <1>3, <2>1, <3>2 DEF Ended, Due
  <2>2. CASE ag'[g].status.state \in Terminal
    BY <2>2 DEF Ended
  <2> QED
    BY <1>3, <2>1, <2>2, ActiveMoves
<1> QED
  BY <1>1, <1>2, <1>3 DEF Ended

-----------------------------------------------------------------------------
(* The worker cleans up what is over only.                                 *)

Cleaning == {"findBinding", "deleteBinding", "writeExpired", "removeFinalizer"}

(* What the cache shows of an active grant, is so or is over.              *)
ActiveSince(g, t) ==
  \/ Ended(g)
  \/ ag[g].phase = "live" /\ ag[g].status.state = "Active" /\ ag[g].status.expiresAt = t

CacheShows(g) ==
  LET c == agCache[g] IN
  /\ Deleting(c) => Ended(g)
  /\ c.phase = "live" /\ Granted(c) => ActiveSince(g, c.status.expiresAt)

EndInv ==
  /\ \A g \in Grants : CacheShows(g)
  /\ pc \in Cleaning => Ended(key)

LEMMA SinceStays ==
  ASSUME TypeOK, IInv, DecisionIsDue, OneLife, ActiveIsValid, Next,
         NEW g \in Grants, g \in created, NEW t, ActiveSince(g, t)
  PROVE  ActiveSince(g, t)'
<1>1. CASE Ended(g)
  BY <1>1, EndedStays DEF ActiveSince
<1>2. CASE ag'[g].phase # "live"
  BY <1>2 DEF ActiveSince, Ended
<1>3. CASE ~Ended(g) /\ ag'[g].phase = "live"
  <2>1. ag[g].status.state = "Active" /\ ag[g].status.expiresAt = t
    BY <1>3 DEF ActiveSince
  <2>2. ag'[g].status = ag[g].status \/ ag'[g].status.state \in Terminal
    BY <1>3, <2>1, ActiveMoves
  <2> QED
    BY <1>3, <2>1, <2>2 DEF ActiveSince, Ended
<1> QED
  BY <1>1, <1>2, <1>3

(* A cleanup starts from a cached grant that is deleted or overdue.        *)
LEMMA CleaningBegins ==
  ASSUME TypeOK, Next, pc' \in Cleaning
  PROVE  \/ pc \in Cleaning /\ key' = key
         \/ /\ key' \in Grants /\ pc = "idle" /\ UNCHANGED <<ag, rb, agCache, rbCache, created, now>>
            /\ \/ Deleting(agCache[key'])
               \/ /\ agCache[key'].phase = "live" /\ Granted(agCache[key'])
                  /\ Due(agCache[key'])
<1>1. ASSUME NEW g \in Grants, Reconcile(g), pc = "idle"
      PROVE  /\ key' = g /\ UNCHANGED <<ag, rb, agCache, rbCache, created, now>>
             /\ \/ Deleting(agCache[g])
                \/ agCache[g].phase = "live" /\ Granted(agCache[g]) /\ Due(agCache[g])
  <2>1. ASSUME UNCHANGED worker PROVE FALSE
    BY <1>1, <2>1 DEF worker, Cleaning
  <2>2. ReconcileDeletion(g) \/ ReconcileExpire(g)
    BY <1>1, <2>1 DEF Reconcile, ReconcileNothing, ReconcileAddFinalizer, ReconcileReject,
       ReconcileStillActive, ReconcileAwaitApproval, ReconcileActivate, Start, Cleaning
  <2>3. key' = g
    BY <2>2 DEF ReconcileDeletion, ReconcileExpire, Start
  <2>4. \/ Deleting(agCache[g])
        \/ agCache[g].phase = "live" /\ Granted(agCache[g]) /\ Due(agCache[g])
    BY <2>2 DEF ReconcileDeletion, ReconcileExpire, Valid, Reconcilable, Granted, Due
  <2> QED
    BY <1>1, <2>1, <2>3, <2>4, ReconcileMoves DEF TakesUp
<1>2. ASSUME NEW g \in Grants, Reconcile(g) PROVE pc = "idle"
  BY <1>2 DEF Reconcile, ReconcileNothing, ReconcileDeletion, ReconcileAddFinalizer,
     ReconcileReject, ReconcileStillActive, ReconcileExpire, ReconcileAwaitApproval,
     ReconcileActivate, Start, Take
<1>3. ASSUME NEW out \in Outcomes, Call(out) PROVE pc \in Cleaning /\ key' = key
  <2>1. key' = key
    BY <1>3, CallMoves DEF Cleaning
  <2>2. pc \in Cleaning
    BY <1>3 DEF Call, AddFinalizer, WriteFailed, WritePending, LookupBinding, CreateBinding,
       WriteActive, FindBinding, DeleteBinding, WriteExpired, RemoveFinalizer, Done, Requeue,
       RequeueAt, Return, Continue, Cleaning
  <2> QED
    BY <2>1, <2>2
<1>4. CASE Manager
  BY <1>4 DEF Manager, CacheSync, TimerFire, Resync, BindingSync, Tick, Restart,
     Return, worker, Cleaning
<1>5. CASE Clients
  BY <1>5 DEF Clients, UserCreate, UserEdit, UserDelete, BrokerAnnotate,
     BrokerRevoke, ClientWrite, Unbind, worker
<1> QED
  BY <1>1, <1>2, <1>3, <1>4, <1>5, NextKinds

LEMMA NextEnd ==
  ASSUME TypeOK, IInv, DecisionIsDue, OneLife, ActiveIsValid, LifeInv, EndInv, [Next]_vars
  PROVE  EndInv'
<1>1. CASE UNCHANGED vars
  BY <1>1 DEF vars, cluster, caches, worker, EndInv, CacheShows, ActiveSince, Ended, Due, Deleting, Granted
<1>2. CASE Next
  <2>1. ASSUME NEW g \in Grants, NEW c, c = agCache'[g], Deleting(c)
        PROVE  Ended(g)'
    <3>1. CASE c = agCache[g]
      <4>1. Ended(g) /\ g \in created
        BY <2>1, <3>1 DEF EndInv, CacheShows, LifeInv, Known, Deleting
      <4> QED
        BY <1>2, <4>1, EndedStays
    <3>2. CASE c = ag[g] /\ UNCHANGED ag
      BY <2>1, <3>2 DEF Ended, Deleting
    <3> QED
      BY <1>2, <2>1, <3>1, <3>2, GrantCacheMoves
  <2>2. ASSUME NEW g \in Grants, NEW c, c = agCache'[g], c.phase = "live", Granted(c),
               NEW t, t = c.status.expiresAt
        PROVE  ActiveSince(g, t)'
    <3>1. CASE c = agCache[g]
      <4>1. ActiveSince(g, t) /\ g \in created
        BY <2>2, <3>1 DEF EndInv, CacheShows, LifeInv, Known
      <4> QED
        BY <1>2, <4>1, SinceStays
    <3>2. CASE c = ag[g] /\ UNCHANGED ag
      BY <2>2, <3>2 DEF ActiveSince, Granted
    <3> QED
      BY <1>2, <2>2, <3>1, <3>2, GrantCacheMoves
  <2>3. ASSUME pc' \in Cleaning, NEW g, g = key' PROVE Ended(g)'
    <3>1. CASE pc \in Cleaning /\ key' = key
      <4>1. Ended(g) /\ g \in created /\ g \in Grants
        BY <2>3, <3>1 DEF EndInv, LifeInv, Known, Cleaning, TypeOK
      <4> QED
        BY <1>2, <4>1, EndedStays
    <3>2. CASE /\ g \in Grants
               /\ \/ Deleting(agCache[g])
                  \/ agCache[g].phase = "live" /\ Granted(agCache[g]) /\ Due(agCache[g])
      <4>1. g \in created
        BY <3>2 DEF LifeInv, Known, Deleting
      <4>2. Ended(g)
        BY <3>2 DEF EndInv, CacheShows, ActiveSince, Ended, Due
      <4> QED
        BY <1>2, <3>2, <4>1, <4>2, EndedStays
    <3> QED
      BY <1>2, <2>3, <3>1, <3>2, CleaningBegins
  <2>4. ASSUME NEW g \in Grants
        PROVE  CacheShows(g)'
    BY <2>1, <2>2 DEF CacheShows, ActiveSince, Ended, Due, Deleting, Granted
  <2> QED
    BY <2>3, <2>4 DEF EndInv, Ended, Due
<1> QED
  BY <1>1, <1>2

LEMMA EndHolds ==
  ASSUME OneLife
  PROVE  Spec => []EndInv
<1>1. Init => EndInv /\ DecisionIsDue
  BY NoObjectType DEF Init, EndInv, CacheShows, Cleaning, Deleting, DecisionIsDue
<1>2. TypeOK /\ IInv /\ DecisionIsDue /\ ActiveIsValid /\ LifeInv /\ EndInv /\ [Next]_vars
      => DecisionIsDue' /\ EndInv'
  BY NextEnd, NextIsDue
<1> QED
  BY <1>1, <1>2, TypeCorrect, InvariantHolds, ValidHolds, LifeHolds, PTL DEF Spec

-----------------------------------------------------------------------------
(* Access is there while the TTL runs.                                     *)

BindingsStay == "unbind" \notin UserActions

(* As long as a grant is not over, its RoleBinding is there when it is     *)
(* active or a cache has seen the RoleBinding, and once it is about to     *)
(* become active.                                                          *)
BoundInv ==
  /\ \A g \in Grants :
       /\ ~Ended(g)
       /\ ag[g].status.state = "Active" \/ rbCache[BindingKey(g, ag[g].spec)] # NoBinding
       => BindingOf(g) # NoBinding
  /\ pc = "writeActive" /\ ~Ended(key) => BindingOf(key) # NoBinding

LEMMA BindingIsSome ==
  ASSUME NEW s \in Specs
  PROVE  Binding(s) # NoBinding
  BY NilAssumption DEF Binding, ClusterRole, Roles

(* Nobody takes the RoleBinding of a grant that is not over. *)
LEMMA BindingStays ==
  ASSUME TypeOK, DistinctNames, BindingsStay, EndInv, LifeInv, Next,
         NEW g \in Grants, ~Ended(g), BindingOf(g) # NoBinding
  PROVE  rb'[BindingKey(g, ag[g].spec)] # NoBinding
<1> DEFINE k == BindingKey(g, ag[g].spec)
<1>1. k \in BindingKeys /\ k[1] = g.name
  BY KeyOf
<1>2. ASSUME pc = "deleteBinding", k = BindingKey(key, obj.spec) PROVE FALSE
  <2>1. key = g
    BY <1>1, <1>2 DEF BindingKey, DistinctNames, TypeOK
  <2> QED
    BY <1>2, <2>1 DEF EndInv, Cleaning
<1>3. obj.spec \in Specs
  BY DEF TypeOK, Objects
<1> QED
  BY <1>1, <1>2, <1>3, BindingMoves, BindingIsSome DEF BindingsStay, BindingOf

(* The way to writeActive. *)
LEMMA ActivationGoesOn ==
  ASSUME TypeOK, Next, pc' = "writeActive"
  PROVE  \/ pc = "writeActive" /\ key' = key /\ obj' = obj
         \/ /\ pc \in {"lookupBinding", "createBinding"} /\ key' = key
            /\ obj' = Activated(obj, now)
            /\ UNCHANGED <<ag, agCache, rbCache, created, now>>
            /\ \/ rbCache[BindingKey(key, obj.spec)] # NoBinding /\ UNCHANGED rb
               \/ rb'[BindingKey(key, obj.spec)] # NoBinding
<1>1. ASSUME NEW out \in Outcomes, Call(out)
      PROVE  /\ pc \in {"lookupBinding", "createBinding"} /\ key' = key
             /\ obj' = Activated(obj, now)
             /\ UNCHANGED <<ag, agCache, rbCache, created, now>>
             /\ \/ rbCache[BindingKey(key, obj.spec)] # NoBinding /\ UNCHANGED rb
                \/ rb'[BindingKey(key, obj.spec)] # NoBinding
  <2>1. UNCHANGED <<ag, agCache, rbCache, created, now>>
    BY <1>1, CallMoves
  <2>2. CASE LookupBinding(out)
    BY <2>1, <2>2 DEF LookupBinding, Continue, Requeue, Return
  <2>3. CASE CreateBinding(out)
    <3>1. obj.spec \in Specs /\ key \in Grants
      BY DEF TypeOK, Objects
    <3>2. BindingKey(key, obj.spec) \in BindingKeys /\ Binding(obj.spec) # NoBinding
      BY <3>1, BindingTypes, BindingIsSome
    <3> QED
      BY <2>1, <2>3, <3>2 DEF CreateBinding, Continue, Requeue, Return, TypeOK
  <2>4. ~LookupBinding(out) /\ ~CreateBinding(out) => FALSE
    BY <1>1 DEF Call, AddFinalizer, WriteFailed, WritePending, WriteActive, FindBinding,
       DeleteBinding, WriteExpired, RemoveFinalizer, Done, Requeue, RequeueAt, Return,
       Continue, AfterCleanup, CleanupFailed
  <2> QED
    BY <2>2, <2>3, <2>4
<1>2. ASSUME NEW g \in Grants, Reconcile(g) PROVE pc = "writeActive" /\ key' = key /\ obj' = obj
  BY <1>2 DEF Reconcile, ReconcileNothing, ReconcileDeletion, ReconcileAddFinalizer,
     ReconcileReject, ReconcileStillActive, ReconcileExpire, ReconcileAwaitApproval,
     ReconcileActivate, Start, Take, worker
<1>3. CASE Manager
  BY <1>3 DEF Manager, CacheSync, TimerFire, Resync, BindingSync, Tick, Restart,
     Return, worker
<1>4. CASE Clients
  BY <1>4 DEF Clients, UserCreate, UserEdit, UserDelete, BrokerAnnotate,
     BrokerRevoke, ClientWrite, Unbind, worker
<1> QED
  BY <1>1, <1>2, <1>3, <1>4, NextKinds

(* A grant that is not over has been so before, or is new.                 *)
LEMMA NotEndedBefore ==
  ASSUME TypeOK, IInv, DecisionIsDue, OneLife, ActiveIsValid, LifeInv, Next,
         NEW g \in Grants, ~Ended(g)'
  PROVE  \/ FirstCreation(g) /\ ag'[g].status.state = ""
         \/ ~Ended(g) /\ ag[g].phase = "live" /\ ag'[g].spec = ag[g].spec
<1>1. ag'[g].phase = "live"
  BY DEF Ended
<1>2. CASE FirstCreation(g)
  <2>1. NoStatus.state = ""
    BY DEF NoStatus
  <2> QED
    BY <1>2, <2>1 DEF FirstCreation
<1>3. CASE Later(ag[g], ag'[g])
  <2>1. ag[g].phase = "live" /\ ag'[g].spec = ag[g].spec
    BY <1>1, <1>3 DEF Later
  <2>2. g \in created
    BY <2>1 DEF LifeInv, Exists
  <2> QED
    BY <2>1, <2>2, EndedStays
<1> QED
  BY <1>2, <1>3, StoredMoves

LEMMA NextBound ==
  ASSUME TypeOK, IInv, DecisionIsDue, DistinctNames, OneLife, BindingsStay,
         ActiveIsValid, LifeInv, OwnedInv, EndInv, BoundInv, [Next]_vars
  PROVE  BoundInv'
<1>1. CASE UNCHANGED vars
  BY <1>1 DEF vars, cluster, caches, worker, BoundInv, BindingOf, BindingKey, Ended, Due
<1>2. CASE Next
  <2>1. ASSUME NEW g \in Grants, ~Ended(g)', NEW k, k = BindingKey(g, ag'[g].spec),
               ag'[g].status.state = "Active" \/ rbCache'[k] # NoBinding
        PROVE  rb'[k] # NoBinding
    <3>1. TypeOK' /\ k \in BindingKeys /\ k[1] = g.name
      BY <1>2, <2>1, NextType, BindingTypes DEF TypeOK, Objects, BindingKey
    <3>2. ~FirstCreation(g) \/ ag'[g].status.state # ""
      <4> SUFFICES ASSUME FirstCreation(g), ag'[g].status.state = "" PROVE FALSE
        OBVIOUS
      <4>1. rbCache[k] # NoBinding
        BY <2>1 DEF FirstCreation
      <4> QED
        BY <3>1, <4>1, OwnBinding DEF FirstCreation
    <3>3. ~Ended(g) /\ ag[g].phase = "live" /\ k = BindingKey(g, ag[g].spec)
      BY <1>2, <2>1, <3>2, NotEndedBefore
    <3>4. CASE rb[k] # NoBinding
      BY <1>2, <3>3, <3>4, BindingStays DEF BindingOf
    <3>5. CASE rb[k] = NoBinding
      <4>1. ag[g].status.state # "Active" /\ rbCache[k] = NoBinding
        BY <3>3, <3>5 DEF BoundInv, BindingOf
      <4>2. rbCache'[k] = NoBinding
        BY <1>2, <3>1, <3>5, <4>1, BindingCacheMoves
      <4>3. ag'[g].status.state = "Active"
        BY <2>1, <4>2
      <4>4. Activation(g)
        BY <1>2, <4>1, <4>3, NextStatus DEF StatusStep
      <4> QED
        BY <3>3, <3>5, <4>4 DEF Activation, BoundInv, BindingOf
    <3> QED
      BY <3>4, <3>5
  <2>2. ASSUME pc' = "writeActive", NEW g, g = key', ~Ended(g)'
        PROVE  rb'[BindingKey(g, ag'[g].spec)] # NoBinding
    <3>1. g \in Grants /\ pc' # "idle"
      BY <1>2, <2>2, NextType DEF TypeOK
    <3>2. CASE pc = "writeActive" /\ key' = key
      <4>1. g \in created /\ g = key
        BY <2>2, <3>2 DEF LifeInv, Known
      <4>2. ~Ended(g) /\ ag'[g].spec = ag[g].spec
        BY <1>2, <2>2, <3>1, <4>1, NotEndedBefore DEF FirstCreation
      <4>3. BindingOf(g) # NoBinding
        BY <3>2, <4>1, <4>2 DEF BoundInv
      <4> QED
        BY <1>2, <3>1, <4>2, <4>3, BindingStays
    <3>3. CASE /\ pc \in {"lookupBinding", "createBinding"} /\ key' = key
               /\ UNCHANGED <<ag, agCache, rbCache, created, now>>
               /\ \/ rbCache[BindingKey(key, obj.spec)] # NoBinding /\ UNCHANGED rb
                  \/ rb'[BindingKey(key, obj.spec)] # NoBinding
      <4>1. ~Ended(g) /\ g = key /\ ag'[g] = ag[g] /\ Exists(g)
        BY <2>2, <3>3 DEF Ended, Due, Exists
      <4>2. obj.spec = ag[g].spec
        BY <3>3, <4>1 DEF LifeInv, Known
      <4> QED
        BY <3>1, <3>3, <4>1, <4>2 DEF BoundInv, BindingOf
    <3> QED
      BY <1>2, <2>2, <3>2, <3>3, ActivationGoesOn
  <2>3. ASSUME NEW g \in Grants, ~Ended(g)',
               ag'[g].status.state = "Active" \/ rbCache'[BindingKey(g, ag'[g].spec)] # NoBinding
        PROVE  rb'[BindingKey(g, ag'[g].spec)] # NoBinding
    BY <2>1, <2>3
  <2> QED
    BY <2>2, <2>3 DEF BoundInv, BindingOf, BindingKey
<1> QED
  BY <1>1, <1>2

LEMMA BoundHolds ==
  ASSUME DistinctNames, OneLife, BindingsStay
  PROVE  Spec => []BoundInv
<1>1. Init => BoundInv /\ DecisionIsDue
  BY NoObjectType DEF Init, BoundInv, Ended, DecisionIsDue
<1>2. /\ TypeOK /\ IInv /\ DecisionIsDue /\ ActiveIsValid /\ LifeInv /\ OwnedInv
      /\ EndInv /\ BoundInv /\ [Next]_vars
      => DecisionIsDue' /\ BoundInv'
  BY NextBound, NextIsDue
<1> QED
  BY <1>1, <1>2, TypeCorrect, InvariantHolds, ValidHolds, LifeHolds, OwnedHolds, EndHolds,
     PTL DEF Spec

(* While its TTL runs an active grant has its own RoleBinding, with its    *)
(* subject and role, whatever was read from old caches, failed or was      *)
(* repeated, and however often the operator restarted.                     *)
THEOREM ActiveIsBound ==
  ASSUME DistinctNames, OneLife, BindingsStay
  PROVE  Spec => []BoundWhileActive
<1>1. TypeOK /\ LifeInv /\ OwnedInv /\ BoundInv => BoundWhileActive
  <2> SUFFICES ASSUME TypeOK, LifeInv, OwnedInv, BoundInv, NEW g \in Grants,
                      ag[g].phase = "live", ag[g].status.state = "Active",
                      now < ag[g].status.expiresAt
               PROVE  BindingOf(g) = Binding(ag[g].spec)
    BY DEF BoundWhileActive
  <2>1. ~Ended(g)
    <3>1. ag[g].status.expiresAt \in Int \cup {NoTime} /\ now \in Int
      BY DEF TypeOK, Objects, Statuses
    <3> QED
      BY <3>1 DEF Ended, Due, Terminal
  <2>2. BindingOf(g) # NoBinding
    BY <2>1 DEF BoundInv
  <2> QED
    BY <2>2, KeyOf, OwnBinding DEF BindingOf, Exists
<1> QED
  BY <1>1, TypeCorrect, LifeHolds, OwnedHolds, BoundHolds, PTL

-----------------------------------------------------------------------------
(* After the TTL the RoleBinding is gone, where the cache of the bindings  *)
(* lags by less than a tick and no TTL is shorter than one: the cleanup    *)
(* takes a RoleBinding that it does not see for deleted.                   *)

LongEnough == \A s \in Specs : WithinPolicy(s) => s.ttl >= 1

(* Reconcile will not activate such a grant. *)
Decided(o) == o.phase # "live" \/ o.status.state \in Terminal \cup {"Active"}

(* What the cache has seen decided is decided for good, and only that is   *)
(* cleaned up.                                                             *)
DecidedInv ==
  /\ \A g \in Grants :
       agCache[g].phase # "absent" /\ Decided(agCache[g]) => Decided(ag[g])
  /\ pc \in Cleaning => Decided(ag[key]) /\ Decided(agCache[key])

LEMMA DecidedStays ==
  ASSUME TypeOK, IInv, DecisionIsDue, OneLife, ActiveIsValid, Next,
         NEW g \in Grants, g \in created, Decided(ag[g])
  PROVE  Decided(ag'[g])
<1> SUFFICES ASSUME ag'[g].phase = "live" PROVE Decided(ag'[g])
  BY DEF Decided
<1>1. ag[g].phase = "live"
  BY StoredMoves DEF FirstCreation, Later
<1>2. CASE ag[g].status.state \in Terminal
  BY <1>1, <1>2, TerminalMoves DEF Decided
<1>3. CASE ag[g].status.state = "Active"
  BY <1>3, ActiveMoves DEF Decided
<1> QED
  BY <1>1, <1>2, <1>3 DEF Decided

LEMMA NextDecided ==
  ASSUME TypeOK, IInv, DecisionIsDue, OneLife, ActiveIsValid, LifeInv, DecidedInv, [Next]_vars
  PROVE  DecidedInv'
<1>1. CASE UNCHANGED vars
  BY <1>1 DEF vars, cluster, caches, worker, DecidedInv, Decided
<1>2. CASE Next
  <2>1. ASSUME NEW g \in Grants, agCache'[g].phase # "absent", Decided(agCache'[g])
        PROVE  Decided(ag'[g])
    <3>1. CASE agCache'[g] = agCache[g]
      BY <1>2, <2>1, <3>1, DecidedStays DEF DecidedInv, LifeInv, Known
    <3>2. CASE agCache'[g] = ag[g] /\ UNCHANGED ag
      BY <2>1, <3>2
    <3> QED
      BY <1>2, <3>1, <3>2, GrantCacheMoves
  <2>2. ASSUME pc' \in Cleaning, NEW g, g = key'
        PROVE  Decided(ag'[g]) /\ Decided(agCache'[g])
    <3>1. g \in Grants /\ g \in created /\ Decided(ag[g]) /\ Decided(agCache[g])
      <4>1. CASE pc \in Cleaning /\ key' = key
        BY <2>2, <4>1 DEF DecidedInv, LifeInv, Known, Cleaning, TypeOK
      <4>2. CASE /\ g \in Grants
                 /\ \/ Deleting(agCache[g])
                    \/ agCache[g].phase = "live" /\ Granted(agCache[g])
        <5>1. agCache[g].phase # "absent" /\ Decided(agCache[g])
          BY <4>2 DEF Deleting, Granted, Decided
        <5> QED
          BY <4>2, <5>1 DEF DecidedInv, LifeInv, Known
      <4> QED
        BY <1>2, <2>2, <4>1, <4>2, CleaningBegins
    <3>2. Decided(ag'[g])
      BY <1>2, <3>1, DecidedStays
    <3> QED
      BY <1>2, <3>1, <3>2, GrantCacheMoves
  <2> QED
    BY <2>1, <2>2 DEF DecidedInv, Decided
<1> QED
  BY <1>1, <1>2

LEMMA DecidedHolds ==
  ASSUME OneLife
  PROVE  Spec => []DecidedInv
<1>1. Init => DecidedInv /\ DecisionIsDue
  BY NoObjectType DEF Init, DecidedInv, Cleaning, DecisionIsDue
<1>2. TypeOK /\ IInv /\ DecisionIsDue /\ ActiveIsValid /\ LifeInv /\ DecidedInv /\ [Next]_vars
      => DecisionIsDue' /\ DecidedInv'
  BY NextDecided, NextIsDue
<1> QED
  BY <1>1, <1>2, TypeCorrect, InvariantHolds, ValidHolds, LifeHolds, PTL DEF Spec

(* An active grant refers to its RoleBinding. *)
RefInv ==
  \A g \in Grants : /\ ag[g].status.state = "Active" => ag[g].status.ref
                    /\ agCache[g].status.state = "Active" => agCache[g].status.ref

LEMMA ActivatedRef ==
  ASSUME NEW o \in Objects, NEW t
  PROVE  Activated(o, t).status.ref
<1> DEFINE st == [state |-> "Active", expiresAt |-> t + o.spec.ttl,
                  ref |-> TRUE, approvedBy |-> o.status.approvedBy]
<1>1. st.ref
  OBVIOUS
<1> HIDE DEF st
<1>2. [o EXCEPT !.status = st].status = st
  BY DEF Objects
<1> QED
  BY <1>1, <1>2 DEF Activated, st

LEMMA NextRef ==
  ASSUME TypeOK, IInv, RefInv, [Next]_vars
  PROVE  RefInv'
<1>1. CASE UNCHANGED vars
  BY <1>1 DEF vars, cluster, caches, RefInv
<1>2. CASE Next
  <2>1. ASSUME NEW g \in Grants, ag'[g].status.state = "Active"
        PROVE  ag'[g].status.ref
    <3>1. CASE Activation(g)
      <4>1. PICK t \in 0..now : obj = Activated(Approved(ag[key]), t)
        BY <3>1 DEF Activation, IInv, FreshCopyIsStored
      <4>2. Approved(ag[key]) \in Objects
        BY ApprovedType DEF TypeOK
      <4> QED
        BY <3>1, <4>1, <4>2, ActivatedRef DEF Activation
    <3> QED
      BY <1>2, <2>1, <3>1, NextStatus DEF StatusStep, RefInv
  <2>2. ASSUME NEW g \in Grants, agCache'[g].status.state = "Active"
        PROVE  agCache'[g].status.ref
    BY <1>2, <2>2, GrantCacheMoves DEF RefInv
  <2> QED
    BY <2>1, <2>2 DEF RefInv
<1> QED
  BY <1>1, <1>2

LEMMA RefHolds == Spec => []RefInv
<1>1. Init => RefInv
  BY NoObjectType DEF Init, RefInv
<1>2. TypeOK /\ IInv /\ RefInv /\ [Next]_vars => RefInv'
  BY NextRef
<1> QED
  BY <1>1, <1>2, TypeCorrect, InvariantHolds, PTL DEF Spec

-----------------------------------------------------------------------------
(* Until the cache shows that a grant is active, nobody deletes the        *)
(* RoleBinding of its activation, so none is created a second time.        *)

StillBound(g) ==
  ag[g].phase = "live" /\ ag[g].status.state = "Active" => BindingOf(g) # NoBinding

StillBoundInv ==
  /\ \A g \in Grants :
       agCache[g].phase # "absent" /\ ~Decided(agCache[g]) => StillBound(g)
  /\ pc \in {"lookupBinding", "createBinding"} => StillBound(key)

LEMMA StillBoundStays ==
  ASSUME TypeOK, IInv, DistinctNames, OneLife, BindingsStay, BoundInv, Next,
         NEW g \in Grants, StillBound(g), pc = "deleteBinding" => key # g
  PROVE  StillBound(g)'
<1> SUFFICES ASSUME ag'[g].phase = "live", ag'[g].status.state = "Active"
             PROVE  rb'[BindingKey(g, ag'[g].spec)] # NoBinding
  BY DEF StillBound, BindingOf, BindingKey
<1>1. Later(ag[g], ag'[g])
  <2>1. NoStatus.state = ""
    BY DEF NoStatus
  <2> QED
    BY <2>1, StoredMoves DEF FirstCreation
<1>2. ag[g].phase = "live" /\ ag'[g].spec = ag[g].spec
  BY <1>1 DEF Later
<1> DEFINE k == BindingKey(g, ag[g].spec)
<1>3. k \in BindingKeys /\ k[1] = g.name
  BY KeyOf
<1>4. rb[k] # NoBinding /\ pc = "deleteBinding" => k # BindingKey(key, obj.spec)
  BY <1>3 DEF BindingKey, DistinctNames, TypeOK
<1>5. rb[k] # NoBinding
  <2>1. CASE ag[g].status.state = "Active"
    BY <1>2, <2>1 DEF StillBound, BindingOf
  <2>2. CASE ag[g].status.state # "Active"
    <3>1. Activation(g)
      BY <2>2, NextStatus DEF StatusStep
    <3>2. ~Ended(g)
      BY <1>2, <3>1 DEF Activation, IInv, FreshCopyIsStored, Activating, Ended
    <3> QED
      BY <3>1, <3>2 DEF Activation, BoundInv, BindingOf
  <2> QED
    BY <2>1, <2>2
<1>6. obj.spec \in Specs
  BY DEF TypeOK, Objects
<1> QED
  BY <1>2, <1>3, <1>4, <1>5, <1>6, BindingMoves, BindingIsSome DEF BindingsStay

(* An activation starts from a cached grant that is not decided.           *)
LEMMA ActivatingBegins ==
  ASSUME TypeOK, IInv, Next, pc' \in {"lookupBinding", "createBinding"}
  PROVE  \/ pc \in {"lookupBinding", "createBinding"} /\ key' = key
         \/ /\ key' \in Grants /\ pc = "idle"
            /\ UNCHANGED <<ag, rb, agCache, rbCache, created, now>>
            /\ agCache[key'].phase # "absent" /\ ~Decided(agCache[key'])
<1>1. ASSUME NEW g \in Grants, Reconcile(g), pc = "idle"
      PROVE  /\ key' = g /\ UNCHANGED <<ag, rb, agCache, rbCache, created, now>>
             /\ agCache[g].phase # "absent" /\ ~Decided(agCache[g])
  <2>1. ASSUME UNCHANGED worker PROVE FALSE
    BY <1>1, <2>1 DEF worker
  <2>2. ReconcileActivate(g)
    BY <1>1, <2>1 DEF Reconcile, ReconcileNothing, ReconcileAddFinalizer, ReconcileReject,
       ReconcileStillActive, ReconcileAwaitApproval, ReconcileDeletion, ReconcileExpire, Start
  <2>3. key' = g
    BY <2>2 DEF ReconcileActivate, Start
  <2>4. agCache[g].phase # "absent" /\ ~Decided(agCache[g])
    BY <2>2 DEF ReconcileActivate, Valid, Reconcilable, Granted, Decided, IInv, ActiveHasExpiry
  <2> QED
    BY <1>1, <2>1, <2>3, <2>4, ReconcileMoves DEF TakesUp
<1>2. ASSUME NEW g \in Grants, Reconcile(g) PROVE pc = "idle"
  BY <1>2 DEF Reconcile, ReconcileNothing, ReconcileDeletion, ReconcileAddFinalizer,
     ReconcileReject, ReconcileStillActive, ReconcileExpire, ReconcileAwaitApproval,
     ReconcileActivate, Start, Take
<1>3. ASSUME NEW out \in Outcomes, Call(out)
      PROVE  pc \in {"lookupBinding", "createBinding"} /\ key' = key
  <2>1. key' = key
    BY <1>3, CallMoves
  <2>2. pc \in {"lookupBinding", "createBinding"}
    BY <1>3 DEF Call, AddFinalizer, WriteFailed, WritePending, LookupBinding, CreateBinding,
       WriteActive, FindBinding, DeleteBinding, WriteExpired, RemoveFinalizer, Done, Requeue,
       RequeueAt, Return, Continue, AfterCleanup, CleanupFailed
  <2> QED
    BY <2>1, <2>2
<1>4. CASE Manager
  BY <1>4 DEF Manager, CacheSync, TimerFire, Resync, BindingSync, Tick, Restart,
     Return, worker
<1>5. CASE Clients
  BY <1>5 DEF Clients, UserCreate, UserEdit, UserDelete, BrokerAnnotate,
     BrokerRevoke, ClientWrite, Unbind, worker
<1> QED
  BY <1>1, <1>2, <1>3, <1>4, <1>5, NextKinds

LEMMA NextStillBound ==
  ASSUME TypeOK, IInv, DistinctNames, OneLife, BindingsStay, BoundInv, DecidedInv,
         StillBoundInv, [Next]_vars
  PROVE  StillBoundInv'
<1>1. CASE UNCHANGED vars
  BY <1>1 DEF vars, cluster, caches, worker, StillBoundInv, StillBound, BindingOf,
     BindingKey, Decided
<1>2. CASE Next
  <2>1. ASSUME NEW g \in Grants, agCache'[g].phase # "absent", ~Decided(agCache'[g])
        PROVE  StillBound(g)'
    <3>1. CASE agCache'[g] = agCache[g]
      <4>1. StillBound(g)
        BY <2>1, <3>1 DEF StillBoundInv
      <4>2. pc = "deleteBinding" => key # g
        BY <2>1, <3>1 DEF DecidedInv, Cleaning
      <4> QED
        BY <1>2, <4>1, <4>2, StillBoundStays
    <3>2. CASE agCache'[g] = ag[g] /\ UNCHANGED ag
      BY <2>1, <3>2 DEF StillBound, Decided
    <3> QED
      BY <1>2, <3>1, <3>2, GrantCacheMoves
  <2>2. ASSUME pc' \in {"lookupBinding", "createBinding"}, NEW g, g = key'
        PROVE  StillBound(g)'
    <3>1. CASE pc \in {"lookupBinding", "createBinding"} /\ key' = key
      <4>1. StillBound(g) /\ g \in Grants
        BY <2>2, <3>1 DEF StillBoundInv, TypeOK
      <4> QED
        BY <1>2, <3>1, <4>1, StillBoundStays
    <3>2. CASE /\ g \in Grants /\ pc = "idle"
               /\ agCache[g].phase # "absent" /\ ~Decided(agCache[g])
      <4>1. StillBound(g)
        BY <3>2 DEF StillBoundInv
      <4> QED
        BY <1>2, <3>2, <4>1, StillBoundStays
    <3> QED
      BY <1>2, <2>2, <3>1, <3>2, ActivatingBegins
  <2> QED
    BY <2>1, <2>2 DEF StillBoundInv, StillBound, BindingOf, BindingKey, Decided
<1> QED
  BY <1>1, <1>2

LEMMA StillBoundHolds ==
  ASSUME DistinctNames, OneLife, BindingsStay
  PROVE  Spec => []StillBoundInv
<1>1. Init => StillBoundInv
  BY NoObjectType DEF Init, StillBoundInv
<1>2. /\ TypeOK /\ IInv /\ BoundInv /\ DecidedInv /\ StillBoundInv /\ [Next]_vars
      => StillBoundInv'
  BY NextStillBound
<1> QED
  BY <1>1, <1>2, TypeCorrect, InvariantHolds, BoundHolds, DecidedHolds, PTL DEF Spec

-----------------------------------------------------------------------------
(* The cleanup finds the RoleBinding it has to delete.                     *)

Seen(k) == rb[k] # NoBinding => rbCache[k] # NoBinding

(* When a grant is due, its RoleBinding is in the cache: the tick that     *)
(* made it due came after the creation, and the cache follows by then.     *)
SeenInv ==
  /\ \A g \in Grants :
       ag[g].phase = "live" /\ ag[g].status.state = "Active" /\ Due(ag[g])
         => Seen(BindingKey(g, ag[g].spec))
  /\ pc = "writeActive" /\ Due(obj) => Seen(BindingKey(key, obj.spec))

LEMMA SeenStays ==
  ASSUME TypeOK, Next, NEW k \in BindingKeys, Seen(k),
         pc = "createBinding" => k # BindingKey(key, obj.spec)
  PROVE  Seen(k)'
<1>1. rb'[k] = rb[k] \/ rb'[k] = NoBinding
  BY BindingMoves
<1> QED
  BY <1>1, BindingCacheMoves DEF Seen

LEMMA TickIsSeen ==
  ASSUME TypeOK, PromptBindings, Tick
  PROVE  SeenInv'
<1>1. \A k : Seen(k)'
  BY DEF Tick, cluster, caches, Seen
<1> QED
  BY <1>1 DEF SeenInv, Seen

LEMMA NextSeen ==
  ASSUME TypeOK, IInv, DecisionIsDue, DistinctNames, OneLife, PromptBindings, LongEnough,
         ActiveIsValid, LifeInv, StillBoundInv, SeenInv, [Next]_vars
  PROVE  SeenInv'
<1>1. CASE UNCHANGED vars
  BY <1>1 DEF vars, cluster, caches, worker, SeenInv, Seen, Due, BindingKey
<1>2. CASE Next /\ now' = now
  <2>1. ASSUME NEW g \in Grants, ag'[g].phase = "live", ag'[g].status.state = "Active",
               ag'[g].status.expiresAt # NoTime, now >= ag'[g].status.expiresAt,
               NEW k, k = BindingKey(g, ag'[g].spec)
        PROVE  Seen(k)'
    <3>1. ag[g].phase = "live" /\ ag'[g].spec = ag[g].spec /\ g \in created
      <4>1. NoStatus.state = ""
        BY DEF NoStatus
      <4>2. Later(ag[g], ag'[g])
        BY <1>2, <2>1, <4>1, StoredMoves DEF FirstCreation
      <4> QED
        BY <2>1, <4>2 DEF Later, LifeInv, Exists
    <3>2. k \in BindingKeys /\ k[1] = g.name /\ k = BindingKey(g, ag[g].spec)
      BY <2>1, <3>1, KeyOf
    <3>3. CASE ag[g].status.state = "Active"
      <4>1. ag'[g].status = ag[g].status
        BY <1>2, <2>1, <3>1, <3>3, ActiveMoves DEF Terminal
      <4>2. Due(ag[g])
        BY <1>2, <2>1, <4>1 DEF Due
      <4>3. Seen(k)
        BY <3>1, <3>2, <3>3, <4>2 DEF SeenInv
      <4>4. ASSUME pc = "createBinding", k = BindingKey(key, obj.spec) PROVE Seen(k)'
        <5>1. key = g
          BY <3>2, <4>4 DEF BindingKey, DistinctNames, TypeOK
        <5>2. rb[k] # NoBinding
          BY <3>1, <3>2, <3>3, <4>4, <5>1 DEF StillBoundInv, StillBound, BindingOf
        <5>3. rb'[k] = rb[k] \/ rb'[k] = NoBinding
          BY <1>2, <3>2, <5>2, BindingMoves
        <5> QED
          BY <1>2, <3>2, <4>3, <5>3, BindingCacheMoves DEF Seen
      <4> QED
        BY <1>2, <3>2, <4>3, <4>4, SeenStays
    <3>4. CASE ag[g].status.state # "Active"
      <4>1. Activation(g)
        BY <1>2, <2>1, <3>4, NextStatus DEF StatusStep
      <4>2. pc = "writeActive" /\ key = g /\ ag'[g] = obj
        BY <4>1 DEF Activation
      <4>3. Due(obj)
        BY <1>2, <2>1, <4>2 DEF Due
      <4>4. Seen(k)
        BY <2>1, <4>2, <4>3 DEF SeenInv
      <4> QED
        BY <1>2, <3>2, <4>2, <4>4, SeenStays
    <3> QED
      BY <3>3, <3>4
  <2>2. ASSUME pc' = "writeActive", NEW o, o = obj', Due(o)',
               NEW k, k = BindingKey(key', o.spec)
        PROVE  Seen(k)'
    <3>1. CASE pc = "writeActive" /\ key' = key /\ obj' = obj
      <4>1. Due(obj)
        BY <1>2, <2>2, <3>1 DEF Due
      <4>2. Seen(k) /\ k \in BindingKeys
        BY <2>2, <3>1, <4>1, BindingTypes DEF SeenInv, TypeOK, Objects
      <4> QED
        BY <1>2, <3>1, <4>2, SeenStays
    <3>2. CASE pc \in {"lookupBinding", "createBinding"} /\ obj' = Activated(obj, now)
      <4>1. WithinPolicy(obj.spec) /\ obj \in Objects /\ obj.spec \in Specs /\ now \in Int
        BY <3>2 DEF IInv, ActivationIsSound, Activating, TypeOK, Objects
      <4>2. obj.spec.ttl \in Int /\ obj.spec.ttl >= 1
        BY <4>1, SpecsAssumption DEF SpecType, LongEnough
      <4>3. o.status.expiresAt = now + obj.spec.ttl
        BY <2>2, <3>2, <4>1, ActivatedType
      <4>4. now >= now + obj.spec.ttl
        BY <1>2, <2>2, <4>3 DEF Due
      <4> QED
        BY <4>1, <4>2, <4>4
    <3> QED
      BY <1>2, <2>2, <3>1, <3>2, ActivationGoesOn
  <2>3. ASSUME NEW g \in Grants, ag'[g].phase = "live", ag'[g].status.state = "Active",
               Due(ag[g])'
        PROVE  Seen(BindingKey(g, ag[g].spec))'
    BY <1>2, <2>1, <2>3 DEF Due, Seen, BindingKey
  <2>4. ASSUME pc' = "writeActive", Due(obj)'
        PROVE  Seen(BindingKey(key, obj.spec))'
    BY <2>2, <2>4 DEF Due, Seen, BindingKey
  <2> QED
    BY <2>3, <2>4 DEF SeenInv
<1> QED
  BY <1>1, <1>2, TimeMoves, TickIsSeen

LEMMA SeenHolds ==
  ASSUME DistinctNames, OneLife, BindingsStay, PromptBindings, LongEnough
  PROVE  Spec => []SeenInv
<1>1. Init => SeenInv /\ DecisionIsDue
  BY NoObjectType DEF Init, SeenInv, DecisionIsDue
<1>2. /\ TypeOK /\ IInv /\ DecisionIsDue /\ ActiveIsValid /\ LifeInv /\ StillBoundInv
      /\ SeenInv /\ [Next]_vars
      => DecisionIsDue' /\ SeenInv'
  BY NextSeen, NextIsDue
<1> QED
  BY <1>1, <1>2, TypeCorrect, InvariantHolds, ValidHolds, LifeHolds, StillBoundHolds,
     PTL DEF Spec

-----------------------------------------------------------------------------
(* A grant is marked expired after its RoleBinding is gone.                *)

ExpiryInv == pc = "writeExpired" /\ fresh => BindingOf(key) = NoBinding

LEMMA ExpiryBegins ==
  ASSUME TypeOK, RefInv, Next, pc' = "writeExpired"
  PROVE  \/ /\ pc = "writeExpired" /\ key' = key
            /\ fresh' => fresh /\ ag'[key] = ag[key]
         \/ /\ pc \in {"findBinding", "deleteBinding"} /\ ~Deleting(obj)
            /\ UNCHANGED <<ag, key, fresh>>
            /\ LET k == BindingKey(key, obj.spec) IN
                 \/ pc = "findBinding" /\ rbCache[k] = NoBinding /\ rb' = rb
                 \/ rb'[k] = NoBinding
<1>1. ASSUME NEW g \in Grants, Reconcile(g) PROVE FALSE
  <2>1. pc = "idle"
    BY <1>1 DEF Reconcile, ReconcileNothing, ReconcileDeletion, ReconcileAddFinalizer,
       ReconcileReject, ReconcileStillActive, ReconcileExpire, ReconcileAwaitApproval,
       ReconcileActivate, Start, Take
  <2>2. ReconcileExpire(g) /\ ~agCache[g].status.ref
    BY <1>1, <2>1 DEF Reconcile, ReconcileNothing, ReconcileDeletion, ReconcileAddFinalizer,
       ReconcileReject, ReconcileStillActive, ReconcileExpire, ReconcileAwaitApproval,
       ReconcileActivate, Start, worker
  <2> QED
    BY <2>2 DEF ReconcileExpire, Granted, RefInv
<1>2. ASSUME NEW out \in Outcomes, Call(out)
      PROVE  /\ pc \in {"findBinding", "deleteBinding"} /\ ~Deleting(obj)
             /\ UNCHANGED <<ag, key, fresh>>
             /\ LET k == BindingKey(key, obj.spec) IN
                  \/ pc = "findBinding" /\ rbCache[k] = NoBinding /\ rb' = rb
                  \/ rb'[k] = NoBinding
  <2>1. CASE FindBinding(out)
    BY <2>1 DEF FindBinding, AfterCleanup, CleanupFailed, Requeue, Return, Continue
  <2>2. CASE DeleteBinding(out)
    <3>1. obj.spec \in Specs /\ key \in Grants
      BY DEF TypeOK, Objects
    <3>2. BindingKey(key, obj.spec) \in BindingKeys
      BY <3>1, BindingTypes
    <3>3. AfterCleanup /\ out = "ok" /\ ~Deleting(obj) /\ UNCHANGED <<key, fresh>>
      BY <2>2 DEF DeleteBinding, AfterCleanup, CleanupFailed, Requeue, Return, Continue
    <3> QED
      BY <2>2, <3>2, <3>3 DEF DeleteBinding, TypeOK
  <2>3. ~FindBinding(out) /\ ~DeleteBinding(out) => FALSE
    BY <1>2 DEF Call, AddFinalizer, WriteFailed, WritePending, LookupBinding, CreateBinding,
       WriteActive, WriteExpired, RemoveFinalizer, Done, Requeue, RequeueAt, Return, Continue
  <2> QED
    BY <2>1, <2>2, <2>3
<1>3. ASSUME Manager PROVE pc = "writeExpired" /\ key' = key /\ fresh' = fresh /\ ag' = ag
  BY <1>3 DEF Manager, CacheSync, TimerFire, Resync, BindingSync, Tick, Restart,
     Return, worker, cluster
<1>4. ASSUME Clients
      PROVE  pc = "writeExpired" /\ key' = key /\ (fresh' => fresh /\ ag'[key] = ag[key])
  <2>1. ASSUME NEW action, NEW h \in Grants, NEW o, ClientWrite(action, h, o)
        PROVE  pc = "writeExpired" /\ key' = key /\ (fresh' => fresh /\ ag'[key] = ag[key])
    BY <2>1 DEF ClientWrite, Store, TypeOK
  <2>2. CASE \E g \in Grants, s \in Specs : UserCreate(g, s) \/ UserEdit(g, s)
    BY <2>1, <2>2 DEF UserCreate, UserEdit
  <2>3. CASE \E g \in Grants, a \in Approvers \cup {NoApprover} : BrokerAnnotate(g, a)
    BY <2>1, <2>3 DEF BrokerAnnotate
  <2>4. CASE \E g \in Grants : UserDelete(g) \/ BrokerRevoke(g)
    BY <2>1, <2>4 DEF UserDelete, BrokerRevoke
  <2>5. CASE \E k \in BindingKeys : Unbind(k)
    BY <2>5 DEF Unbind, worker
  <2> QED
    BY <1>4, <2>2, <2>3, <2>4, <2>5 DEF Clients
<1> QED
  BY <1>1, <1>2, <1>3, <1>4, NextKinds

LEMMA NextExpiry ==
  ASSUME TypeOK, IInv, DecisionIsDue, LifeInv, RefInv, SeenInv, ExpiryInv, [Next]_vars
  PROVE  ExpiryInv'
<1>1. CASE UNCHANGED vars
  BY <1>1 DEF vars, cluster, worker, ExpiryInv, BindingOf, BindingKey
<1>2. CASE Next
  <2> SUFFICES ASSUME pc' = "writeExpired", fresh', NEW g, g = key',
                      NEW k, k = BindingKey(g, ag'[g].spec)
               PROVE  rb'[k] = NoBinding
    BY DEF ExpiryInv, BindingOf, BindingKey
  <2>1. CASE pc = "writeExpired" /\ key' = key /\ (fresh' => fresh /\ ag'[key] = ag[key])
    <3>1. rb[k] = NoBinding /\ k \in BindingKeys
      BY <2>1, KeyOf DEF ExpiryInv, BindingOf, TypeOK
    <3> QED
      BY <1>2, <2>1, <3>1, BindingMoves
  <2>2. CASE /\ pc \in {"findBinding", "deleteBinding"} /\ ~Deleting(obj)
             /\ UNCHANGED <<ag, key, fresh>>
             /\ \/ /\ pc = "findBinding" /\ rbCache[BindingKey(key, obj.spec)] = NoBinding
                   /\ rb' = rb
                \/ rb'[BindingKey(key, obj.spec)] = NoBinding
    <3>1. fresh /\ obj = ag[g] /\ g = key /\ g \in Grants
      BY <2>2 DEF IInv, FreshCopyIsStored, TypeOK
    <3>2. ag[g].phase = "live" /\ ag[g].status.state = "Active" /\ Due(ag[g])
      BY <2>2, <3>1 DEF IInv, ActivationIsSound, Granted, DecisionIsDue, LifeInv, Deleting,
         TypeOK, Objects
    <3>3. Seen(k) /\ k = BindingKey(key, obj.spec)
      BY <2>2, <3>1, <3>2 DEF SeenInv
    <3> QED
      BY <2>2, <3>3 DEF Seen
  <2> QED
    BY <1>2, <2>1, <2>2, ExpiryBegins
<1> QED
  BY <1>1, <1>2

LEMMA NextExpired ==
  ASSUME TypeOK, IInv, DistinctNames, OneLife, LifeInv, ExpiryInv, ExpiredHasNoBinding,
         [Next]_vars
  PROVE  ExpiredHasNoBinding'
<1>1. CASE UNCHANGED vars
  BY <1>1 DEF vars, cluster, ExpiredHasNoBinding, BindingOf, Exists, BindingKey
<1>2. CASE Next
  <2> SUFFICES ASSUME NEW g \in Grants, ag'[g].phase # "absent",
                      ag'[g].status.state = "Expired",
                      NEW k, k = BindingKey(g, ag'[g].spec)
               PROVE  rb'[k] = NoBinding
    BY DEF ExpiredHasNoBinding, BindingOf, Exists, BindingKey
  <2>1. Exists(g) /\ ag'[g].spec = ag[g].spec
    <3>1. NoStatus.state = ""
      BY DEF NoStatus
    <3>2. Later(ag[g], ag'[g])
      BY <1>2, <3>1, StoredMoves DEF FirstCreation
    <3> QED
      BY <3>2 DEF Later, Exists
  <2>2. k \in BindingKeys /\ k[1] = g.name /\ k = BindingKey(g, ag[g].spec)
    BY <2>1, KeyOf
  <2>3. rb[k] = NoBinding /\ (pc = "createBinding" => k # BindingKey(key, obj.spec))
    <3>1. CASE ag'[g].status = ag[g].status
      <4>1. rb[k] = NoBinding
        BY <2>1, <2>2, <3>1 DEF ExpiredHasNoBinding, BindingOf
      <4>2. ASSUME pc = "createBinding", k = BindingKey(key, obj.spec) PROVE FALSE
        <5>1. key = g
          BY <2>2, <4>2 DEF BindingKey, DistinctNames, TypeOK
        <5> QED
          BY <3>1, <4>2, <5>1 DEF IInv, ActivationIsSound, Activating
      <4> QED
        BY <4>1, <4>2
    <3>2. CASE ag'[g].status # ag[g].status
      <4>1. pc = "writeExpired" /\ fresh /\ key = g
        BY <1>2, <3>2, WhoDecides DEF DecidedAt
      <4> QED
        BY <2>2, <4>1 DEF ExpiryInv, BindingOf
    <3> QED
      BY <3>1, <3>2
  <2> QED
    BY <1>2, <2>2, <2>3, BindingMoves
<1> QED
  BY <1>1, <1>2

(* A grant that says it is expired has no RoleBinding any more, however    *)
(* the cleanup was interrupted, repeated or begun from an old cache.       *)
THEOREM ExpiredIsUnbound ==
  ASSUME DistinctNames, OneLife, BindingsStay, PromptBindings, LongEnough
  PROVE  Spec => []ExpiredHasNoBinding
<1>1. Init => ExpiryInv /\ ExpiredHasNoBinding /\ DecisionIsDue
  BY NoObjectType DEF Init, ExpiryInv, ExpiredHasNoBinding, Exists, DecisionIsDue
<1>2. /\ TypeOK /\ IInv /\ DecisionIsDue /\ LifeInv /\ RefInv /\ SeenInv /\ ExpiryInv
      /\ ExpiredHasNoBinding /\ [Next]_vars
      => DecisionIsDue' /\ ExpiryInv' /\ ExpiredHasNoBinding'
  BY NextExpiry, NextExpired, NextIsDue
<1> QED
  BY <1>1, <1>2, TypeCorrect, InvariantHolds, LifeHolds, RefHolds, SeenHolds, PTL DEF Spec

=============================================================================
