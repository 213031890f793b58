--------------------------- MODULE GrantLifecycle ---------------------------
(***************************************************************************)
(* What an AccessGrant promises to those who look at it through the API:   *)
(* every change of a grant is one decision, taken at one instant on the    *)
(* grant as it is stored at that instant.  No cache, queue, resourceVersion*)
(* or retry is visible here; AccessGrant implements this specification.    *)
(***************************************************************************)
EXTENDS Integers

CONSTANTS
  Grants, Specs, Approvers, NoApprover, NoTime,
  ValidSpecs,  \* the specs within policy
  Absent       \* the grant does not exist

VARIABLES
  now,    \* the clock
  grant   \* what is stored of each grant: spec, approver and status, or Absent

vars == <<now, grant>>

Terminal == {"Expired", "Revoked"}

Init == /\ now = 0
        /\ grant = [g \in Grants |-> Absent]

Present(g) == grant[g] # Absent

Becomes(g, r) == grant' = [grant EXCEPT ![g] = r] /\ UNCHANGED now

Undecided(g) ==
  Present(g) /\ grant[g].state \notin Terminal \cup {"Active"}

Production(g) == grant[g].spec.environment = "prod"

-----------------------------------------------------------------------------
(* What clients do. *)

Create(g, s) ==
  /\ ~Present(g)
  /\ Becomes(g, [spec |-> s, approver |-> NoApprover, state |-> "",
                 expiresAt |-> NoTime, approvedBy |-> NoApprover])

Edit(g, s) == Present(g) /\ Becomes(g, [grant[g] EXCEPT !.spec = s])

Annotate(g, a) == Present(g) /\ Becomes(g, [grant[g] EXCEPT !.approver = a])

Revoke(g) ==
  /\ Present(g) /\ grant[g].state \notin Terminal
  /\ Becomes(g, [grant[g] EXCEPT !.state = "Revoked"])

Remove(g) == Present(g) /\ Becomes(g, Absent)

-----------------------------------------------------------------------------
(* What the controller decides. *)

(* A grant outside the policy waits to be corrected. *)
Reject(g) ==
  /\ Present(g) /\ grant[g].state \notin Terminal
  /\ grant[g].spec \notin ValidSpecs
  /\ Becomes(g, [grant[g] EXCEPT !.state = "Pending"])

(* A production grant nobody has approved waits for an approval. *)
AwaitApproval(g) ==
  /\ Undecided(g) /\ grant[g].spec \in ValidSpecs
  /\ Production(g) /\ grant[g].approver = NoApprover
  /\ Becomes(g, [grant[g] EXCEPT !.state = "PendingApproval"])

Granted(r, t) ==
  [spec       |-> r.spec,
   approver   |-> r.approver,
   state      |-> "Active",
   expiresAt  |-> t + r.spec.ttl,
   approvedBy |-> IF r.spec.environment = "prod" THEN r.approver ELSE r.approvedBy]

(* The access is granted: the TTL runs from some moment up to now, and a   *)
(* production grant records who approved it.                               *)
Activate(g) ==
  /\ Undecided(g) /\ grant[g].spec \in ValidSpecs
  /\ Production(g) => grant[g].approver # NoApprover
  /\ \E t \in 0..now : Becomes(g, Granted(grant[g], t))

(* The access has ended: not before its time. *)
Expire(g) ==
  /\ Present(g) /\ grant[g].state = "Active"
  /\ grant[g].expiresAt # NoTime /\ now >= grant[g].expiresAt
  /\ Becomes(g, [grant[g] EXCEPT !.state = "Expired"])

Tick == now' = now + 1 /\ UNCHANGED grant

Decide(g) == Reject(g) \/ AwaitApproval(g) \/ Activate(g) \/ Expire(g)

Next ==
  \/ \E g \in Grants, s \in Specs : Create(g, s) \/ Edit(g, s)
  \/ \E g \in Grants, a \in Approvers \cup {NoApprover} : Annotate(g, a)
  \/ \E g \in Grants : Revoke(g) \/ Remove(g) \/ Decide(g)
  \/ Tick

Spec == Init /\ [][Next]_vars
=============================================================================
