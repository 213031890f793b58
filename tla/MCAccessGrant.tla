--------------------------- MODULE MCAccessGrant ---------------------------
(* Instances of AccessGrant for TLC.  One tick stands for eight hours, the *)
(* limit of a production TTL; 24 hours are three ticks.                    *)
EXTENDS AccessGrant

SpecOf(sub, perm, ttl, parses, env) ==
  [subject |-> sub, namespace |-> "apps", permission |-> perm, ttl |-> ttl,
   ttlParses |-> parses, environment |-> env]

(* One grant. *)
OneGrant == {[namespace |-> "team", name |-> "a"]}

(* Two grants of one team. *)
TwoGrants == {[namespace |-> "team", name |-> n] : n \in {"a", "b"}}

(* Two teams that choose the same name. *)
SameName == {[namespace |-> n, name |-> "a"] : n \in {"blue", "red"}}

(* Production within the limit. *)
ProdWithin == SpecOf("u1", "rw", 1, TRUE, "prod")

(* Production beyond the limit. *)
ProdBeyond == SpecOf("u1", "admin", 2, TRUE, "prod")

(* Below one tick, without approval. *)
DevShort == SpecOf("u2", "ro", 0, TRUE, "dev")

(* A whole tick, without approval. *)
DevLong == SpecOf("u2", "admin", 1, TRUE, "dev")

(* Another subject. *)
StagingLong == SpecOf("u3", "ro", 1, TRUE, "staging")

(* Not a duration. *)
DevNoTTL == SpecOf("u2", "ro", 0, FALSE, "dev")

CalmSpecs == {ProdWithin, DevLong}

SharedSpecs == {DevLong, StagingLong}

EditedSpecs == {DevLong, DevNoTTL}

ShortSpecs == {DevShort}

RichSpecs == {ProdWithin, ProdBeyond, DevShort}
=============================================================================
