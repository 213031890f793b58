------------------------------- MODULE Subject -------------------------------
(***************************************************************************)
(* Two functions of the AccessGrant controller on the subject of a grant:  *)
(* subjectFromSpec, which decides whom the RoleBinding binds, and          *)
(* sanitizeLabel, which makes a label value of the subject.                *)
(*                                                                         *)
(* A subject is a sequence of characters, of which only the class matters; *)
(* the words "user" and "serviceaccount" count as one alphanumeric         *)
(* character each.  The state machine enumerates subjects.                 *)
(***************************************************************************)
EXTENDS SequencesExt

CONSTANTS
  Alphabet,       \* characters of the subjects enumerated
  Letters,        \* alphanumeric characters
  MaxLabelLen,    \* maxLabelValueLen
  DigestLen,      \* the hexadecimal digits of a digest that are used
  Digest(_),      \* the first DigestLen of them, of the SHA-256 of a subject
  MaxSubjectLen   \* bound: length of the subjects enumerated

ASSUME SubjectAssumption ==
  /\ Letters # {} /\ {"user", "serviceaccount"} \subseteq Letters
  /\ {"-", "_", ".", ":", "/"} \cap Letters = {}
  /\ DigestLen \in Nat \ {0} /\ MaxSubjectLen \in Nat
  /\ MaxLabelLen \in Nat /\ MaxLabelLen > DigestLen + 1

Subjects == UNION {[1..n -> Alphabet] : n \in 0..MaxSubjectLen}

(* A digest is nothing special once it is in a label: alphanumeric         *)
(* characters.  Digests may collide.                                       *)
ASSUME DigestAssumption ==
  \A s \in Subjects : Digest(s) \in [1..DigestLen -> Letters]

-----------------------------------------------------------------------------
(* subjectFromSpec. *)

UserPrefix == <<"user", ":">>

ServiceAccountPrefix == <<"serviceaccount", ":">>

(* userSubject; no namespace. *)
User(name) == [kind |-> "User", name |-> name, namespace |-> <<>>]

ServiceAccount(ns, name) ==
  [kind |-> "ServiceAccount", name |-> name, namespace |-> ns]

(* strings.CutPrefix, after the prefix is found. *)
Rest(prefix, s) == SubSeq(s, Len(prefix) + 1, Len(s))

(* strings.Cut: where the first slash is, 0 when there is none. *)
Slash(s) == SelectInSeq(s, LAMBDA c : c = "/")

(* Variant: a malformed service account is taken for a user's name. *)
SubjectFromSpecLenient(s) ==
  IF IsPrefix(ServiceAccountPrefix, s)
  THEN LET rest == Rest(ServiceAccountPrefix, s)
           cut  == Slash(rest)
       IN IF cut > 1 /\ cut < Len(rest)
          THEN ServiceAccount(SubSeq(rest, 1, cut - 1),
                              SubSeq(rest, cut + 1, Len(rest)))
          ELSE User(rest)
  ELSE IF IsPrefix(UserPrefix, s) /\ Len(s) > Len(UserPrefix)
  THEN User(Rest(UserPrefix, s))
  ELSE User(s)

(* A service account needs a namespace and a name, a user a name; anything *)
(* else is the name of a user as it stands.                                *)
SubjectFromSpec(s) ==
  IF IsPrefix(ServiceAccountPrefix, s)
  THEN LET rest == Rest(ServiceAccountPrefix, s)
           cut  == Slash(rest)
       IN IF cut > 1 /\ cut < Len(rest)
          THEN ServiceAccount(SubSeq(rest, 1, cut - 1),
                              SubSeq(rest, cut + 1, Len(rest)))
          ELSE User(s)
  ELSE IF IsPrefix(UserPrefix, s) /\ Len(s) > Len(UserPrefix)
  THEN User(Rest(UserPrefix, s))
  ELSE User(s)

-----------------------------------------------------------------------------
(* sanitizeLabel. *)

Legal(c) == c \in Letters \cup {"-", "_", "."}

Cleaned(s) == [i \in DOMAIN s |-> IF Legal(s[i]) THEN s[i] ELSE "-"]

(* Variant: only the start is trimmed. *)
TrimStart(s) ==
  LET kept == {i \in DOMAIN s : s[i] \in Letters} IN
  IF kept = {} THEN <<>> ELSE SubSeq(s, Min(kept), Len(s))

(* trimNonAlphanumeric. *)
Trim(s) ==
  LET kept == {i \in DOMAIN s : s[i] \in Letters} IN
  IF kept = {} THEN <<>> ELSE SubSeq(s, Min(kept), Max(kept))

(* A value longer than that does not fit and is cut. *)
IsCut(s) == Len(Trim(Cleaned(s))) > MaxLabelLen

Readable(s) == Trim(SubSeq(Trim(Cleaned(s)), 1, MaxLabelLen - DigestLen - 1))

(* Variant: the digest is that of the cleaned value. *)
SanitizeLabelLossy(s) ==
  IF IsCut(s) THEN Readable(s) \o <<"-">> \o Digest(Trim(Cleaned(s)))
  ELSE Trim(Cleaned(s))

SanitizeLabel(s) ==
  IF IsCut(s) THEN Readable(s) \o <<"-">> \o Digest(s) ELSE Trim(Cleaned(s))

-----------------------------------------------------------------------------
VARIABLE subject

Init == subject = <<>>

Next ==
  /\ Len(subject) < MaxSubjectLen
  /\ \E c \in Alphabet : subject' = Append(subject, c)

Spec == Init /\ [][Next]_subject

-----------------------------------------------------------------------------
(* The ways to write an identity: a service account has one, a user's name *)
(* may stand alone unless that would mean something else.                  *)
Spellings(id) ==
  IF id.kind = "ServiceAccount"
  THEN {ServiceAccountPrefix \o id.namespace \o <<"/">> \o id.name}
  ELSE {id.name, UserPrefix \o id.name}

(* "A malformed subject never silently binds a different identity": who is *)
(* bound can be told back to the very subject that was asked for, so two   *)
(* subjects bind one identity only if one of them is the other with "user:"*)
(* before it.                                                              *)
NobodyElseIsBound == subject \in Spellings(SubjectFromSpec(subject))

(* What the API server requires of a label value, or the RoleBinding could *)
(* never be created: not too long, alphanumeric at both ends, and legal in *)
(* between.                                                                *)
LabelIsValid ==
  LET l == SanitizeLabel(subject) IN
  /\ Len(l) <= MaxLabelLen
  /\ \A i \in DOMAIN l : Legal(l[i])
  /\ l # <<>> => Head(l) \in Letters /\ Last(l) \in Letters

(* The labels that were cut, with what they are to tell apart. *)
CutLabels == {<<SanitizeLabel(s), Digest(s)>> : s \in {t \in Subjects : IsCut(t)}}

(* "Two long subjects with the same start still get different labels": if  *)
(* both are cut, one label means one digest, so the readable start and its *)
(* trimming never hide a difference the digest shows.                      *)
CutLabelsDiffer ==
  IsCut(subject) =>
    \A c \in CutLabels : c[1] = SanitizeLabel(subject) => c[2] = Digest(subject)

(* The same of all subjects that are too long for a label.  It fails: one  *)
(* that fits once its ends are trimmed may spell the cut label of another. *)
LongLabelsDiffer ==
  Len(subject) > MaxLabelLen =>
    \A c \in CutLabels : c[1] = SanitizeLabel(subject) => c[2] = Digest(subject)

=============================================================================
