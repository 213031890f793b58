--------------------------- MODULE SecretsProofs ---------------------------
(* Theorems about PlatformSecrets: any list of paths, whatever fails and   *)
(* wherever the script is stopped.                                         *)
EXTENDS PlatformSecrets, TLAPS

(* The paths the script has dealt with. *)
Passed(p) == \E i \in 1..Len(PathList) : i < index /\ PathList[i] = p

(* An entry with everything the script can see to. *)
Whole(p, e) == e # None /\ e.complete /\ Lacks(p, e) = {}

(* Where the script is, and what it has by then: it knows what it wants    *)
(* for every path it has passed, and the backup is whole when Keycloak is  *)
(* made to agree with it.                                                  *)
Position ==
  /\ pc \in {"get", "put"} => index <= Len(PathList)
  /\ pc \in {"backup", "keycloak"} => index = Len(PathList) + 1
  /\ pc = "idle" => index = 1
  /\ pc = "put" => Whole(Path, desired[Path])
  /\ \A p \in Paths : Passed(p) => Whole(p, desired[p])
  /\ pc = "keycloak" => backup = desired

PositionInv == TypeOK /\ Position

-----------------------------------------------------------------------------
(* The list of paths. *)

LEMMA ListFacts ==
  /\ Len(PathList) \in Nat \ {0} /\ DOMAIN PathList = 1..Len(PathList)
  /\ \A i \in 1..Len(PathList) : PathList[i] \in Paths
  /\ \A p \in Paths : \E i \in 1..Len(PathList) : PathList[i] = p
  /\ Auth \in Paths
  BY SecretsAssumption DEF Paths

LEMMA PathType ==
  ASSUME PositionInv, pc \in {"get", "put"}
  PROVE  Path \in Paths /\ index \in 1..Len(PathList)
  BY ListFacts DEF PositionInv, Position, TypeOK, Path

(* Going on to the next path passes this one and no other. *)
LEMMA PassNext ==
  ASSUME PositionInv, pc \in {"get", "put"}, index' = index + 1
  PROVE  \A p \in Paths : Passed(p)' <=> Passed(p) \/ p = Path
  BY PathType, ListFacts DEF Passed, Path

LEMMA PassAll ==
  ASSUME index = Len(PathList) + 1, NEW p \in Paths
  PROVE  Passed(p)
  BY ListFacts DEF Passed

LEMMA PassNone ==
  ASSUME index' = 1, NEW p \in Paths
  PROVE  ~Passed(p)'
  BY DEF Passed

LEMMA NextPathMoves ==
  ASSUME PositionInv, pc \in {"get", "put"}, NextPath
  PROVE  /\ index' = index + 1 /\ index' \in 1..(Len(PathList) + 1)
         /\ \/ pc' = "get" /\ index' <= Len(PathList)
            \/ pc' = "backup" /\ index' = Len(PathList) + 1
  BY PathType, ListFacts DEF NextPath

-----------------------------------------------------------------------------
(* Entries. *)

LEMMA EntryType ==
  ASSUME NEW e \in Entries
  PROVE  e # None /\ e.secrets \in [Keys -> Nat] /\ e.complete \in BOOLEAN
  BY NoneAssumption, Zenon DEF Entries

(* A new entry from its two parts. *)
LEMMA Entry ==
  ASSUME NEW f \in [Keys -> Nat], NEW b \in BOOLEAN
  PROVE  /\ [secrets |-> f, complete |-> b] \in Entries
         /\ [secrets |-> f, complete |-> b].secrets = f
  BY Zenon DEF Entries

LEMMA SameEntry ==
  ASSUME NEW a \in Entries, NEW b \in Entries, a.secrets = b.secrets,
         a.complete, b.complete
  PROVE  a = b
<1>1. a.complete = b.complete
  BY Zenon DEF Entries
<1> QED
  BY <1>1 DEF Entries

(* Completing keeps every credential there is, and leaves none missing.    *)
LEMMA CompletedType ==
  ASSUME TypeOK, NEW p \in Paths, NEW e \in Entries
  PROVE  /\ Completed(p, e) \in Entries /\ Whole(p, Completed(p, e))
         /\ \A k \in Keys :
              e.secrets[k] # 0 => Completed(p, e).secrets[k] = e.secrets[k]
<1> DEFINE f == [k \in Keys |-> IF k \in Lacks(p, e) THEN values + 1 ELSE e.secrets[k]]
<1>1. Secrets[p] \subseteq Keys
  BY SecretsAssumption
<1>2. /\ f \in [Keys -> Nat]
      /\ \A k \in Keys : f[k] = IF k \in Lacks(p, e) THEN values + 1 ELSE e.secrets[k]
  BY EntryType DEF TypeOK
<1>3. \A k \in Keys : e.secrets[k] # 0 => f[k] = e.secrets[k]
  BY <1>2 DEF Lacks
<1>4. \A k \in Secrets[p] : p \in Generated => f[k] # 0
  BY <1>1, <1>2 DEF Lacks, TypeOK
<1> DEFINE c == [secrets |-> f, complete |-> TRUE]
<1>5. Completed(p, e) = c
  BY DEF Completed
<1> HIDE DEF f
<1>6. c \in Entries /\ c.secrets = f
  BY <1>2, Entry
<1>7. c.complete
  OBVIOUS
<1> HIDE DEF c
<1>8. Lacks(p, c) = {}
  BY <1>4, <1>6 DEF Lacks
<1> QED
  BY <1>3, <1>5, <1>6, <1>7, <1>8, EntryType DEF Whole

LEMMA BlankType == Blank \in Entries
<1>1. [k \in Keys |-> 0] \in [Keys -> Nat] /\ FALSE \in BOOLEAN
  OBVIOUS
<1> QED
  BY <1>1, Entry, Zenon DEF Blank

(* Whatever is found, what is wanted is a whole entry; credentials that    *)
(* are found are kept, live before backup.                                 *)
LEMMA WantedType ==
  ASSUME TypeOK, NEW p \in Paths, NEW l \in Entries \cup {None}
  PROVE  /\ Wanted(p, l) \in Entries /\ Whole(p, Wanted(p, l))
         /\ \A k \in Keys :
              /\ l # None /\ l.secrets[k] # 0
                   => Wanted(p, l).secrets[k] = l.secrets[k]
              /\ l = None /\ loaded[p] # None /\ loaded[p].secrets[k] # 0
                   => Wanted(p, l).secrets[k] = loaded[p].secrets[k]
<1>1. loaded[p] \in Entries \cup {None}
  BY DEF TypeOK
<1>2. /\ Found(p, l) \in Entries
      /\ l # None => Found(p, l) = l
      /\ l = None /\ loaded[p] # None => Found(p, l) = loaded[p]
  BY <1>1, BlankType DEF Found
<1> QED
  BY <1>2, CompletedType DEF Wanted

LEMMA NothingType == Nothing \in [Paths -> Entries \cup {None}]
  BY DEF Nothing

-----------------------------------------------------------------------------
(* The steps. *)

LEMMA ExitInv ==
  ASSUME PositionInv, Exit, vault' \in [Paths -> Entries \cup {None}],
         backup' \in [Paths -> Entries \cup {None}], client' \in Nat,
         touched' \in SUBSET Paths, values' \in Nat, healthy' \in BOOLEAN,
         faults' \in Nat, disturbed' \in Nat
  PROVE  PositionInv'
<1>1. TypeOK'
  <2>1. failed' \in BOOLEAN
    BY DEF Exit
  <2> QED
    BY <2>1, NothingType, ListFacts DEF Exit, TypeOK
<1> QED
  BY <1>1, PassNone, ListFacts DEF Exit, PositionInv, Position

LEMMA RunInv ==
  ASSUME PositionInv, Run
  PROVE  PositionInv'
<1>1. TypeOK'
  <2>1. healthy' \in BOOLEAN
    BY DEF Run
  <2> QED
    BY <2>1, NothingType DEF Run, Works, Breaks, store, PositionInv, TypeOK
<1>2. pc = "idle" /\ index = 1 /\ index' = 1 /\ pc' = "get"
  BY DEF Run, PositionInv, Position
<1> QED
  BY <1>1, <1>2, PassNone, ListFacts DEF PositionInv, Position

(* What a get leads to. *)
LEMMA GetFacts ==
  ASSUME PositionInv, Get
  PROVE  /\ live' \in Entries \cup {None} /\ values' \in Nat /\ faults' \in Nat
         /\ desired' = [desired EXCEPT ![Path] = Wanted(Path, live')]
         /\ \/ live' = vault[Path]
            \/ live' = None /\ "get" \in FaultyCalls
         /\ \/ desired'[Path] = live' /\ NextPath
            \/ desired'[Path] # live' /\ pc' = "put" /\ index' = index
<1>1. Path \in Paths /\ pc = "get"
  BY PathType DEF Get
<1>2. vault[Path] \in Entries \cup {None}
  BY <1>1 DEF PositionInv, TypeOK
<1>3. \/ live' = vault[Path] /\ faults' = faults
      \/ live' = None /\ "get" \in FaultyCalls /\ faults' = faults + 1
  BY DEF Get, Works, Breaks
<1> QED
  BY <1>1, <1>2, <1>3 DEF Get, PositionInv, TypeOK

LEMMA GetInv ==
  ASSUME PositionInv, Get
  PROVE  PositionInv'
<1>1. /\ pc = "get" /\ Path \in Paths /\ index \in 1..Len(PathList)
      /\ UNCHANGED <<store, loaded, failed, healthy, touched, disturbed>>
  BY PathType DEF Get
<1> DEFINE w == Wanted(Path, live')
<1>2. w \in Entries /\ Whole(Path, w)
  BY <1>1, GetFacts, WantedType DEF PositionInv
<1>3. desired' = [desired EXCEPT ![Path] = w]
  BY GetFacts
<1> HIDE DEF w
<1>4. desired' \in [Paths -> Entries \cup {None}] /\ desired'[Path] = w
  BY <1>1, <1>2, <1>3 DEF PositionInv, TypeOK
<1>5. \A p \in Paths : Passed(p) \/ p = Path => Whole(p, desired'[p])
  BY <1>1, <1>2, <1>3 DEF PositionInv, Position, TypeOK
<1>6. CASE NextPath
  <2>1. TypeOK'
    BY <1>1, <1>4, <1>6, GetFacts, NextPathMoves DEF store, PositionInv, TypeOK
  <2> QED
    BY <1>1, <1>5, <1>6, <2>1, NextPathMoves, PassNext, ListFacts
       DEF PositionInv, Position
<1>7. CASE pc' = "put" /\ index' = index
  <2>1. TypeOK'
    BY <1>1, <1>4, <1>7, GetFacts DEF store, PositionInv, TypeOK
  <2>2. Path' = Path /\ \A p \in Paths : Passed(p)' <=> Passed(p)
    BY <1>7 DEF Path, Passed
  <2> QED
    BY <1>1, <1>2, <1>4, <1>5, <1>7, <2>1, <2>2, ListFacts DEF PositionInv, Position
<1> QED
  BY <1>6, <1>7, GetFacts

LEMMA PutInv ==
  ASSUME PositionInv, Put
  PROVE  PositionInv'
<1>1. /\ pc = "put" /\ Path \in Paths /\ desired[Path] \in Entries /\ NextPath
      /\ UNCHANGED <<backup, client, loaded, live, desired, healthy, touched, values,
                     disturbed>>
  BY PathType DEF Put, PositionInv, Position, TypeOK, Whole
<1>2. /\ vault' \in {vault, [vault EXCEPT ![Path] = desired[Path]]}
      /\ failed' \in BOOLEAN /\ faults' \in Nat
  <2>1. vault' \in {vault, [vault EXCEPT ![Path] = desired[Path]]}
    BY DEF Put
  <2>2. failed' = failed \/ failed' = TRUE
    BY DEF Put
  <2>3. failed' \in BOOLEAN
    BY <2>2, Zenon DEF PositionInv, TypeOK
  <2>4. faults' \in Nat
    BY DEF Put, Works, Breaks, PositionInv, TypeOK
  <2> QED
    BY <2>1, <2>3, <2>4
<1>3. TypeOK'
  BY <1>1, <1>2, NextPathMoves DEF PositionInv, TypeOK
<1>4. Whole(Path, desired[Path])
  BY <1>1 DEF PositionInv, Position
<1> QED
  BY <1>1, <1>3, <1>4, NextPathMoves, PassNext, ListFacts DEF PositionInv, Position

LEMMA BackUpInv ==
  ASSUME PositionInv, BackUp
  PROVE  PositionInv'
<1>1. /\ pc = "backup" /\ index = Len(PathList) + 1 /\ desired \in [Paths -> Entries \cup {None}]
      /\ UNCHANGED <<vault, client, healthy, values, faults, disturbed>>
  BY DEF BackUp, PositionInv, Position, TypeOK
<1>2. CASE Exit /\ UNCHANGED <<backup, touched>>
  BY <1>1, <1>2, ExitInv DEF PositionInv, TypeOK
<1>3. CASE /\ backup' = desired /\ pc' = "keycloak"
           /\ touched' = Unsaved /\ UNCHANGED <<index, loaded, live, desired, failed>>
  <2>1. TypeOK'
    BY <1>1, <1>3 DEF PositionInv, TypeOK, Unsaved
  <2>2. \A p \in Paths : Passed(p)' <=> Passed(p)
    BY <1>3 DEF Passed
  <2> QED
    BY <1>1, <1>3, <2>1, <2>2 DEF PositionInv, Position
<1> QED
  BY <1>2, <1>3 DEF BackUp

(* The backup that Keycloak is given the secret of has one. *)
LEMMA SecretIsThere ==
  ASSUME PositionInv, pc = "keycloak"
  PROVE  Secret \in Nat
<1>1. backup[Auth] \in Entries
  BY PassAll, ListFacts DEF PositionInv, Position, TypeOK, Whole
<1>2. ClientSecret \in Keys
  BY SecretsAssumption, ListFacts
<1> QED
  BY <1>1, <1>2, EntryType DEF Secret

LEMMA SetClientInv ==
  ASSUME PositionInv, SetClient
  PROVE  PositionInv'
<1>1. pc = "keycloak" /\ Exit /\ UNCHANGED <<vault, backup, touched, values, disturbed>>
  BY DEF SetClient
<1>2. Secret \in Nat
  BY <1>1, SecretIsThere
<1>3. client' \in Nat /\ faults' \in Nat
  BY <1>2 DEF SetClient, Works, Breaks, PositionInv, TypeOK
<1>4. healthy' = TRUE \/ healthy' = healthy
  BY DEF SetClient
<1>5. healthy' \in BOOLEAN
  BY <1>4, Zenon DEF PositionInv, TypeOK
<1> QED
  BY <1>1, <1>3, <1>5, ExitInv DEF PositionInv, TypeOK

Disturbance ==
  \/ \E p \in Paths, complete \in BOOLEAN : \E K \in SUBSET Secrets[p] : TeamWrite(p, K, complete)
  \/ Wipe \/ LoseClient \/ Drift \/ Crash

(* What happens outside changes Vault and Keycloak, and never the script.  *)
LEMMA DisturbanceInv ==
  ASSUME PositionInv, Disturbance
  PROVE  PositionInv'
<1>1. ASSUME NEW what, Disturb(what)
      PROVE  /\ healthy' = FALSE /\ healthy' \in BOOLEAN /\ disturbed' \in Nat
             /\ UNCHANGED <<backup, faults>>
  <2>1. healthy' = FALSE /\ disturbed' = disturbed + 1 /\ UNCHANGED <<backup, faults>>
    BY <1>1 DEF Disturb
  <2>2. healthy' \in BOOLEAN
    BY <2>1
  <2> QED
    BY <2>1, <2>2 DEF PositionInv, TypeOK
<1>2. CASE Crash
  <2>1. Disturb("crash") /\ Exit /\ UNCHANGED <<vault, client, touched, values>>
    BY <1>2 DEF Crash
  <2> QED
    BY <1>1, <2>1, ExitInv DEF PositionInv, TypeOK
<1>3. ASSUME UNCHANGED script, UNCHANGED <<backup, faults>>, healthy' \in BOOLEAN,
             disturbed' \in Nat, vault' \in [Paths -> Entries \cup {None}],
             client' \in Nat, touched' \in SUBSET Paths, values' \in Nat
      PROVE  PositionInv'
  <2>1. TypeOK'
    BY <1>3 DEF PositionInv, TypeOK, script
  <2>2. Path' = Path /\ \A p \in Paths : Passed(p)' <=> Passed(p)
    BY <1>3 DEF Path, Passed, script
  <2> QED
    BY <1>3, <2>1, <2>2 DEF PositionInv, Position, script
<1>4. ASSUME NEW p \in Paths, NEW complete \in BOOLEAN, NEW K \in SUBSET Secrets[p],
             TeamWrite(p, K, complete)
      PROVE  PositionInv'
  <2>1. Disturb("write") /\ values' = values + 1 /\ UNCHANGED <<client, script>>
    BY <1>4 DEF TeamWrite
  <2> DEFINE f == [k \in Keys |-> IF k \in K THEN values + 1 ELSE 0]
  <2>2. [secrets |-> f, complete |-> complete] \in Entries
    <3>1. f \in [Keys -> Nat]
      BY DEF PositionInv, TypeOK
    <3> HIDE DEF f
    <3> QED
      BY <3>1, Entry
  <2>3. vault' \in [Paths -> Entries \cup {None}] /\ touched' \in SUBSET Paths
    BY <1>4, <2>2 DEF TeamWrite, PositionInv, TypeOK
  <2>4. client' \in Nat /\ values' \in Nat
    BY <2>1 DEF PositionInv, TypeOK
  <2> QED
    BY <1>1, <1>3, <2>1, <2>3, <2>4
<1>5. CASE Wipe
  BY <1>1, <1>3, <1>5, NothingType DEF Wipe, PositionInv, TypeOK
<1>6. CASE LoseClient
  BY <1>1, <1>3, <1>6 DEF LoseClient, PositionInv, TypeOK
<1>7. CASE Drift
  <2>1. vault[Auth] \in Entries /\ vault' = [vault EXCEPT ![Auth].complete = FALSE]
    BY <1>7, ListFacts DEF Drift, PositionInv, TypeOK
  <2>2. [vault[Auth] EXCEPT !.complete = FALSE] \in Entries
    BY <2>1 DEF Entries
  <2>3. vault' = [vault EXCEPT ![Auth] = [vault[Auth] EXCEPT !.complete = FALSE]]
    BY <2>1
  <2>4. vault' \in [Paths -> Entries \cup {None}]
    BY <2>2, <2>3 DEF PositionInv, TypeOK
  <2> QED
    BY <1>1, <1>3, <1>7, <2>4 DEF Drift, PositionInv, TypeOK
<1> QED
  BY <1>2, <1>4, <1>5, <1>6, <1>7 DEF Disturbance

LEMMA NextPosition ==
  ASSUME PositionInv, [Next]_vars
  PROVE  PositionInv'
<1>1. CASE UNCHANGED vars
  <2>1. UNCHANGED <<vault, backup, client, pc, index, loaded, live, desired, failed,
                    healthy, touched, values, faults, disturbed>>
    BY <1>1 DEF vars, store, script
  <2>2. Path' = Path /\ \A p \in Paths : Passed(p)' <=> Passed(p)
    BY <2>1 DEF Path, Passed
  <2> QED
    BY <2>1, <2>2 DEF PositionInv, Position, TypeOK
<1> QED
  BY <1>1, RunInv, GetInv, PutInv, BackUpInv, SetClientInv, DisturbanceInv
     DEF Next, Disturbance

LEMMA InitPosition == Init => PositionInv
<1> SUFFICES ASSUME Init PROVE PositionInv
  OBVIOUS
<1>1. failed \in BOOLEAN /\ healthy \in BOOLEAN
  BY DEF Init
<1>2. TypeOK
  BY <1>1, NothingType, ListFacts DEF Init, TypeOK
<1>3. \A p \in Paths : ~Passed(p)
  BY DEF Init, Passed
<1> QED
  BY <1>2, <1>3 DEF Init, PositionInv, Position

LEMMA PositionHolds == Spec => []PositionInv
  BY InitPosition, NextPosition, PTL DEF Spec

(* Every variable keeps its type; Keycloak is never given the secret of a  *)
(* path the backup does not have.                                          *)
THEOREM SecretsTypeCorrect == Spec => []TypeOK
  BY PositionHolds, PTL DEF PositionInv

-----------------------------------------------------------------------------
(* Agreement, where nobody else writes to Vault while the script runs.     *)

NoWritesMidRun == MidRun \cap {"write", "wipe"} = {}

NoDriftMidRun == "drift" \notin MidRun

(* Vault holds the credentials the entry e has, and all the keys unless    *)
(* the hub's address changes during a run.                                 *)
Holds(p, e) ==
  /\ vault[p] # None /\ e # None /\ vault[p].secrets = e.secrets /\ Lacks(p, e) = {}
  /\ NoDriftMidRun => vault[p].complete /\ e.complete

(* The path a put is about. *)
Pending(p) == pc = "put" /\ p = Path

(* As long as no put has failed, Vault has what the script wants under the *)
(* paths it is through with.                                               *)
WrittenSoFar ==
  pc # "idle" /\ ~failed =>
    \A p \in Paths : Passed(p) /\ ~Pending(p) => Holds(p, desired[p])

AgreementInv ==
  /\ WrittenSoFar
  /\ pc = "keycloak" => ~failed
  /\ healthy => /\ pc = "idle" /\ client = Secret
                /\ \A p \in Paths : Holds(p, backup[p])

LEMMA ScriptStep ==
  ASSUME PositionInv, AgreementInv, Run \/ Get \/ Put \/ BackUp
  PROVE  AgreementInv'
<1>1. CASE Run
  <2>1. index' = 1 /\ pc' = "get" /\ healthy' = FALSE
    BY <1>1 DEF Run, PositionInv, Position
  <2> QED
    BY <2>1, PassNone DEF AgreementInv, WrittenSoFar
<1>2. CASE Get
  <2>1. /\ pc = "get" /\ ~healthy /\ Path \in Paths
        /\ UNCHANGED <<vault, backup, client, loaded, failed, healthy>>
    BY <1>2, PathType DEF Get, store, AgreementInv
  <2> DEFINE w == Wanted(Path, live')
  <2>2. w \in Entries /\ Whole(Path, w) /\ w # None
    BY <1>2, GetFacts, WantedType, <2>1 DEF PositionInv, Whole
  <2>3. desired' = [desired EXCEPT ![Path] = w]
    BY <1>2, GetFacts
  <2> HIDE DEF w
  <2>4. desired'[Path] = w /\ \A p \in Paths : p # Path => desired'[p] = desired[p]
    BY <2>1, <2>3 DEF PositionInv, TypeOK
  <2>5. \A p \in Paths : ~failed /\ Passed(p) /\ p # Path => Holds(p, desired[p])'
    BY <2>1, <2>4 DEF AgreementInv, WrittenSoFar, Pending, Holds
  <2>6. CASE desired'[Path] = live' /\ NextPath
    <3>1. vault[Path] = w
      BY <1>2, <2>2, <2>4, <2>6, GetFacts
    <3>2. vault'[Path] = w /\ desired'[Path] = w
      BY <2>1, <2>4, <3>1
    <3>3. pc' \in {"get", "backup"} /\ \A p \in Paths : Passed(p)' <=> Passed(p) \/ p = Path
      BY <2>1, <2>6, NextPathMoves, PassNext
    <3>4. \A p \in Paths : p = Path => Holds(p, desired[p])'
      BY <2>2, <3>2 DEF Holds, Whole
    <3> QED
      BY <2>1, <2>5, <3>3, <3>4 DEF AgreementInv, WrittenSoFar
  <2>7. CASE pc' = "put" /\ index' = index
    <3>1. Path' = Path /\ \A p \in Paths : Passed(p)' <=> Passed(p)
      BY <2>7 DEF Path, Passed
    <3> QED
      BY <2>1, <2>5, <2>7, <3>1 DEF AgreementInv, WrittenSoFar, Pending
  <2> QED
    BY <1>2, <2>6, <2>7, GetFacts
<1>3. CASE Put
  <2>1. /\ pc = "put" /\ ~healthy /\ Path \in Paths /\ NextPath
        /\ UNCHANGED <<backup, client, loaded, desired, healthy>>
        /\ Whole(Path, desired[Path])
    BY <1>3, PathType DEF Put, AgreementInv, PositionInv, Position
  <2>2. pc' \in {"get", "backup"} /\ \A p \in Paths : Passed(p)' <=> Passed(p) \/ p = Path
    BY <2>1, NextPathMoves, PassNext
  <2>3. \/ failed'
        \/ failed' = failed /\ vault' = [vault EXCEPT ![Path] = desired[Path]]
    BY <1>3 DEF Put
  <2>4. ASSUME ~failed', NEW p \in Paths, Passed(p)' PROVE Holds(p, desired[p])'
    <3>1. ~failed /\ vault'[p] = IF p = Path THEN desired[p] ELSE vault[p]
      BY <2>1, <2>3, <2>4 DEF PositionInv, TypeOK
    <3> QED
      BY <2>1, <2>2, <2>4, <3>1 DEF AgreementInv, WrittenSoFar, Pending, Holds, Whole
  <2> QED
    BY <2>1, <2>2, <2>4 DEF AgreementInv, WrittenSoFar
<1>4. CASE BackUp
  <2>1. pc = "backup" /\ UNCHANGED <<vault, client, healthy>> /\ ~healthy
    BY <1>4 DEF BackUp, AgreementInv
  <2>2. CASE failed
    BY <1>4, <2>1, <2>2 DEF BackUp, Exit, AgreementInv, WrittenSoFar
  <2>3. CASE ~failed
    <3>1. pc' = "keycloak" /\ UNCHANGED <<index, desired, failed>>
      BY <1>4, <2>3 DEF BackUp
    <3>2. \A p \in Paths : Passed(p)' <=> Passed(p)
      BY <3>1 DEF Passed
    <3> QED
      BY <2>1, <2>3, <3>1, <3>2 DEF AgreementInv, WrittenSoFar, Pending, Holds
  <2> QED
    BY <2>2, <2>3
<1> QED
  BY <1>1, <1>2, <1>3, <1>4

(* What the script finds when it comes to back up or to Keycloak. *)
LEMMA AllWritten ==
  ASSUME PositionInv, AgreementInv, pc \in {"backup", "keycloak"}, ~failed
  PROVE  \A p \in Paths : Holds(p, desired[p])
  BY PassAll DEF PositionInv, Position, AgreementInv, WrittenSoFar, Pending

LEMMA SetClientAgrees ==
  ASSUME PositionInv, AgreementInv, SetClient
  PROVE  AgreementInv'
<1>1. /\ pc = "keycloak" /\ ~failed /\ ~healthy /\ Exit /\ backup = desired
      /\ UNCHANGED <<vault, backup>>
  BY DEF SetClient, AgreementInv, PositionInv, Position
<1>2. \A p \in Paths : Holds(p, backup[p])
  BY <1>1, AllWritten
<1>3. healthy' => client' = Secret
  BY <1>1 DEF SetClient
<1>4. pc' = "idle"
  BY <1>1 DEF Exit
<1> QED
  BY <1>1, <1>2, <1>3, <1>4 DEF AgreementInv, WrittenSoFar, Holds, Secret

LEMMA DisturbanceAgrees ==
  ASSUME NoWritesMidRun, PositionInv, AgreementInv, Disturbance
  PROVE  AgreementInv'
<1>1. ASSUME NEW what, Disturb(what)
      PROVE  ~healthy' /\ (pc # "idle" => what \in MidRun)
  BY <1>1 DEF Disturb
<1>2. CASE Crash
  BY <1>1, <1>2 DEF Crash, Exit, AgreementInv, WrittenSoFar
<1>3. CASE Wipe \/ \E p \in Paths, complete \in BOOLEAN : \E K \in SUBSET Secrets[p] :
                     TeamWrite(p, K, complete)
  <2>1. ~healthy' /\ pc' = pc /\ pc = "idle"
    BY <1>1, <1>3 DEF NoWritesMidRun, Wipe, TeamWrite, script
  <2> QED
    BY <2>1 DEF AgreementInv, WrittenSoFar
<1>4. ASSUME UNCHANGED script, ~healthy',
             \A p \in Paths : pc # "idle" /\ Holds(p, desired[p]) => Holds(p, desired[p])'
      PROVE  AgreementInv'
  <2>1. UNCHANGED <<pc, index, desired, failed>>
    BY <1>4 DEF script
  <2>2. Path' = Path /\ \A p \in Paths : Passed(p)' <=> Passed(p)
    BY <2>1 DEF Path, Passed
  <2> QED
    BY <1>4, <2>1, <2>2 DEF AgreementInv, WrittenSoFar, Pending
<1>5. CASE LoseClient
  BY <1>1, <1>4, <1>5 DEF LoseClient, Holds, script
<1>6. CASE Drift
  <2>1. /\ ~healthy' /\ UNCHANGED script /\ vault[Auth] \in Entries
        /\ pc # "idle" => ~NoDriftMidRun
        /\ vault' = [vault EXCEPT ![Auth].complete = FALSE]
    BY <1>1, <1>6, ListFacts DEF Drift, NoDriftMidRun, PositionInv, TypeOK
  <2>2. [vault[Auth] EXCEPT !.complete = FALSE] \in Entries
    BY <2>1 DEF Entries
  <2>3. /\ vault'[Auth] = [vault[Auth] EXCEPT !.complete = FALSE]
        /\ \A p \in Paths : p # Auth => vault'[p] = vault[p]
    BY <2>1, ListFacts DEF PositionInv, TypeOK
  <2>4. vault'[Auth] # None /\ vault'[Auth].secrets = vault[Auth].secrets
    BY <2>1, <2>2, <2>3, NoneAssumption DEF Entries
  <2>5. ASSUME NEW p \in Paths, pc # "idle", Holds(p, desired[p])
        PROVE  Holds(p, desired[p])'
    BY <2>1, <2>3, <2>4, <2>5 DEF Holds, script
  <2> QED
    BY <1>4, <2>1, <2>5
<1> QED
  BY <1>2, <1>3, <1>5, <1>6 DEF Disturbance

LEMMA AgreementNext ==
  ASSUME NoWritesMidRun, PositionInv, AgreementInv, [Next]_vars
  PROVE  AgreementInv'
<1>1. CASE UNCHANGED vars
  <2>1. UNCHANGED <<vault, backup, client, pc, index, desired, failed, healthy>>
    BY <1>1 DEF vars, store, script
  <2>2. Path' = Path /\ \A p \in Paths : Passed(p)' <=> Passed(p)
    BY <2>1 DEF Path, Passed
  <2> QED
    BY <2>1, <2>2 DEF AgreementInv, WrittenSoFar, Pending, Holds, Secret
<1> QED
  BY <1>1, ScriptStep, SetClientAgrees, DisturbanceAgrees DEF Next, Disturbance

LEMMA AgreementHolds ==
  ASSUME NoWritesMidRun
  PROVE  Spec => []AgreementInv
<1>1. Init => AgreementInv
  BY DEF Init, AgreementInv, WrittenSoFar
<1>2. PositionInv /\ AgreementInv /\ [Next]_vars => AgreementInv'
  BY AgreementNext
<1> QED
  BY <1>1, <1>2, PositionHolds, PTL DEF Spec

(* Success is not reported before Keycloak, Vault and the backup agree,    *)
(* wherever calls fail and the script is stopped, as long as nobody else   *)
(* writes during a run: a put that failed keeps the script from Keycloak.  *)
THEOREM HealthyIsAgreed ==
  ASSUME NoWritesMidRun, NoDriftMidRun
  PROVE  Spec => []HealthyMeansAgreed
<1>1. PositionInv /\ AgreementInv => HealthyMeansAgreed
  <2> SUFFICES ASSUME PositionInv, AgreementInv, healthy
               PROVE  /\ client = vault[Auth].secrets[ClientSecret]
                      /\ \A p \in Paths : /\ vault[p] # None /\ backup[p] = vault[p]
                                           /\ vault[p].complete /\ Lacks(p, vault[p]) = {}
    BY DEF HealthyMeansAgreed
  <2>1. ASSUME NEW p \in Paths
        PROVE  backup[p] \in Entries /\ vault[p] \in Entries /\ Holds(p, backup[p])
    BY DEF PositionInv, TypeOK, AgreementInv, Holds
  <2>2. \A p \in Paths : vault[p] # None /\ backup[p] = vault[p] /\ vault[p].complete
    BY <2>1, SameEntry DEF Holds
  <2>3. \A p \in Paths : Lacks(p, vault[p]) = {}
    BY <2>1, <2>2 DEF Holds
  <2>4. client = backup[Auth].secrets[ClientSecret]
    BY DEF AgreementInv, Secret
  <2> QED
    BY <2>2, <2>3, <2>4, ListFacts
<1> QED
  BY <1>1, PositionHolds, AgreementHolds, PTL

(* The backup changes only to credentials Vault holds, all of them at      *)
(* once, as long as nobody else writes during a run.  (The address of the  *)
(* hub may well change.)                                                   *)
THEOREM BackupIsNotAhead ==
  ASSUME NoWritesMidRun
  PROVE  Spec => BackupIsLive
<1>1. ASSUME PositionInv, AgreementInv, [Next]_vars, backup' # backup, NEW p \in Paths
      PROVE  vault[p] # None /\ backup'[p].secrets = vault[p].secrets
  <2>1. BackUp
    BY <1>1 DEF vars, store, Next, Run, Get, Put, SetClient, TeamWrite, Wipe,
       LoseClient, Drift, Crash, Disturb
  <2>2. pc = "backup" /\ ~failed /\ backup' = desired
    BY <1>1, <2>1 DEF BackUp
  <2> QED
    BY <1>1, <2>2, AllWritten DEF Holds
<1>2. PositionInv /\ AgreementInv /\ [Next]_vars =>
        [backup' # backup =>
           \A p \in Paths : vault[p] # None /\ backup'[p].secrets = vault[p].secrets]_vars
  BY <1>1
<1> QED
  BY <1>2, PositionHolds, AgreementHolds, PTL DEF Spec, BackupIsLive

-----------------------------------------------------------------------------
(* Credentials are kept, where reading works and nobody else writes.       *)

ReadsWork == "get" \notin FaultyCalls /\ "readBackup" \notin FaultyCalls

KeptInv ==
  /\ pc \in {"get", "put", "backup"} => loaded = backup
  /\ pc = "put" =>
       LET kept == IF vault[Path] # None THEN vault[Path] ELSE backup[Path] IN
       kept # None =>
         \A k \in Secrets[Path] :
           kept.secrets[k] # 0 => desired[Path].secrets[k] = kept.secrets[k]

LEMMA KeptNext ==
  ASSUME NoWritesMidRun, ReadsWork, PositionInv, KeptInv, [Next]_vars
  PROVE  KeptInv'
<1>1. CASE Run
  BY <1>1 DEF Run, Works, Breaks, ReadsWork, store, KeptInv
<1>2. CASE Get
  <2>1. /\ pc = "get" /\ Path \in Paths /\ loaded = backup
        /\ UNCHANGED <<vault, backup, loaded>>
    BY <1>2, PathType DEF Get, store, KeptInv
  <2>2. /\ live' = vault[Path] /\ live' \in Entries \cup {None}
        /\ desired' = [desired EXCEPT ![Path] = Wanted(Path, live')]
        /\ NextPath \/ (pc' = "put" /\ index' = index)
    BY <1>2, GetFacts DEF ReadsWork
  <2>3. desired'[Path] = Wanted(Path, vault[Path])
    BY <2>1, <2>2 DEF PositionInv, TypeOK
  <2>4. CASE NextPath
    BY <2>1, <2>4, NextPathMoves DEF KeptInv
  <2>5. CASE pc' = "put" /\ index' = index
    <3>1. Path' = Path
      BY <2>5 DEF Path
    <3>2. Secrets[Path] \subseteq Keys
      BY <2>1, SecretsAssumption
    <3>3. \A k \in Secrets[Path] :
            /\ vault[Path] # None /\ vault[Path].secrets[k] # 0
                 => desired'[Path].secrets[k] = vault[Path].secrets[k]
            /\ vault[Path] = None /\ backup[Path] # None /\ backup[Path].secrets[k] # 0
                 => desired'[Path].secrets[k] = backup[Path].secrets[k]
      BY <2>1, <2>2, <2>3, <3>2, WantedType DEF PositionInv
    <3> QED
      BY <2>1, <2>5, <3>1, <3>3 DEF KeptInv
  <2> QED
    BY <2>2, <2>4, <2>5
<1>3. CASE Put
  <2>1. pc' \in {"get", "backup"} /\ UNCHANGED <<loaded, backup>> /\ pc = "put"
    BY <1>3, NextPathMoves DEF Put
  <2> QED
    BY <2>1 DEF KeptInv
<1>4. CASE BackUp
  BY <1>4 DEF BackUp, Exit, KeptInv
<1>5. CASE SetClient
  BY <1>5 DEF SetClient, Exit, KeptInv
<1>6. CASE Crash
  BY <1>6 DEF Crash, Exit, KeptInv
<1>7. ASSUME UNCHANGED script, UNCHANGED backup,
             pc = "put" => /\ vault[Path] = None <=> vault'[Path] = None
                           /\ vault[Path] # None => vault'[Path].secrets = vault[Path].secrets
      PROVE  KeptInv'
  <2>1. UNCHANGED <<pc, index, loaded, desired>> /\ Path' = Path
    BY <1>7 DEF script, Path
  <2> QED
    BY <1>7, <2>1 DEF KeptInv
<1>8. CASE LoseClient
  BY <1>7, <1>8 DEF LoseClient, Disturb
<1>9. CASE UNCHANGED vars
  BY <1>7, <1>9 DEF vars, store
<1>10. CASE Wipe \/ \E p \in Paths, complete \in BOOLEAN : \E K \in SUBSET Secrets[p] :
                     TeamWrite(p, K, complete)
  <2>1. pc = "idle" /\ UNCHANGED script /\ UNCHANGED backup
    BY <1>10 DEF NoWritesMidRun, Wipe, TeamWrite, Disturb
  <2> QED
    BY <1>7, <2>1
<1>11. CASE Drift
  <2>1. /\ UNCHANGED script /\ UNCHANGED backup /\ vault[Auth] \in Entries
        /\ vault' = [vault EXCEPT ![Auth].complete = FALSE]
    BY <1>11, ListFacts DEF Drift, Disturb, PositionInv, TypeOK
  <2>2. [vault[Auth] EXCEPT !.complete = FALSE] \in Entries
    BY <2>1 DEF Entries
  <2>3. /\ vault'[Auth] = [vault[Auth] EXCEPT !.complete = FALSE]
        /\ \A p \in Paths : p # Auth => vault'[p] = vault[p]
    BY <2>1, ListFacts DEF PositionInv, TypeOK
  <2>4. /\ vault[Auth] # None /\ vault'[Auth] # None
        /\ vault'[Auth].secrets = vault[Auth].secrets
    BY <2>1, <2>2, <2>3, NoneAssumption DEF Entries
  <2>5. pc = "put" => Path \in Paths
    BY PathType
  <2> QED
    BY <1>7, <2>1, <2>3, <2>4, <2>5
<1> QED
  BY <1>1, <1>2, <1>3, <1>4, <1>5, <1>6, <1>8, <1>9, <1>10, <1>11 DEF Next

(* A put keeps every credential Vault has under the path, or those of the  *)
(* backup where Vault has lost the path, as long as both can be read and   *)
(* nobody else writes during a run.  (A path that Vault still has is not   *)
(* completed from the backup: GeneratedOnlyWhenLost does not hold.)        *)
THEOREM CredentialsKept ==
  ASSUME NoWritesMidRun, ReadsWork
  PROVE  Spec => CredentialsAreKept
<1>1. Init => KeptInv
  BY DEF Init, KeptInv
<1>2. PositionInv /\ KeptInv /\ [Next]_vars => KeptInv'
  BY KeptNext
<1> DEFINE kept == IF vault[Path] # None THEN vault[Path] ELSE backup[Path]
<1>3. ASSUME PositionInv, KeptInv, [Next]_vars,
             pc = "put", pc' # "put", vault' # vault, kept # None,
             NEW k \in Secrets[Path], kept.secrets[k] # 0
      PROVE  vault'[Path].secrets[k] = kept.secrets[k]
  <2>1. Put
    BY <1>3 DEF vars, store, Next, Run, Get, BackUp, SetClient, TeamWrite, Wipe,
       LoseClient, Drift, Crash, script
  <2>2. Path \in Paths /\ vault' = [vault EXCEPT ![Path] = desired[Path]]
    BY <1>3, <2>1, PathType DEF Put
  <2>3. vault'[Path] = desired[Path]
    BY <1>3, <2>2 DEF PositionInv, TypeOK
  <2> QED
    BY <1>3, <2>3 DEF KeptInv
<1>4. PositionInv /\ KeptInv /\ [Next]_vars =>
        [pc = "put" /\ pc' # "put" /\ vault' # vault =>
           (kept # None =>
              \A k \in Secrets[Path] :
                kept.secrets[k] # 0 => vault'[Path].secrets[k] = kept.secrets[k])]_vars
  BY <1>3
<1> QED
  BY <1>1, <1>2, <1>4, PositionHolds, PTL DEF Spec, CredentialsAreKept

-----------------------------------------------------------------------------
(* What is backed up is remembered, whatever else happens during a run, as *)
(* long as the backup can be read: a get or put that fails, a Vault that   *)
(* is lost or written to.                                                  *)

(* The entry a still has the credentials of b. *)
Keeps(a, b) == b # None => \A k \in Keys : b.secrets[k] # 0 => a.secrets[k] = b.secrets[k]

(* The paths for which the script has decided what it wants. *)
Decided(p) == Passed(p) \/ Pending(p)

RememberInv ==
  /\ pc \in {"get", "put", "backup"} => loaded = backup
  /\ \A p \in Paths \ touched :
       /\ vault[p] # None => Keeps(vault[p], backup[p])
       /\ pc \in {"get", "put", "backup"} /\ Decided(p) => Keeps(desired[p], backup[p])
       /\ /\ pc \in {"get", "put", "backup"} /\ ~failed
          /\ Passed(p) /\ ~Pending(p) /\ vault[p] # None
          => vault[p].secrets = desired[p].secrets

LEMMA RememberGet ==
  ASSUME PositionInv, RememberInv, Get
  PROVE  RememberInv'
<1>1. /\ pc = "get" /\ Path \in Paths /\ loaded = backup
      /\ UNCHANGED <<vault, backup, loaded, failed, touched>>
  BY PathType DEF Get, store, RememberInv
<1> DEFINE w == Wanted(Path, live')
<1>2. /\ live' \in Entries \cup {None} /\ desired' = [desired EXCEPT ![Path] = w]
      /\ live' = vault[Path] \/ live' = None
  BY GetFacts
<1>3. /\ w # None
      /\ \A k \in Keys :
           /\ live' # None /\ live'.secrets[k] # 0 => w.secrets[k] = live'.secrets[k]
           /\ live' = None /\ backup[Path] # None /\ backup[Path].secrets[k] # 0
                => w.secrets[k] = backup[Path].secrets[k]
  BY <1>1, <1>2, WantedType DEF PositionInv, Whole
<1> HIDE DEF w
<1>4. desired'[Path] = w /\ \A p \in Paths : p # Path => desired'[p] = desired[p]
  BY <1>1, <1>2 DEF PositionInv, TypeOK
<1>5. Path \notin touched => Keeps(w, backup[Path])
  <2>1. CASE live' = None
    BY <1>3, <2>1 DEF Keeps
  <2>2. CASE live' = vault[Path] /\ live' # None
    <3>1. Path \notin touched => Keeps(live', backup[Path])
      BY <1>1, <2>2 DEF RememberInv
    <3> QED
      BY <1>3, <2>2, <3>1 DEF Keeps
  <2> QED
    BY <1>2, <2>1, <2>2
<1>6. ASSUME NEW p \in Paths, p \notin touched
      PROVE  /\ vault[p] # None => Keeps(vault[p], backup[p])
             /\ Passed(p) \/ p = Path => Keeps(desired'[p], backup[p])
             /\ ~failed /\ Passed(p) /\ p # Path /\ vault[p] # None
                  => vault[p].secrets = desired'[p].secrets
  BY <1>1, <1>4, <1>5, <1>6 DEF RememberInv, Decided, Pending
<1>7. CASE desired'[Path] = live' /\ NextPath
  <2>1. pc' \in {"get", "backup"} /\ \A p \in Paths : Passed(p)' <=> Passed(p) \/ p = Path
    BY <1>1, <1>7, NextPathMoves, PassNext
  <2>2. vault[Path] = w
    BY <1>2, <1>3, <1>4, <1>7
  <2> QED
    BY <1>1, <1>4, <1>6, <2>1, <2>2 DEF RememberInv, Decided, Pending, Keeps
<1>8. CASE pc' = "put" /\ index' = index
  <2>1. Path' = Path /\ \A p \in Paths : Passed(p)' <=> Passed(p)
    BY <1>8 DEF Path, Passed
  <2> QED
    BY <1>1, <1>6, <1>8, <2>1 DEF RememberInv, Decided, Pending, Keeps
<1> QED
  BY <1>7, <1>8, GetFacts

LEMMA RememberPut ==
  ASSUME PositionInv, RememberInv, Put
  PROVE  RememberInv'
<1>1. /\ pc = "put" /\ Path \in Paths /\ NextPath /\ loaded = backup
      /\ UNCHANGED <<backup, loaded, desired, touched>>
  BY PathType DEF Put, RememberInv
<1>2. pc' \in {"get", "backup"} /\ \A p \in Paths : Passed(p)' <=> Passed(p) \/ p = Path
  BY <1>1, NextPathMoves, PassNext
<1>3. \/ failed' /\ vault' \in {vault, [vault EXCEPT ![Path] = desired[Path]]}
      \/ failed' = failed /\ vault' = [vault EXCEPT ![Path] = desired[Path]]
  BY DEF Put
<1>4. ASSUME NEW p \in Paths
      PROVE  /\ vault'[p] = vault[p] \/ (p = Path /\ vault'[p] = desired[p])
             /\ ~failed' => ~failed /\ (p = Path => vault'[p] = desired[p])
  BY <1>1, <1>3 DEF PositionInv, TypeOK
<1>5. ASSUME NEW p \in Paths, p \notin touched
      PROVE  /\ vault'[p] # None => Keeps(vault'[p], backup[p])
             /\ Passed(p) \/ p = Path => Keeps(desired[p], backup[p])
             /\ ~failed' /\ (Passed(p) \/ p = Path) /\ vault'[p] # None
                  => vault'[p].secrets = desired[p].secrets
  BY <1>1, <1>4, <1>5 DEF RememberInv, Decided, Pending
<1> QED
  BY <1>1, <1>2, <1>5 DEF RememberInv, Decided, Pending, Keeps

(* A credential that is backed up, and what becomes of it. *)
LEMMA RememberBackUp ==
  ASSUME PositionInv, RememberInv, BackUp
  PROVE  /\ RememberInv'
         /\ backup' # backup =>
              \A p \in Paths \ touched : Keeps(backup'[p], backup[p])
<1>1. pc = "backup" /\ UNCHANGED vault
  BY DEF BackUp
<1>2. CASE failed
  BY <1>2 DEF BackUp, Exit, RememberInv, Keeps
<1>3. CASE ~failed
  <2>1. backup' = desired /\ pc' = "keycloak" /\ touched' = Unsaved
    BY <1>3 DEF BackUp
  <2>2. \A p \in Paths : Passed(p) /\ ~Pending(p)
    BY <1>1, PassAll DEF PositionInv, Position, Pending
  <2>3. \A p \in Paths \ touched : /\ Keeps(desired[p], backup[p])
                                   /\ vault[p] # None => vault[p].secrets = desired[p].secrets
    BY <1>1, <1>3, <2>2 DEF RememberInv, Decided
  <2>4. \A p \in Paths \ touched' : vault[p] # None => vault[p].secrets = desired[p].secrets
    BY <2>1, <2>3 DEF Unsaved
  <2>5. \A p \in Paths \ touched' : vault'[p] # None => Keeps(vault'[p], backup'[p])
    BY <1>1, <2>1, <2>4 DEF Keeps
  <2> QED
    BY <2>1, <2>3, <2>5 DEF RememberInv, Keeps
<1> QED
  BY <1>2, <1>3

(* Outside the script: nothing a path that is not written to has is        *)
(* replaced by anything else.                                              *)
LEMMA RememberDisturbance ==
  ASSUME PositionInv, RememberInv, Disturbance
  PROVE  RememberInv'
<1>1. ASSUME UNCHANGED <<script, backup>>, touched \subseteq touched',
             \A p \in Paths \ touched' :
               vault'[p] = None \/ (vault[p] # None /\ vault'[p].secrets = vault[p].secrets)
      PROVE  RememberInv'
  <2>1. UNCHANGED <<pc, index, loaded, desired, failed>>
    BY <1>1 DEF script
  <2>2. Path' = Path /\ \A p \in Paths : (Passed(p)' <=> Passed(p)) /\ (Pending(p)' <=> Pending(p))
    BY <2>1 DEF Path, Passed, Pending
  <2> QED
    BY <1>1, <2>1, <2>2 DEF RememberInv, Decided, Keeps
<1>2. CASE Crash
  BY <1>2 DEF Crash, Exit, Disturb, RememberInv, Keeps
<1>3. CASE Wipe
  BY <1>1, <1>3 DEF Wipe, Disturb, Nothing
<1>4. CASE LoseClient
  BY <1>1, <1>4 DEF LoseClient, Disturb
<1>5. ASSUME NEW p \in Paths, NEW complete \in BOOLEAN, NEW K \in SUBSET Secrets[p],
             TeamWrite(p, K, complete)
      PROVE  RememberInv'
  <2> DEFINE e == [secrets  |-> [k \in Keys |-> IF k \in K THEN values + 1 ELSE 0],
                   complete |-> complete]
  <2>1. /\ vault' = [vault EXCEPT ![p] = e] /\ touched' = touched \cup {p}
        /\ UNCHANGED <<script, backup>>
    BY <1>5 DEF TeamWrite, Disturb
  <2> HIDE DEF e
  <2>2. \A q \in Paths : q # p => vault'[q] = vault[q]
    BY <2>1 DEF PositionInv, TypeOK
  <2> QED
    BY <1>1, <2>1, <2>2
<1>6. CASE Drift
  <2>1. /\ UNCHANGED <<script, backup, touched>> /\ vault[Auth] \in Entries
        /\ vault' = [vault EXCEPT ![Auth].complete = FALSE]
    BY <1>6, ListFacts DEF Drift, Disturb, PositionInv, TypeOK
  <2>2. [vault[Auth] EXCEPT !.complete = FALSE].secrets = vault[Auth].secrets
    BY <2>1 DEF Entries
  <2>3. /\ vault'[Auth] = [vault[Auth] EXCEPT !.complete = FALSE]
        /\ \A p \in Paths : p # Auth => vault'[p] = vault[p]
    BY <2>1, ListFacts DEF PositionInv, TypeOK
  <2>4. vault[Auth] # None
    BY <2>1, EntryType
  <2> QED
    BY <1>1, <2>1, <2>2, <2>3, <2>4
<1> QED
  BY <1>2, <1>3, <1>4, <1>5, <1>6 DEF Disturbance

LEMMA RememberNext ==
  ASSUME "readBackup" \notin FaultyCalls, PositionInv, RememberInv, [Next]_vars
  PROVE  RememberInv'
<1>1. CASE Run
  <2>1. /\ loaded' = backup /\ index' = 1 /\ pc' = "get"
        /\ UNCHANGED <<vault, backup, touched>>
    BY <1>1 DEF Run, Works, Breaks, store, PositionInv, Position
  <2>2. \A p \in Paths : ~Passed(p)' /\ ~Pending(p)'
    BY <2>1, PassNone DEF Pending
  <2> QED
    BY <2>1, <2>2 DEF RememberInv, Decided, Keeps
<1>2. CASE SetClient
  BY <1>2 DEF SetClient, Exit, RememberInv, Keeps
<1>3. CASE UNCHANGED vars
  <2>1. UNCHANGED <<vault, backup, touched, pc, index, loaded, desired, failed>>
    BY <1>3 DEF vars, store, script
  <2>2. Path' = Path /\ \A p \in Paths : (Passed(p)' <=> Passed(p)) /\ (Pending(p)' <=> Pending(p))
    BY <2>1 DEF Path, Passed, Pending
  <2> QED
    BY <2>1, <2>2 DEF RememberInv, Decided, Keeps
<1> QED
  BY <1>1, <1>2, <1>3, RememberGet, RememberPut, RememberBackUp, RememberDisturbance
     DEF Next, Disturbance

(* A credential that made it to the backup stays there until a team has    *)
(* written to its path: gets that fail, puts that fail or succeed unseen,  *)
(* writes and a lost Vault in the middle of a run, and a script stopped    *)
(* anywhere do not lose it, as long as the backup can be read.             *)
THEOREM BackupRemembered ==
  ASSUME "readBackup" \notin FaultyCalls
  PROVE  Spec => BackupRemembers
<1>1. Init => RememberInv
  BY DEF Init, RememberInv, Nothing, Keeps
<1>2. PositionInv /\ RememberInv /\ [Next]_vars => RememberInv'
  BY RememberNext
<1>3. ASSUME PositionInv, RememberInv, [Next]_vars, backup' # backup,
             NEW p \in Paths, NEW k \in Keys, backup[p] # None, backup[p].secrets[k] # 0
      PROVE  backup'[p].secrets[k] = backup[p].secrets[k] \/ p \in touched
  <2>1. BackUp
    BY <1>3 DEF vars, store, Next, Run, Get, Put, SetClient, TeamWrite, Wipe,
       LoseClient, Drift, Crash, Disturb
  <2> QED
    BY <1>3, <2>1, RememberBackUp DEF Keeps
<1>4. PositionInv /\ RememberInv /\ [Next]_vars =>
        [backup' # backup =>
           \A p \in Paths, k \in Keys :
             backup[p] # None /\ backup[p].secrets[k] # 0 =>
               backup'[p].secrets[k] = backup[p].secrets[k] \/ p \in touched]_vars
  BY <1>3
<1> QED
  BY <1>1, <1>2, <1>4, PositionHolds, PTL DEF Spec, BackupRemembers
=============================================================================
