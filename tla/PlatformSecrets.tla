--------------------------- MODULE PlatformSecrets ---------------------------
(***************************************************************************)
(* Stage 10.5 of dev-up-gemini.sh, the part that keeps secrets: Vault runs *)
(* in memory and Keycloak without a volume, so the script fills what Vault *)
(* lost from a backup file, writes the backup again, and makes Keycloak    *)
(* agree with it.  It is run again and again, by hand, and may stop        *)
(* anywhere; the owners of the secrets write to Vault themselves.          *)
(***************************************************************************)
EXTENDS Naturals, Sequences

CONSTANTS
  PathList,      \* AF_VAULT_PATHS in order
  Auth,          \* the path with the Keycloak client secret
  Keys,          \* names of credentials
  Secrets,       \* [Paths -> SUBSET Keys], the credentials kept under a path
  ClientSecret,  \* the key Keycloak is given
  Generated,     \* paths whose credentials the script makes up when missing
  None,          \* nothing stored under that path
  FaultyCalls,   \* what may fail: "readBackup", "get", "put", "keycloak"
  Disturbances,  \* what may happen between runs
  MidRun,        \* what may happen during a run, too
  MaxValues,     \* bound: values ever made up
  MaxFaults,     \* bound: calls that fail
  MaxDisturbed   \* bound: disturbances

Paths == {PathList[i] : i \in DOMAIN PathList}

AllDisturbances == {"write", "wipe", "loseClient", "drift", "crash"}

ASSUME SecretsAssumption ==
  /\ PathList # <<>> /\ PathList \in Seq(Paths) /\ Auth \in Paths /\ Generated \subseteq Paths
  /\ Secrets \in [Paths -> SUBSET Keys]
  /\ Auth \in Generated /\ ClientSecret \in Secrets[Auth]
  /\ Disturbances \subseteq AllDisturbances /\ MidRun \subseteq Disturbances
  /\ MaxValues \in Nat /\ MaxFaults \in Nat /\ MaxDisturbed \in Nat

(* What is stored under a path: each credential, numbered, 0 when it is    *)
(* missing or empty; and whether the other keys the script adds or keeps   *)
(* up to date (REQUIRED, keycloak_url, ...) are as they should be.  A path *)
(* with nothing in it counts as None (`live or ...`).                      *)
Entries == [secrets : [Keys -> Nat], complete : BOOLEAN]

ASSUME NoneAssumption == None \notin Entries

VARIABLES
  vault,      \* [Paths -> Entries or None]
  backup,     \* the backup file: likewise, None everywhere when there is none
  client,     \* Keycloak's secret of the gateway client, 0 without a client
  pc, index,  \* what the script does next; the path it is at
  loaded,     \* backup, as read
  live,       \* what the get returned
  desired,    \* what it wants to be stored
  failed,     \* some put failed
  healthy,    \* the last run reported success, and nothing happened since
  touched,    \* history: paths written to by teams since their last backup
  values,     \* number of values made up; names the newest one
  faults, disturbed   \* counters

store  == <<vault, backup, client>>
script == <<pc, index, loaded, live, desired, failed>>
vars   == <<store, script, healthy, touched, values, faults, disturbed>>

TypeOK ==
  /\ vault \in [Paths -> Entries \cup {None}]
  /\ backup \in [Paths -> Entries \cup {None}]
  /\ loaded \in [Paths -> Entries \cup {None}]
  /\ desired \in [Paths -> Entries \cup {None}]
  /\ live \in Entries \cup {None}
  /\ client \in Nat /\ values \in Nat /\ touched \in SUBSET Paths
  /\ pc \in {"idle", "get", "put", "backup", "keycloak"}
  /\ index \in 1..(Len(PathList) + 1)
  /\ failed \in BOOLEAN /\ healthy \in BOOLEAN
  /\ faults \in Nat /\ disturbed \in Nat

Nothing == [p \in Paths |-> None]

Init ==
  /\ vault = Nothing /\ backup = Nothing /\ client = 0
  /\ pc = "idle" /\ index = 1
  /\ loaded = Nothing /\ live = None /\ desired = Nothing /\ failed = FALSE
  /\ healthy = FALSE /\ touched = {} /\ values = 0 /\ faults = 0 /\ disturbed = 0

-----------------------------------------------------------------------------
Path == PathList[index]

(* A call ends well, or not. *)
Works == UNCHANGED faults

Breaks(c) == c \in FaultyCalls /\ faults < MaxFaults /\ faults' = faults + 1

(* Variant: the script ends where nobody starts it again. *)
ExitForGood ==
  /\ pc' = "exited" /\ index' = 1
  /\ loaded' = Nothing /\ live' = None /\ desired' = Nothing /\ failed' = FALSE

Exit ==
  /\ pc' = "idle" /\ index' = 1
  /\ loaded' = Nothing /\ live' = None /\ desired' = Nothing /\ failed' = FALSE

(* A backup that cannot be read counts as empty. *)
Run ==
  /\ pc = "idle"
  /\ \/ Works /\ loaded' = backup
     \/ Breaks("readBackup") /\ loaded' = Nothing
  /\ pc' = "get" /\ healthy' = FALSE
  /\ UNCHANGED <<store, index, live, desired, failed, touched, values, disturbed>>

Blank == [secrets |-> [k \in Keys |-> 0], complete |-> FALSE]

(* live or backup or new: one of them, whole. *)
Found(p, l) ==
  IF l # None THEN l ELSE IF loaded[p] # None THEN loaded[p] ELSE Blank

Lacks(p, e) == {k \in Secrets[p] : p \in Generated /\ e.secrets[k] = 0}

(* Missing credentials are made up, whatever another source may know of    *)
(* them: all of a path get one new number.                                 *)
Completed(p, e) ==
  [secrets  |-> [k \in Keys |-> IF k \in Lacks(p, e) THEN values + 1 ELSE e.secrets[k]],
   complete |-> TRUE]

(* Variant: what Vault has lost is made anew. *)
WantedAnew(p, l) == Completed(p, IF l # None THEN l ELSE Blank)

Wanted(p, l) == Completed(p, Found(p, l))

NextPath ==
  /\ index' = index + 1
  /\ pc' = IF index < Len(PathList) THEN "get" ELSE "backup"

(* get returns None for any exit code but 0: "no such path" and "could not *)
(* ask" are the same.                                                      *)
Get ==
  /\ pc = "get"
  /\ \/ Works /\ live' = vault[Path]
     \/ Breaks("get") /\ live' = None
  /\ LET new == Lacks(Path, Found(Path, live')) # {} IN
     /\ new => values < MaxValues
     /\ values' = IF new THEN values + 1 ELSE values
  /\ desired' = [desired EXCEPT ![Path] = Wanted(Path, live')]
  /\ IF desired'[Path] = live' THEN NextPath ELSE pc' = "put" /\ UNCHANGED index
  /\ UNCHANGED <<store, loaded, failed, healthy, touched, disturbed>>

(* kv put replaces the whole path. *)
Put ==
  LET written == [vault EXCEPT ![Path] = desired[Path]] IN
  /\ pc = "put"
  /\ \/ Works /\ vault' = written /\ UNCHANGED failed
     \/ Breaks("put") /\ vault' \in {vault, written} /\ failed' = TRUE
  /\ NextPath
  /\ UNCHANGED <<backup, client, loaded, live, desired, healthy, touched, values,
                 disturbed>>

Unsaved == {p \in touched : vault[p] = None \/ vault[p].secrets # desired[p].secrets}

(* Variant: what was wanted is backed up, written or not. *)
BackUpAlways ==
  /\ pc = "backup"
  /\ backup' = desired /\ pc' = "keycloak" /\ touched' = Unsaved
  /\ UNCHANGED <<vault, client, index, loaded, live, desired, failed, healthy,
                 values, faults, disturbed>>

(* The backup is replaced at once (os.replace), and only after every put;  *)
(* otherwise Keycloak is left alone, too.                                  *)
BackUp ==
  /\ pc = "backup"
  /\ IF failed
     THEN Exit /\ UNCHANGED <<backup, touched>>
     ELSE /\ backup' = desired /\ pc' = "keycloak" /\ touched' = Unsaved
          /\ UNCHANGED <<index, loaded, live, desired, failed>>
  /\ UNCHANGED <<vault, client, healthy, values, faults, disturbed>>

Secret == backup[Auth].secrets[ClientSecret]

(* Variant: a client that is there is left alone. *)
SetClientOnce ==
  /\ pc = "keycloak"
  /\ client' = IF client = 0 THEN Secret ELSE client
  /\ healthy' = TRUE
  /\ Exit
  /\ UNCHANGED <<vault, backup, touched, values, faults, disturbed>>

(* The client is created with, or re-aligned to, the backed-up secret.     *)
(* Groups, mappers and users are left out.                                 *)
SetClient ==
  /\ pc = "keycloak"
  /\ \/ Works /\ client' = Secret /\ healthy' = TRUE
     \/ Breaks("keycloak") /\ client' \in {client, Secret}
        /\ UNCHANGED healthy
  /\ Exit
  /\ UNCHANGED <<vault, backup, touched, values, disturbed>>

-----------------------------------------------------------------------------
Disturb(what) ==
  /\ what \in Disturbances /\ (pc = "idle" \/ what \in MidRun)
  /\ disturbed < MaxDisturbed /\ disturbed' = disturbed + 1
  /\ healthy' = FALSE
  /\ UNCHANGED <<backup, faults>>

(* A team replaces a path with the credentials K of its own, the others no *)
(* longer there, with or without the other keys.                           *)
TeamWrite(p, K, complete) ==
  /\ Disturb("write") /\ values < MaxValues
  /\ values' = values + 1
  /\ vault' = [vault EXCEPT ![p] =
                 [secrets  |-> [k \in Keys |-> IF k \in K THEN values + 1 ELSE 0],
                  complete |-> complete]]
  /\ touched' = touched \cup {p}
  /\ UNCHANGED <<client, script>>

(* Docker restarts. *)
Wipe ==
  /\ Disturb("wipe") /\ vault' = Nothing
  /\ UNCHANGED <<client, script, touched, values>>

LoseClient ==
  /\ Disturb("loseClient") /\ client' = 0
  /\ UNCHANGED <<vault, script, touched, values>>

(* HUB_IP changes. *)
Drift ==
  /\ Disturb("drift") /\ vault[Auth] # None
  /\ vault' = [vault EXCEPT ![Auth].complete = FALSE]
  /\ UNCHANGED <<client, script, touched, values>>

Crash ==
  /\ Disturb("crash") /\ pc # "idle"
  /\ Exit /\ UNCHANGED <<vault, client, touched, values>>

Next ==
  \/ Run \/ Get \/ Put \/ BackUp \/ SetClient
  \/ \E p \in Paths, complete \in BOOLEAN : \E K \in SUBSET Secrets[p] : TeamWrite(p, K, complete)
  \/ Wipe \/ LoseClient \/ Drift \/ Crash

Spec == Init /\ [][Next]_vars

-----------------------------------------------------------------------------
(* "Existing values are never overwritten": a put keeps every credential   *)
(* that is in Vault under the path or, where Vault has lost the path, in   *)
(* the backup.                                                             *)
CredentialsAreKept ==
  [][pc = "put" /\ pc' # "put" /\ vault' # vault =>
       LET kept == IF vault[Path] # None THEN vault[Path] ELSE backup[Path] IN
       kept # None =>
         \A k \in Secrets[Path] :
           kept.secrets[k] # 0 => vault'[Path].secrets[k] = kept.secrets[k]]_vars

(* "generated (no live value or backup)": where Vault has no value for a   *)
(* key, a put stores the backup's.                                         *)
GeneratedOnlyWhenLost ==
  [][pc = "put" /\ pc' # "put" /\ vault' # vault =>
       \A k \in Secrets[Path] :
         /\ vault[Path] = None \/ vault[Path].secrets[k] = 0
         /\ backup[Path] # None /\ backup[Path].secrets[k] # 0
         => vault'[Path].secrets[k] = backup[Path].secrets[k]]_vars

(* "The backup only fills paths Vault lost": a credential that made it to  *)
(* the backup stays there, through lost Vaults, failing calls and runs     *)
(* that stop halfway, until a team has written to its path.                *)
BackupRemembers ==
  [][backup' # backup =>
       \A p \in Paths, k \in Keys :
         backup[p] # None /\ backup[p].secrets[k] # 0 =>
           backup'[p].secrets[k] = backup[p].secrets[k] \/ p \in touched]_vars

(* The backup is never ahead of Vault: it changes only to what Vault holds *)
(* at that moment, all paths at once.                                      *)
BackupIsLive ==
  [][backup' # backup =>
       \A p \in Paths : vault[p] # None /\ backup'[p].secrets = vault[p].secrets]_vars

(* "... so Keycloak, Vault and oauth2-proxy always agree": after a run     *)
(* that reports success the first two do, the backup with them, and        *)
(* nothing is missing that the script could make up.                       *)
HealthyMeansAgreed ==
  healthy =>
    /\ \A p \in Paths :
         vault[p] # None /\ backup[p] = vault[p] /\ vault[p].complete /\ Lacks(p, vault[p]) = {}
    /\ client = vault[Auth].secrets[ClientSecret]

=============================================================================
