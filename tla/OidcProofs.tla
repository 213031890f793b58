----------------------------- MODULE OidcProofs -----------------------------
(* Theorems about Oidc: the client under an arbitrary caller, for all      *)
(* applications, faults and losses.                                        *)
EXTENDS Oidc, TLAPS

-----------------------------------------------------------------------------
(* Types. *)

ServicesType == /\ clients \in [Apps -> Nat]
                /\ vault \in [Apps -> Credentials]
                /\ inFlight \subseteq Requests
                /\ issued \in Nat

RequestType == /\ cookies \in Nat
               /\ call \in HttpCalls \cup {"idle"}
               /\ op \in {"none", "register", "deregister"}
               /\ app \in Apps
               /\ found \in Nat
               /\ creds \in Credentials
               /\ result \in {"none", "Registered", "RegistrationFailed",
                              "VaultWriteFailed", "Deleted", "DeleteFailed"}

LEMMA TypeParts ==
  ASSUME ServicesType', RequestType', faults' \in Nat, losses' \in Nat
  PROVE  OidcTypeOK'
  BY DEF OidcTypeOK, ServicesType, RequestType

LEMMA SameServicesType ==
  ASSUME OidcTypeOK, UNCHANGED services
  PROVE  ServicesType'
  BY DEF OidcTypeOK, ServicesType, services

LEMMA EmptyType == Empty \in Credentials /\ Empty.secret = 0 /\ Empty.cookie = 0
  BY DEF Empty, Credentials

LEMMA AnyAppType == AnyApp \in Apps
  BY AppsAssumption DEF AnyApp

LEMMA EndsType ==
  ASSUME OidcTypeOK, NEW c, NEW out, Ends(c, out)
  PROVE  faults' \in Nat
  BY DEF OidcTypeOK, Ends

LEMMA FinishType ==
  ASSUME OidcTypeOK, cookies' \in Nat,
         NEW r \in {"none", "Registered", "RegistrationFailed",
                    "VaultWriteFailed", "Deleted", "DeleteFailed"}, Finish(r)
  PROVE  RequestType'
  BY AnyAppType, EmptyType DEF Finish, RequestType

LEMMA FailureType ==
  ASSUME OidcTypeOK, cookies' \in Nat, Failure
  PROVE  RequestType'
  BY FinishType DEF Failure

LEMMA ProceedType ==
  ASSUME OidcTypeOK, cookies' \in Nat, NEW c \in HttpCalls, NEW id \in Nat,
         NEW cr \in Credentials, Proceed(c, id, cr)
  PROVE  RequestType'
  BY DEF OidcTypeOK, RequestType, Proceed

LEMMA HttpType ==
  ASSUME OidcTypeOK, NEW out \in Outcomes, Http(out)
  PROVE  OidcTypeOK'
<1>1. /\ found \in Nat /\ app \in Apps /\ issued \in Nat /\ cookies \in Nat
      /\ creds \in Credentials /\ clients \in [Apps -> Nat]
      /\ vault \in [Apps -> Credentials] /\ inFlight \subseteq Requests
      /\ vault[app].cookie \in Nat /\ losses \in Nat
  BY DEF OidcTypeOK, Credentials
<1>2. ASSUME NEW s \in Nat PROVE [Empty EXCEPT !.secret = s] \in Credentials
  BY <1>2 DEF Empty, Credentials
<1>3. ASSUME NEW c \in Nat PROVE [creds EXCEPT !.cookie = c] \in Credentials
  BY <1>1, <1>3 DEF Credentials
<1>4. CASE GetToken(out)
  <2>1. RequestType' /\ faults' \in Nat
    BY <1>1, <1>4, EndsType, EmptyType, FailureType, ProceedType
       DEF GetToken, HttpCalls
  <2> QED
    BY <1>1, <1>4, <2>1, TypeParts, SameServicesType DEF GetToken
<1>5. CASE ListClients(out)
  <2>1. clients[app] \in Nat /\ AfterList \in HttpCalls
    BY <1>1 DEF AfterList, HttpCalls
  <2>2. RequestType' /\ faults' \in Nat
    BY <1>1, <1>5, <2>1, EndsType, EmptyType, FailureType, ProceedType, FinishType
       DEF ListClients, HttpCalls
  <2> QED
    BY <1>1, <1>5, <2>2, TypeParts, SameServicesType DEF ListClients
<1>6. CASE CreateClient(out)
  <2>1. RequestType' /\ faults' \in Nat /\ losses' \in Nat
    BY <1>1, <1>6, EndsType, EmptyType, FailureType, ProceedType
       DEF CreateClient, HttpCalls
  <2>2. [kind |-> "create", app |-> app] \in Requests
    BY <1>1 DEF Requests
  <2>3. ServicesType'
    BY <1>1, <1>6, <2>2 DEF CreateClient, ServicesType
  <2> QED
    BY <2>1, <2>3, TypeParts
<1>7. CASE GetSecret(out)
  <2>1. RequestType' /\ faults' \in Nat
    BY <1>1, <1>2, <1>7, EndsType, EmptyType, FailureType, ProceedType
       DEF GetSecret, HttpCalls
  <2> QED
    BY <1>1, <1>7, <2>1, TypeParts, SameServicesType DEF GetSecret
<1>8. CASE ReadVault(out)
  <2> DEFINE kept == IF out = "ok" THEN vault[app].cookie ELSE 0
             next == IF kept = 0 THEN cookies + 1 ELSE kept
  <2>1. next \in Nat
    BY <1>1
  <2>2. /\ cookies' \in Nat /\ faults' \in Nat
        /\ Proceed("writeVault", found, [creds EXCEPT !.cookie = next])
    BY <1>1, <1>8, EndsType DEF ReadVault
  <2> HIDE DEF next
  <2>3. RequestType'
    BY <1>1, <1>3, <2>1, <2>2, ProceedType DEF HttpCalls
  <2> QED
    BY <1>1, <1>8, <2>2, <2>3, TypeParts, SameServicesType DEF ReadVault
<1>9. CASE WriteVault(out)
  <2>1. RequestType' /\ faults' \in Nat /\ losses' \in Nat
    BY <1>1, <1>9, EndsType, FinishType DEF WriteVault
  <2>2. [kind |-> "writeVault", app |-> app, creds |-> creds] \in Requests
    BY <1>1 DEF Requests
  <2>3. ServicesType'
    BY <1>1, <1>9, <2>2 DEF WriteVault, ServicesType
  <2> QED
    BY <2>1, <2>3, TypeParts
<1>10. CASE DeleteClient(out)
  <2>1. RequestType' /\ faults' \in Nat /\ losses' \in Nat
    BY <1>1, <1>10, EndsType, FinishType DEF DeleteClient
  <2>2. [kind |-> "delete", app |-> app, id |-> found] \in Requests
    BY <1>1 DEF Requests
  <2>3. ServicesType'
    BY <1>1, <1>10, <2>2 DEF DeleteClient, ServicesType
  <2> QED
    BY <2>1, <2>3, TypeParts
<1> QED
  BY <1>4, <1>5, <1>6, <1>7, <1>8, <1>9, <1>10 DEF Http

LEMMA RequestFields ==
  ASSUME NEW r \in Requests
  PROVE  /\ r.kind \in {"create", "delete", "writeVault"} /\ r.app \in Apps
         /\ r.kind = "writeVault" => r.creds \in Credentials
  BY DEF Requests

LEMMA ServiceType ==
  ASSUME OidcTypeOK, ServiceStep
  PROVE  OidcTypeOK'
<1>1. ASSUME NEW r \in inFlight, Land(r) PROVE OidcTypeOK'
  <2>1. r \in Requests
    BY <1>1 DEF OidcTypeOK
  <2>2. ServicesType'
    BY <1>1, <2>1, RequestFields DEF Land, OidcTypeOK, ServicesType
  <2> QED
    BY <1>1, <2>2 DEF Land, request, OidcTypeOK, ServicesType
<1>2. ASSUME NEW what \in Losses, NEW a \in Apps, Lose(what, a) PROVE OidcTypeOK'
  <2>1. ServicesType' /\ losses' \in Nat
    BY <1>2, EmptyType DEF Lose, OidcTypeOK, ServicesType
  <2> QED
    BY <1>2, <2>1 DEF Lose, request, OidcTypeOK, ServicesType
<1> QED
  BY <1>1, <1>2 DEF ServiceStep

LEMMA NextType == OidcTypeOK /\ [OidcNext]_oidcVars => OidcTypeOK'
<1> SUFFICES ASSUME OidcTypeOK, [OidcNext]_oidcVars PROVE OidcTypeOK'
  OBVIOUS
<1>1. CASE UNCHANGED oidcVars
  BY <1>1 DEF OidcTypeOK, oidcVars, services, request
<1>2. ASSUME NEW a \in Apps, StartRegister(a) \/ StartDeregister(a)
      PROVE  OidcTypeOK'
  BY <1>2 DEF StartRegister, StartDeregister, Begin, OidcTypeOK, services, HttpCalls
<1>3. CASE Stop
  <2>1. RequestType' /\ faults' \in Nat
    BY <1>3, FinishType DEF Stop, Abandon, OidcTypeOK
  <2> QED
    BY <1>3, <2>1, TypeParts, SameServicesType DEF Stop, Abandon, OidcTypeOK
<1> QED
  BY <1>1, <1>2, <1>3, HttpType, ServiceType DEF OidcNext

LEMMA InitType == OidcInit => OidcTypeOK
  BY AnyAppType, EmptyType DEF OidcInit, OidcTypeOK

(* Every variable keeps its type, whatever the services answer.            *)
THEOREM OidcTypeCorrect == OidcSpec => []OidcTypeOK
  BY InitType, NextType, PTL DEF OidcSpec

-----------------------------------------------------------------------------
(* The inductive invariant. *)

(* A pair of numbers that have been issued. *)
Whole(cr) == cr.secret \in 1..issued /\ cr.cookie \in 1..cookies

(* OidcInv, part by part. *)
HeldIsIssued ==
  /\ found <= issued
  /\ call \in {"readVault", "writeVault"} => creds.secret \in 1..issued
  /\ call = "writeVault" => creds.cookie \in 1..cookies

StoredIsIssued ==
  /\ \A a \in Apps : clients[a] <= issued
  /\ \A a \in Apps : vault[a] # Empty => Whole(vault[a])
  /\ \A r \in inFlight : r.kind = "writeVault" => Whole(r.creds)

LEMMA InvParts ==
  /\ OidcInv <=> HeldIsIssued /\ StoredIsIssued
  /\ OidcInv' <=> HeldIsIssued' /\ StoredIsIssued'
  BY DEF OidcInv, NumbersAreIssued, CredentialsAreWhole, HeldIsIssued,
     StoredIsIssued, Whole

(* Issuing more numbers harms nothing that is stored. *)
LEMMA SameStoreIssued ==
  ASSUME OidcTypeOK, StoredIsIssued, UNCHANGED services,
         cookies' = cookies \/ cookies' = cookies + 1
  PROVE  StoredIsIssued'
  BY DEF OidcTypeOK, Credentials, StoredIsIssued, Whole, services

LEMMA IdleHoldsNothing ==
  ASSUME OidcTypeOK, call' \in {"idle", "token", "list", "create"}, found' = 0,
         issued' \in Nat
  PROVE  HeldIsIssued'
  BY DEF HeldIsIssued

LEMMA FinishInv ==
  ASSUME OidcTypeOK, issued' \in Nat, NEW r, Finish(r)
  PROVE  HeldIsIssued'
  BY IdleHoldsNothing DEF Finish

LEMMA FailureInv ==
  ASSUME OidcTypeOK, issued' \in Nat, Failure
  PROVE  HeldIsIssued'
  BY FinishInv DEF Failure

LEMMA HttpInv ==
  ASSUME OidcTypeOK, HeldIsIssued, StoredIsIssued, NEW out \in Outcomes, Http(out)
  PROVE  HeldIsIssued' /\ StoredIsIssued'
<1>1. /\ found \in Nat /\ app \in Apps /\ issued \in Nat /\ cookies \in Nat
      /\ creds \in Credentials /\ creds.secret \in Nat /\ creds.cookie \in Nat
      /\ clients \in [Apps -> Nat] /\ vault \in [Apps -> Credentials]
      /\ vault[app] \in Credentials /\ vault[app].cookie \in Nat
      /\ inFlight \subseteq Requests
  BY DEF OidcTypeOK, Credentials
<1>2. CASE GetToken(out)
  <2>1. StoredIsIssued' /\ issued' \in Nat
    BY <1>1, <1>2, SameStoreIssued DEF GetToken, services
  <2> QED
    BY <1>1, <1>2, <2>1, FailureInv DEF GetToken, Proceed, HeldIsIssued
<1>3. CASE ListClients(out)
  <2>1. StoredIsIssued' /\ issued' = issued
    BY <1>1, <1>3, SameStoreIssued DEF ListClients, services
  <2>2. clients[app] \in Nat /\ clients[app] <= issued
    BY <1>1 DEF StoredIsIssued
  <2>3. ASSUME NEW id \in Nat, id <= issued,
               Proceed(AfterList, id, Empty) \/ Proceed("create", id, Empty)
        PROVE  HeldIsIssued'
    BY <1>1, <2>1, <2>3 DEF Proceed, AfterList, HeldIsIssued
  <2> QED
    BY <1>1, <1>3, <2>1, <2>2, <2>3, FailureInv, FinishInv DEF ListClients
<1>4. CASE CreateClient(out)
  <2>1. issued' \in Nat /\ (issued' = issued \/ issued' = issued + 1)
        /\ UNCHANGED <<vault, cookies>>
    BY <1>1, <1>4 DEF CreateClient
  <2>2. HeldIsIssued'
    BY <1>1, <1>4, <2>1, FailureInv DEF CreateClient, Proceed, HeldIsIssued
  <2>3. \A a \in Apps : clients'[a] <= issued'
    BY <1>1, <1>4 DEF CreateClient, StoredIsIssued
  <2>4. \A cr \in Credentials : Whole(cr) => Whole(cr)'
    BY <1>1, <2>1 DEF Whole, Credentials
  <2>5. \A r \in inFlight' : r.kind = "writeVault" => r \in inFlight
    BY <1>4 DEF CreateClient
  <2>6. \A a \in Apps : vault'[a] # Empty => Whole(vault[a])'
    BY <1>1, <2>1, <2>4 DEF StoredIsIssued
  <2>7. \A r \in inFlight' : r.kind = "writeVault" => Whole(r.creds)'
    BY <1>1, <2>4, <2>5, RequestFields DEF StoredIsIssued
  <2> QED
    BY <2>2, <2>3, <2>6, <2>7 DEF StoredIsIssued, Whole
<1>5. CASE GetSecret(out)
  <2>1. StoredIsIssued' /\ issued' = issued
    BY <1>1, <1>5, SameStoreIssued DEF GetSecret, services
  <2>2. CASE Failure
    BY <1>1, <2>1, <2>2, FailureInv
  <2>3. CASE ~Failure
    <3>1. found # 0 /\ Proceed("readVault", found, [Empty EXCEPT !.secret = found])
      BY <1>5, <2>3 DEF GetSecret
    <3>2. [Empty EXCEPT !.secret = found].secret = found
      BY DEF Empty
    <3> QED
      BY <1>1, <2>1, <3>1, <3>2 DEF Proceed, HeldIsIssued
  <2> QED
    BY <2>1, <2>2, <2>3
<1>6. CASE ReadVault(out)
  <2> DEFINE kept == IF out = "ok" THEN vault[app].cookie ELSE 0
             next == IF kept = 0 THEN cookies + 1 ELSE kept
             new  == [creds EXCEPT !.cookie = next]
  <2>1. StoredIsIssued' /\ issued' = issued
    BY <1>1, <1>6, SameStoreIssued DEF ReadVault, services
  <2>2. /\ call = "readVault" /\ call' = "writeVault" /\ found' = found /\ creds' = new
        /\ cookies' = IF kept = 0 THEN cookies + 1 ELSE cookies
    BY <1>6 DEF ReadVault, Proceed
  <2>3. kept # 0 => kept \in 1..cookies
    BY <1>1, EmptyType DEF StoredIsIssued, Whole
  <2>4. next \in 1..cookies'
    BY <1>1, <2>2, <2>3
  <2>5. new.secret = creds.secret /\ new.cookie = next
    BY <1>1 DEF Credentials
  <2> HIDE DEF next, new
  <2> QED
    BY <1>1, <2>1, <2>2, <2>4, <2>5 DEF HeldIsIssued
<1>7. CASE WriteVault(out)
  <2>1. /\ UNCHANGED <<clients, issued, cookies>> /\ Whole(creds)
        /\ HeldIsIssued'
    BY <1>1, <1>7, FinishInv DEF WriteVault, HeldIsIssued, Whole
  <2>2. \A a \in Apps : vault'[a] = vault[a] \/ vault'[a] = creds
    BY <1>1, <1>7 DEF WriteVault
  <2>3. \A r \in inFlight' : r \in inFlight \/ r.creds = creds
    BY <1>7 DEF WriteVault
  <2> QED
    BY <2>1, <2>2, <2>3 DEF StoredIsIssued, Whole
<1>8. CASE DeleteClient(out)
  <2>1. UNCHANGED <<vault, issued, cookies>> /\ HeldIsIssued'
    BY <1>1, <1>8, FinishInv DEF DeleteClient
  <2>2. \A a \in Apps : clients'[a] <= issued
    BY <1>1, <1>8 DEF DeleteClient, StoredIsIssued
  <2>3. \A r \in inFlight' : r.kind = "writeVault" => r \in inFlight
    BY <1>8 DEF DeleteClient
  <2> QED
    BY <2>1, <2>2, <2>3 DEF StoredIsIssued, Whole
<1> QED
  BY <1>2, <1>3, <1>4, <1>5, <1>6, <1>7, <1>8 DEF Http

LEMMA ServiceInv ==
  ASSUME OidcTypeOK, HeldIsIssued, StoredIsIssued, ServiceStep
  PROVE  HeldIsIssued' /\ StoredIsIssued'
<1>1. /\ issued \in Nat /\ clients \in [Apps -> Nat]
      /\ vault \in [Apps -> Credentials] /\ inFlight \subseteq Requests
      /\ found \in Nat /\ creds.secret \in Nat /\ cookies \in Nat
  BY DEF OidcTypeOK, Credentials
<1>2. ASSUME NEW r \in inFlight, Land(r) PROVE HeldIsIssued' /\ StoredIsIssued'
  <2>1. /\ cookies' = cookies /\ (issued' = issued \/ issued' = issued + 1)
        /\ inFlight' \subseteq inFlight
        /\ UNCHANGED <<call, found, creds>>
    BY <1>2 DEF Land, request
  <2>2. HeldIsIssued'
    BY <1>1, <2>1 DEF HeldIsIssued
  <2>3. \A a \in Apps : clients'[a] <= issued'
    BY <1>1, <1>2 DEF Land, StoredIsIssued
  <2>4. \A cr \in Credentials : Whole(cr) => Whole(cr)'
    BY <1>1, <2>1 DEF Whole, Credentials
  <2>5. /\ r \in Requests
        /\ r.kind = "writeVault" => r.creds \in Credentials /\ Whole(r.creds)
    BY <1>1, RequestFields DEF StoredIsIssued
  <2>6. \A a \in Apps : \/ vault'[a] = vault[a]
                        \/ r.kind = "writeVault" /\ vault'[a] = r.creds
    BY <1>1, <1>2 DEF Land
  <2>7. \A a \in Apps : vault'[a] # Empty => Whole(vault[a])'
    <3> SUFFICES ASSUME NEW a \in Apps, vault'[a] # Empty PROVE Whole(vault[a])'
      OBVIOUS
    <3>1. PICK cr \in Credentials : cr = vault'[a] /\ Whole(cr)
      BY <1>1, <2>5, <2>6 DEF StoredIsIssued
    <3>2. Whole(cr)'
      BY <2>4, <3>1
    <3> QED
      BY <3>1, <3>2 DEF Whole
  <2>8. \A q \in inFlight' : q.kind = "writeVault" => Whole(q.creds)'
    BY <1>1, <2>1, <2>4, RequestFields DEF StoredIsIssued
  <2> QED
    BY <2>2, <2>3, <2>7, <2>8 DEF StoredIsIssued, Whole
<1>3. ASSUME NEW what \in Losses, NEW a \in Apps, Lose(what, a)
      PROVE  HeldIsIssued' /\ StoredIsIssued'
  <2>1. UNCHANGED <<issued, cookies, inFlight, call, found, creds>>
    BY <1>3 DEF Lose, request
  <2>2. \A b \in Apps : /\ clients'[b] = clients[b] \/ clients'[b] = 0
                        /\ vault'[b] = vault[b] \/ vault'[b] = Empty
    BY <1>1, <1>3 DEF Lose
  <2> QED
    BY <1>1, <2>1, <2>2 DEF HeldIsIssued, StoredIsIssued, Whole
<1> QED
  BY <1>2, <1>3 DEF ServiceStep

LEMMA NextInv == OidcTypeOK /\ OidcInv /\ [OidcNext]_oidcVars => OidcInv'
<1> SUFFICES ASSUME OidcTypeOK, HeldIsIssued, StoredIsIssued, [OidcNext]_oidcVars
             PROVE  HeldIsIssued' /\ StoredIsIssued'
  BY InvParts
<1>1. CASE UNCHANGED oidcVars
  BY <1>1 DEF oidcVars, services, request, HeldIsIssued, StoredIsIssued, Whole
<1>2. ASSUME NEW a \in Apps, StartRegister(a) \/ StartDeregister(a)
      PROVE  HeldIsIssued' /\ StoredIsIssued'
  <2>1. /\ call' = "token" /\ UNCHANGED <<found, creds, cookies, services>>
    BY <1>2 DEF StartRegister, StartDeregister, Begin
  <2> QED
    BY <2>1, SameStoreIssued DEF HeldIsIssued, services
<1>3. CASE Stop
  BY <1>3, SameStoreIssued, FinishInv DEF Stop, Abandon, services, OidcTypeOK
<1> QED
  BY <1>1, <1>2, <1>3, HttpInv, ServiceInv DEF OidcNext

(* Credentials are written whole or not at all, and every number in them   *)
(* was issued: whatever fails, arrives late or gets lost.                  *)
THEOREM OidcInvariantHolds == OidcSpec => []OidcInv
<1>1. OidcInit => OidcInv
  BY DEF OidcInit, OidcInv, NumbersAreIssued, CredentialsAreWhole, Empty
<1>2. OidcTypeOK /\ OidcInv /\ [OidcNext]_oidcVars => (OidcTypeOK /\ OidcInv)'
  BY NextType, NextInv
<1> QED
  BY <1>1, <1>2, InitType, PTL DEF OidcSpec

(* The client says "Deleted" only after a step that leaves no client.      *)
LEMMA HttpDeletes ==
  ASSUME OidcTypeOK, NEW out, Http(out), NEW a, a = app,
         result # "Deleted", result' = "Deleted"
  PROVE  clients'[a] = 0
<1>1. clients \in [Apps -> Nat] /\ app \in Apps
  BY DEF OidcTypeOK
<1>2. ~Failure /\ \A c, id, cr : ~Proceed(c, id, cr)
  BY DEF Failure, Finish, Proceed
<1>3. CASE ListClients(out)
  BY <1>1, <1>2, <1>3 DEF ListClients, services
<1>4. CASE DeleteClient(out)
  BY <1>1, <1>4 DEF DeleteClient, Finish, Takes
<1>5. CASE WriteVault(out)
  BY <1>5 DEF WriteVault, Finish
<1>6. CASE GetToken(out) \/ CreateClient(out) \/ GetSecret(out) \/ ReadVault(out)
  BY <1>2, <1>6 DEF GetToken, CreateClient, GetSecret, ReadVault
<1> QED
  BY <1>3, <1>4, <1>5, <1>6 DEF Http

(* The caller is told "Deleted" only in a step after which Keycloak has no *)
(* client of that application.                                             *)
THEOREM DeletedIsGone == OidcSpec => DeletedMeansGone
<1>1. ASSUME OidcTypeOK, [OidcNext]_oidcVars, NEW a, a = app,
             result # "Deleted", result' = "Deleted"
      PROVE  clients'[a] = 0
  <2>1. PICK out \in Outcomes : Http(out)
    BY <1>1 DEF OidcNext, StartRegister, StartDeregister, Begin, Stop, Abandon,
       Finish, ServiceStep, Land, Lose, request, oidcVars
  <2> QED
    BY <1>1, <2>1, HttpDeletes
<1>2. OidcTypeOK /\ [OidcNext]_oidcVars =>
        [result # "Deleted" /\ result' = "Deleted" => clients'[app] = 0]_oidcVars
  BY <1>1
<1> QED
  BY <1>2, OidcTypeCorrect, PTL DEF OidcSpec, DeletedMeansGone

-----------------------------------------------------------------------------
(* The client a registration works on stays while it works. *)

(* What is still in flight has timed out. *)
InFlightIsLate == \A r \in inFlight : r.kind \in LateCalls

LEMMA InitLate == OidcInit => InFlightIsLate
  BY DEF OidcInit, InFlightIsLate

LEMMA HttpLate ==
  ASSUME InFlightIsLate, NEW out, Http(out)
  PROVE  InFlightIsLate'
  BY DEF Http, GetToken, ListClients, CreateClient, GetSecret, ReadVault, WriteVault,
     DeleteClient, Ends, services, InFlightIsLate

LEMMA ServiceLate ==
  ASSUME InFlightIsLate, ServiceStep
  PROVE  InFlightIsLate'
  BY DEF ServiceStep, Land, Lose, InFlightIsLate

(* The secret in hand is that of the client Keycloak has. *)
ClientIsHeld ==
  call \in {"readVault", "writeVault"} =>
    found # 0 /\ clients[app] = found /\ creds.secret = found

LEMMA InitHeld == OidcInit => ClientIsHeld
  BY DEF OidcInit, ClientIsHeld

LEMMA HttpHeld ==
  ASSUME OidcTypeOK, ClientIsHeld, NEW out, Http(out)
  PROVE  ClientIsHeld'
<1>1. ASSUME NEW r, Finish(r) PROVE ClientIsHeld'
  BY <1>1 DEF Finish, ClientIsHeld
<1>2. Failure => ClientIsHeld'
  BY <1>1 DEF Failure
<1>3. ASSUME NEW c \in {"list", "create", "secret", "delete"}, NEW id, NEW cr, Proceed(c, id, cr)
      PROVE  ClientIsHeld'
  BY <1>3 DEF Proceed, ClientIsHeld
<1>4. AfterList \in {"list", "create", "secret", "delete"}
  BY DEF AfterList
<1>5. CASE GetToken(out) \/ ListClients(out) \/ CreateClient(out)
  BY <1>1, <1>2, <1>3, <1>4, <1>5 DEF GetToken, ListClients, CreateClient
<1>6. CASE GetSecret(out)
  <2>1. [Empty EXCEPT !.secret = found].secret = found
    BY DEF Empty
  <2> QED
    BY <1>2, <1>6, <2>1 DEF GetSecret, Proceed, services, ClientIsHeld
<1>7. CASE ReadVault(out)
  <2>1. \A n : [creds EXCEPT !.cookie = n].secret = creds.secret
    BY DEF OidcTypeOK, Credentials
  <2> QED
    BY <1>7, <2>1 DEF ReadVault, Proceed, services, ClientIsHeld
<1>8. CASE WriteVault(out) \/ DeleteClient(out)
  BY <1>1, <1>8 DEF WriteVault, DeleteClient
<1> QED
  BY <1>5, <1>6, <1>7, <1>8 DEF Http

LEMMA ServiceHeld ==
  ASSUME "delete" \notin LateCalls, "client" \notin Losses,
         OidcTypeOK, InFlightIsLate, ClientIsHeld, ServiceStep
  PROVE  ClientIsHeld'
<1>1. UNCHANGED <<call, app, found, creds>>
  BY DEF ServiceStep, Land, Lose, request
<1>2. clients[app] # 0 => clients'[app] = clients[app]
  <2>1. app \in Apps /\ clients \in [Apps -> Nat]
    BY DEF OidcTypeOK
  <2>2. ASSUME NEW r \in inFlight, Land(r), clients[app] # 0 PROVE clients'[app] = clients[app]
    BY <2>1, <2>2 DEF Land, InFlightIsLate
  <2>3. ASSUME NEW what \in Losses, NEW a \in Apps, Lose(what, a)
        PROVE  clients'[app] = clients[app]
    BY <2>3 DEF Lose
  <2> QED
    BY <2>2, <2>3 DEF ServiceStep
<1> QED
  BY <1>1, <1>2 DEF ClientIsHeld

(* Vault holds the secret of the client Keycloak has for a. *)
Usable(a) == clients[a] # 0 /\ vault[a].secret = clients[a]

LEMMA HttpRegisters ==
  ASSUME OidcTypeOK, ClientIsHeld, NEW out, Http(out), NEW a, a = app,
         result # "Registered" \/ call' = "idle", result' = "Registered"
  PROVE  Usable(a)'
<1>1. ~Failure /\ \A c, id, cr : Proceed(c, id, cr) => c = "idle"
  BY DEF Failure, Finish, Proceed
<1>2. AfterList # "idle"
  BY DEF AfterList
<1>3. CASE WriteVault(out)
  <2>1. out = "ok" /\ vault' = [vault EXCEPT ![app] = creds] /\ clients' = clients
        /\ call = "writeVault"
    BY <1>3 DEF WriteVault, Finish, Takes
  <2> QED
    BY <2>1 DEF OidcTypeOK, ClientIsHeld, Usable
<1>4. CASE DeleteClient(out)
  BY <1>4 DEF DeleteClient, Finish
<1>5. CASE ListClients(out)
  BY <1>1, <1>2, <1>5 DEF ListClients, Finish
<1>6. CASE GetToken(out) \/ CreateClient(out) \/ GetSecret(out) \/ ReadVault(out)
  BY <1>1, <1>6 DEF GetToken, CreateClient, GetSecret, ReadVault
<1> QED
  BY <1>3, <1>4, <1>5, <1>6 DEF Http

(* "Registered" is the truth at the moment it is said, where Keycloak loses*)
(* no client and carries out no deletion it has been given up on: failed,  *)
(* lost and repeated calls, late creations and late writes do no harm.     *)
THEOREM RegisteredIsUsable ==
  ASSUME "delete" \notin LateCalls, "client" \notin Losses
  PROVE  OidcSpec => RegisteredMeansUsable
<1>1. OidcTypeOK /\ InFlightIsLate /\ ClientIsHeld /\ [OidcNext]_oidcVars
        => InFlightIsLate' /\ ClientIsHeld'
  <2> SUFFICES ASSUME OidcTypeOK, InFlightIsLate, ClientIsHeld, [OidcNext]_oidcVars
               PROVE  InFlightIsLate' /\ ClientIsHeld'
    OBVIOUS
  <2>1. CASE UNCHANGED oidcVars
    BY <2>1 DEF oidcVars, services, request, InFlightIsLate, ClientIsHeld
  <2>2. ASSUME NEW a, StartRegister(a) \/ StartDeregister(a)
        PROVE  InFlightIsLate' /\ ClientIsHeld'
    BY <2>2 DEF StartRegister, StartDeregister, Begin, services, InFlightIsLate, ClientIsHeld
  <2>3. CASE Stop
    BY <2>3 DEF Stop, Abandon, Finish, services, InFlightIsLate, ClientIsHeld
  <2> QED
    BY <2>1, <2>2, <2>3, HttpLate, HttpHeld, ServiceLate, ServiceHeld DEF OidcNext
<1>2. OidcTypeOK /\ ClientIsHeld /\ [OidcNext]_oidcVars =>
        [result # "Registered" /\ result' = "Registered" =>
           clients'[app] # 0 /\ vault'[app].secret = clients'[app]]_oidcVars
  <2> SUFFICES ASSUME OidcTypeOK, ClientIsHeld, [OidcNext]_oidcVars,
                      result # "Registered", result' = "Registered", NEW a, a = app
               PROVE  clients'[a] # 0 /\ vault'[a].secret = clients'[a]
    OBVIOUS
  <2>1. PICK out \in Outcomes : Http(out)
    BY DEF OidcNext, StartRegister, StartDeregister, Begin, Stop, Abandon, Finish,
       ServiceStep, Land, Lose, request, oidcVars
  <2> QED
    BY <2>1, HttpRegisters DEF Usable
<1> QED
  BY <1>1, <1>2, InitLate, InitHeld, OidcTypeCorrect, PTL DEF OidcSpec, RegisteredMeansUsable

-----------------------------------------------------------------------------
(* Cookie secrets survive. *)

(* The cookie secret about to be written is the one that is there.         *)
CookieIsHeld == call = "writeVault" => vault[app].cookie \in {0, creds.cookie}

SameCookies ==
  \A a \in Apps : vault[a].cookie # 0 /\ vault'[a].cookie # 0
    => vault'[a].cookie = vault[a].cookie

LEMMA InitCookie == OidcInit => CookieIsHeld
  BY DEF OidcInit, CookieIsHeld

LEMMA HttpCookie ==
  ASSUME "readVault" \notin FaultyCalls, OidcTypeOK, CookieIsHeld, NEW out, Http(out)
  PROVE  CookieIsHeld' /\ SameCookies
<1>1. /\ vault \in [Apps -> Credentials] /\ app \in Apps /\ creds \in Credentials
      /\ vault[app].cookie \in Nat /\ cookies \in Nat
  BY DEF OidcTypeOK, Credentials
<1>2. ASSUME NEW r, Finish(r) PROVE CookieIsHeld'
  BY <1>2 DEF Finish, CookieIsHeld
<1>3. Failure => CookieIsHeld'
  BY <1>2 DEF Failure
<1>4. ASSUME NEW c, c # "writeVault", NEW id, NEW cr, Proceed(c, id, cr)
      PROVE  CookieIsHeld'
  BY <1>4 DEF Proceed, CookieIsHeld
<1>5. AfterList # "writeVault"
  BY DEF AfterList
<1>6. UNCHANGED vault => SameCookies
  BY DEF SameCookies
<1>7. CASE GetToken(out) \/ ListClients(out) \/ CreateClient(out) \/ GetSecret(out)
  BY <1>2, <1>3, <1>4, <1>5, <1>6, <1>7
     DEF GetToken, ListClients, CreateClient, GetSecret, services
<1>8. CASE ReadVault(out)
  <2> DEFINE kept == vault[app].cookie
             next == IF kept = 0 THEN cookies + 1 ELSE kept
  <2>1. /\ out = "ok" /\ UNCHANGED vault
        /\ Proceed("writeVault", found, [creds EXCEPT !.cookie = next])
    BY <1>8 DEF ReadVault, Ends, services
  <2>2. [creds EXCEPT !.cookie = next].cookie = next
    BY <1>1 DEF Credentials
  <2>3. app' = app /\ creds'.cookie = next /\ vault' = vault
    BY <2>1, <2>2 DEF Proceed
  <2>4. vault'[app'].cookie \in {0, creds'.cookie}
    BY <2>3
  <2> QED
    BY <1>6, <2>1, <2>4 DEF CookieIsHeld
<1>9. CASE WriteVault(out)
  <2>1. call = "writeVault" /\ \A a \in Apps : vault'[a] = vault[a] \/ (a = app /\ vault'[a] = creds)
    BY <1>1, <1>9 DEF WriteVault
  <2> QED
    BY <1>2, <1>9, <2>1 DEF WriteVault, CookieIsHeld, SameCookies
<1>10. CASE DeleteClient(out)
  BY <1>2, <1>6, <1>10 DEF DeleteClient
<1> QED
  BY <1>7, <1>8, <1>9, <1>10 DEF Http

LEMMA ServiceCookie ==
  ASSUME "writeVault" \notin LateCalls, OidcTypeOK, InFlightIsLate, CookieIsHeld, ServiceStep
  PROVE  CookieIsHeld' /\ SameCookies
<1>1. UNCHANGED <<call, app, creds>>
  BY DEF ServiceStep, Land, Lose, request
<1>2. vault \in [Apps -> Credentials] /\ app \in Apps
  BY DEF OidcTypeOK
<1>3. \A a \in Apps : vault'[a] \in {vault[a], Empty}
  <2>1. ASSUME NEW r \in inFlight, Land(r) PROVE UNCHANGED vault
    BY <2>1 DEF Land, InFlightIsLate
  <2>2. ASSUME NEW what \in Losses, NEW a \in Apps, Lose(what, a)
        PROVE  \A b \in Apps : vault'[b] \in {vault[b], Empty}
    BY <1>2, <2>2 DEF Lose
  <2> QED
    BY <2>1, <2>2 DEF ServiceStep
<1> QED
  BY <1>1, <1>2, <1>3, EmptyType DEF CookieIsHeld, SameCookies

(* A registration never replaces a cookie secret, so the sessions of the   *)
(* users go on, unless a read of Vault fails or a write is carried out     *)
(* after it has been given up on.                                          *)
THEOREM CookiesSurvive ==
  ASSUME "readVault" \notin FaultyCalls, "writeVault" \notin LateCalls
  PROVE  OidcSpec => CookiePreserved
<1>1. OidcTypeOK /\ InFlightIsLate /\ CookieIsHeld /\ [OidcNext]_oidcVars
        => InFlightIsLate' /\ CookieIsHeld' /\ SameCookies
  <2> SUFFICES ASSUME OidcTypeOK, InFlightIsLate, CookieIsHeld, [OidcNext]_oidcVars
               PROVE  InFlightIsLate' /\ CookieIsHeld' /\ SameCookies
    OBVIOUS
  <2>1. UNCHANGED vault => SameCookies
    BY DEF SameCookies
  <2>2. CASE UNCHANGED oidcVars
    BY <2>1, <2>2 DEF oidcVars, services, request, InFlightIsLate, CookieIsHeld
  <2>3. ASSUME NEW a, StartRegister(a) \/ StartDeregister(a)
        PROVE  InFlightIsLate' /\ CookieIsHeld' /\ SameCookies
    BY <2>1, <2>3 DEF StartRegister, StartDeregister, Begin, services, InFlightIsLate,
       CookieIsHeld
  <2>4. CASE Stop
    BY <2>1, <2>4 DEF Stop, Abandon, Finish, services, InFlightIsLate, CookieIsHeld
  <2> QED
    BY <2>2, <2>3, <2>4, HttpLate, HttpCookie, ServiceLate, ServiceCookie DEF OidcNext
<1>2. SameCookies => [\A a \in Apps : vault[a].cookie # 0 /\ vault'[a].cookie # 0
                        => vault'[a].cookie = vault[a].cookie]_oidcVars
  BY DEF SameCookies
<1> QED
  BY <1>1, <1>2, InitLate, InitCookie, OidcTypeCorrect, PTL DEF OidcSpec, CookiePreserved

=============================================================================
