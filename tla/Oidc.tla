-------------------------------- MODULE Oidc --------------------------------
(***************************************************************************)
(* The Keycloak and Vault client (internal/controller/keycloak.go) and the *)
(* two services it talks to.                                               *)
(*                                                                         *)
(* Registering an application lists its Keycloak client, creates it when   *)
(* there is none, fetches its secret and writes the secret to Vault next   *)
(* to a cookie secret that is kept from one registration to the next.      *)
(* Deregistering lists the client and deletes it.  Each HTTP request is an *)
(* action of its own: it may fail, its answer may get lost, or the client  *)
(* may give up after 15 seconds on a request the service carries out late. *)
(* There is no transaction over the two services.                          *)
(*                                                                         *)
(* One caller uses the client at a time; AppDeployment is that caller and  *)
(* extends this module.  OidcSpec is the client under an arbitrary caller. *)
(***************************************************************************)
EXTENDS Naturals

CONSTANTS
  Apps,         \* application names: client ids and Vault paths
  FaultyCalls,  \* the calls that may fail in this model
  LateCalls,    \* the requests that may be carried out after the timeout
  Losses,       \* what the services may lose: "client", "credentials"
  MaxFaults,    \* bound: failed, lost or late calls
  MaxLosses,    \* bound: losses
  MaxIssued     \* bound: clients ever created, under the arbitrary caller

ASSUME AppsAssumption == Apps # {}
ASSUME OidcBoundsAssumption ==
  /\ LateCalls \subseteq {"create", "delete", "writeVault"}
  /\ Losses \subseteq {"client", "credentials"}
  /\ MaxFaults \in Nat /\ MaxLosses \in Nat /\ MaxIssued \in Nat

VARIABLES
  clients,   \* Keycloak: the client of each application, 0 when none
  vault,     \* Vault: what is stored under apps/<app>/oidc
  inFlight,  \* requests the client has given up on, still to be carried out
  issued,    \* number of clients Keycloak has created; names the newest one
  cookies,   \* number of cookie secrets generated; names the newest one
  call,      \* the request about to be made
  op,        \* what the caller asked for
  app,       \* the application it asked it for
  found,     \* internalID, 0 when it is the empty string
  creds,     \* OIDCCredentials
  result,    \* what the caller is told
  faults, losses   \* counters of the bounded disturbances

services == <<clients, vault, inFlight, issued>>
request  == <<call, op, app, found, creds, result, cookies>>
oidcVars == <<services, request, faults, losses>>

(* A client is named by a number that is both its internal id and, for     *)
(* Keycloak never changes it here, its secret.  0 is the empty string.     *)
Credentials == [secret : Nat, cookie : Nat]

Empty == [secret |-> 0, cookie |-> 0]

Requests == [kind : {"create"}, app : Apps]
              \cup [kind : {"delete"}, app : Apps, id : Nat]
              \cup [kind : {"writeVault"}, app : Apps, creds : Credentials]

HttpCalls == {"token", "list", "create", "secret", "readVault", "writeVault",
              "delete"}

AnyApp == CHOOSE a \in Apps : TRUE

OidcTypeOK ==
  /\ clients \in [Apps -> Nat]
  /\ vault \in [Apps -> Credentials]
  /\ inFlight \subseteq Requests
  /\ issued \in Nat /\ cookies \in Nat
  /\ call \in HttpCalls \cup {"idle"}
  /\ op \in {"none", "register", "deregister"}
  /\ app \in Apps
  /\ found \in Nat
  /\ creds \in Credentials
  /\ result \in {"none", "Registered", "RegistrationFailed",
                 "VaultWriteFailed", "Deleted", "DeleteFailed"}
  /\ faults \in Nat /\ losses \in Nat

OidcInit ==
  /\ clients = [a \in Apps |-> 0]
  /\ vault = [a \in Apps |-> Empty]
  /\ inFlight = {}
  /\ issued = 0 /\ cookies = 0
  /\ call = "idle" /\ op = "none" /\ app = AnyApp
  /\ found = 0 /\ creds = Empty /\ result = "none"
  /\ faults = 0 /\ losses = 0

-----------------------------------------------------------------------------
(* How a request ends: "ok"; "failed" without effect; "lost": carried out, *)
(* but no answer; "late": no answer, carried out later if at all.          *)
Outcomes == {"ok", "failed", "lost", "late"}

Ends(c, out) ==
  /\ out # "ok" => c \in FaultyCalls /\ faults < MaxFaults
  /\ out = "late" => c \in LateCalls
  /\ faults' = IF out = "ok" THEN faults ELSE faults + 1

Takes(out) == out \in {"ok", "lost"}

(* The client returns r to the caller. *)
Finish(r) ==
  /\ call' = "idle" /\ op' = "none" /\ app' = AnyApp
  /\ found' = 0 /\ creds' = Empty /\ result' = r

(* Variant: a result the caller does not know. *)
FailureAsError == Finish("Error")

Failure == Finish(IF op = "register" THEN "RegistrationFailed"
                                     ELSE "DeleteFailed")

(* The client makes its next request. *)
Proceed(c, id, cr) ==
  /\ call' = c /\ found' = id /\ creds' = cr
  /\ UNCHANGED <<op, app, result>>

(* registerKeycloakClient and writeOIDCCredsToVault; deleteKeycloakClient. *)
Begin(o, a) ==
  /\ call = "idle"
  /\ call' = "token" /\ op' = o /\ app' = a /\ result' = "none"
  /\ UNCHANGED <<found, creds, cookies, services, faults, losses>>

StartRegister(a)   == Begin("register", a)
StartDeregister(a) == Begin("deregister", a)

(* getKeycloakAdminToken. *)
GetToken(out) ==
  /\ call = "token" /\ out \in {"ok", "failed"}
  /\ Ends("token", out)
  /\ IF out = "ok" THEN Proceed("list", 0, Empty) ELSE Failure
  /\ UNCHANGED <<services, cookies, losses>>

(* The request that follows the list when it names a client. *)
AfterList == IF op = "register" THEN "secret" ELSE "delete"

(* Variant: the answer is not looked at. *)
ListClientIgnored(out) ==
  /\ call = "list" /\ out \in {"ok", "failed"}
  /\ Ends("list", out)
  /\ IF out = "failed" THEN Failure
     ELSE IF op = "register" THEN Proceed("create", 0, Empty)
     ELSE IF clients[app] # 0 THEN Proceed("delete", clients[app], Empty)
     ELSE Finish("Deleted")
  /\ UNCHANGED <<services, cookies, losses>>

(* The status of the list is not checked: an answer that is no JSON is an  *)
(* error, but an error object decodes into one client with an empty id.    *)
ListClients(out) ==
  /\ call = "list" /\ out \in {"ok", "failed"}
  /\ Ends("list", out)
  /\ IF out = "failed" THEN Failure \/ Proceed(AfterList, 0, Empty)
     ELSE IF clients[app] # 0 THEN Proceed(AfterList, clients[app], Empty)
     ELSE IF op = "register" THEN Proceed("create", 0, Empty)
     ELSE Finish("Deleted")
  /\ UNCHANGED <<services, cookies, losses>>

(* Keycloak refuses a second client with the same clientId. *)
CreateClient(out) ==
  LET takes == Takes(out) /\ clients[app] = 0 IN
  /\ call = "create"
  /\ Ends("create", out)
  /\ clients' = IF takes THEN [clients EXCEPT ![app] = issued + 1] ELSE clients
  /\ issued'  = IF takes THEN issued + 1 ELSE issued
  /\ inFlight' = IF out = "late"
                 THEN inFlight \cup {[kind |-> "create", app |-> app]}
                 ELSE inFlight
  /\ IF takes /\ out = "ok" THEN Proceed("secret", issued + 1, Empty) ELSE Failure
  /\ UNCHANGED <<vault, cookies, losses>>

(* Variant: the status of the answer is not checked. *)
GetSecretUnchecked(out) ==
  /\ call = "secret" /\ out \in {"ok", "failed"}
  /\ Ends("secret", out)
  /\ IF out = "ok"
     THEN Proceed("readVault", found,
                  [Empty EXCEPT !.secret = IF clients[app] = found THEN found ELSE 0])
     ELSE Failure
  /\ UNCHANGED <<services, cookies, losses>>

(* The empty id names no client. *)
GetSecret(out) ==
  /\ call = "secret" /\ out \in {"ok", "failed"}
  /\ Ends("secret", out)
  /\ IF out = "ok" /\ found # 0 /\ clients[app] = found
     THEN Proceed("readVault", found, [Empty EXCEPT !.secret = found])
     ELSE Failure
  /\ UNCHANGED <<services, cookies, losses>>

(* Any failure to read the credentials counts as "there is no cookie       *)
(* secret yet", and a new one is generated.                                *)
ReadVault(out) ==
  LET kept == IF out = "ok" THEN vault[app].cookie ELSE 0 IN
  /\ call = "readVault" /\ out \in {"ok", "failed"}
  /\ Ends("readVault", out)
  /\ cookies' = IF kept = 0 THEN cookies + 1 ELSE cookies
  /\ Proceed("writeVault", found,
             [creds EXCEPT !.cookie = IF kept = 0 THEN cookies + 1 ELSE kept])
  /\ UNCHANGED <<services, losses>>

(* Variant: credentials that are already there are left alone. *)
WriteVaultOnce(out) ==
  /\ call = "writeVault" /\ out \in {"ok", "failed"}
  /\ Ends("writeVault", out)
  /\ vault' = IF out = "ok" /\ vault[app] = Empty
              THEN [vault EXCEPT ![app] = creds] ELSE vault
  /\ Finish(IF out = "ok" THEN "Registered" ELSE "VaultWriteFailed")
  /\ UNCHANGED <<clients, inFlight, issued, cookies, losses>>

WriteVault(out) ==
  /\ call = "writeVault"
  /\ Ends("writeVault", out)
  /\ vault' = IF Takes(out) THEN [vault EXCEPT ![app] = creds] ELSE vault
  /\ inFlight' = IF out = "late"
                 THEN inFlight \cup
                        {[kind |-> "writeVault", app |-> app, creds |-> creds]}
                 ELSE inFlight
  /\ Finish(IF out = "ok" THEN "Registered" ELSE "VaultWriteFailed")
  /\ UNCHANGED <<clients, issued, cookies, losses>>

(* Variant: the status of the answer is not checked. *)
DeleteClientUnchecked(out) ==
  /\ call = "delete" /\ out \in {"ok", "failed"}
  /\ Ends("delete", out)
  /\ clients' = IF out = "ok" /\ clients[app] = found
                THEN [clients EXCEPT ![app] = 0] ELSE clients
  /\ Finish("Deleted")
  /\ UNCHANGED <<vault, inFlight, issued, cookies, losses>>

DeleteClient(out) ==
  LET takes == Takes(out) /\ found # 0 /\ clients[app] = found IN
  /\ call = "delete"
  /\ Ends("delete", out)
  /\ clients' = IF takes THEN [clients EXCEPT ![app] = 0] ELSE clients
  /\ inFlight' = IF out = "late"
                 THEN inFlight \cup {[kind |-> "delete", app |-> app, id |-> found]}
                 ELSE inFlight
  /\ Finish(IF takes /\ out = "ok" THEN "Deleted" ELSE "DeleteFailed")
  /\ UNCHANGED <<vault, issued, cookies, losses>>

Http(out) ==
  \/ GetToken(out) \/ ListClients(out) \/ CreateClient(out) \/ GetSecret(out)
  \/ ReadVault(out) \/ WriteVault(out) \/ DeleteClient(out)

-----------------------------------------------------------------------------
(* The services: a request is carried out late; a client or an entry gets  *)
(* lost, for Keycloak and Vault run without persistent storage and clients *)
(* are cleaned up by hand.                                                 *)

Land(r) ==
  /\ r \in inFlight
  /\ inFlight' = inFlight \ {r}
  /\ \/ /\ r.kind = "create"
        /\ clients' = IF clients[r.app] = 0
                      THEN [clients EXCEPT ![r.app] = issued + 1] ELSE clients
        /\ issued' = IF clients[r.app] = 0 THEN issued + 1 ELSE issued
        /\ UNCHANGED vault
     \/ /\ r.kind = "delete"
        /\ clients' = IF clients[r.app] = r.id
                      THEN [clients EXCEPT ![r.app] = 0] ELSE clients
        /\ UNCHANGED <<vault, issued>>
     \/ /\ r.kind = "writeVault"
        /\ vault' = [vault EXCEPT ![r.app] = r.creds]
        /\ UNCHANGED <<clients, issued>>
  /\ UNCHANGED <<request, faults, losses>>

Lose(what, a) ==
  /\ what \in Losses /\ losses < MaxLosses
  /\ losses' = losses + 1
  /\ \/ /\ what = "client" /\ clients[a] # 0
        /\ clients' = [clients EXCEPT ![a] = 0] /\ UNCHANGED vault
     \/ /\ what = "credentials" /\ vault[a] # Empty
        /\ vault' = [vault EXCEPT ![a] = Empty] /\ UNCHANGED clients
  /\ UNCHANGED <<inFlight, issued, request, faults>>

ServiceStep ==
  \/ \E r \in inFlight : Land(r)
  \/ \E what \in Losses, a \in Apps : Lose(what, a)

(* The caller's process stops. *)
Abandon ==
  /\ Finish("none")
  /\ UNCHANGED <<services, cookies>>

(* A process that stops counts as a fault here. *)
Stop ==
  /\ call # "idle" /\ faults < MaxFaults
  /\ faults' = faults + 1
  /\ Abandon
  /\ UNCHANGED losses

OidcNext ==
  \/ \E a \in Apps : \/ issued < MaxIssued /\ StartRegister(a)
                     \/ StartDeregister(a)
  \/ \E out \in Outcomes : Http(out)
  \/ ServiceStep
  \/ Stop

OidcSpec == OidcInit /\ [][OidcNext]_oidcVars

-----------------------------------------------------------------------------
(* What the worker holds was true when it read it, and numbers are issued  *)
(* before they are used: the inductive invariant of the module.            *)
NumbersAreIssued ==
  /\ \A a \in Apps : clients[a] <= issued
  /\ found <= issued
  /\ call \in {"readVault", "writeVault"} => creds.secret \in 1..issued
  /\ call = "writeVault" => creds.cookie \in 1..cookies
  /\ \A r \in inFlight :
       r.kind = "writeVault" => r.creds.secret \in 1..issued
                                /\ r.creds.cookie \in 1..cookies

(* Vault never holds half an entry: whatever fails, whatever arrives late, *)
(* credentials found there have a secret Keycloak issued and a cookie      *)
(* secret.  oauth2-proxy does not start with an empty one.                 *)
CredentialsAreWhole ==
  \A a \in Apps :
    vault[a] # Empty => /\ vault[a].secret \in 1..issued
                        /\ vault[a].cookie \in 1..cookies

OidcInv == NumbersAreIssued /\ CredentialsAreWhole

(* "Deleted" is the truth: no client of that name is left at that moment,  *)
(* neither an older nor a newer one than the one that was listed.          *)
DeletedMeansGone ==
  [][result # "Deleted" /\ result' = "Deleted" => clients'[app] = 0]_oidcVars

(* "Keycloak client registered and credentials written to Vault": at that  *)
(* moment Vault holds the secret of the client Keycloak has.               *)
RegisteredMeansUsable ==
  [][result # "Registered" /\ result' = "Registered" =>
       clients'[app] # 0 /\ vault'[app].secret = clients'[app]]_oidcVars

(* "Preserves any existing cookie-secret to avoid invalidating active      *)
(* sessions": a registration never replaces a cookie secret.               *)
CookiePreserved ==
  [][\A a \in Apps : vault[a].cookie # 0 /\ vault'[a].cookie # 0
       => vault'[a].cookie = vault[a].cookie]_oidcVars

=============================================================================
