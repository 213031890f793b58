-------------------------- MODULE MCPlatformSecrets --------------------------
(* Constants of PlatformSecrets for TLC: the path of the client and cookie *)
(* secrets, and one whose credential the platform cannot make up.          *)
EXTENDS PlatformSecrets

TwoPaths  == <<"auth", "llm">>
JustAuth  == {"auth"}

AllKeys     == {"client", "cookie", "api"}
KeysOfPaths == [auth |-> {"client", "cookie"}, llm |-> {"api"}]

Anything == AllDisturbances
OnlyCrash == {"crash"}
Writes    == {"write", "drift"}

AnyCall == {"get", "put", "keycloak"}
TheGet  == {"get"}
NoFaults == {}
=============================================================================
