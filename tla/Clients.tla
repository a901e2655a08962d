------------------------------ MODULE Clients ------------------------------
(***************************************************************************)
(* The connection table of the transport server: UvServer::clients and the *)
(* per-connection `authed` flag of UvClient.  Everything here happens on   *)
(* the Uv thread.                                                          *)
(***************************************************************************)
EXTENDS Integers

CONSTANT MaxClients   \* bound: connections accepted in one behaviour

ASSUME MaxClientsAssumption == MaxClients \in Nat

VARIABLES
  clients,       \* ids of the connections in UvServer::clients
  authed,        \* ids of the connections that have presented the secret
  client_nonce   \* id the next connection gets

ClientId == 0 .. MaxClients - 1

clients_vars == <<clients, authed, client_nonce>>

ClientsTypeOK ==
  /\ client_nonce \in 0 .. MaxClients
  /\ clients \subseteq 0 .. client_nonce - 1
  /\ authed \subseteq clients

ClientsInit ==
  /\ clients = {}
  /\ authed = {}
  /\ client_nonce = 0

(* The ListenEvent handler of listenTCP / listenPipe: the connection joins *)
(* `clients` before it has authenticated.                                  *)
Accept ==
  /\ client_nonce < MaxClients
  /\ clients' = clients \cup {client_nonce}
  /\ client_nonce' = client_nonce + 1
  /\ UNCHANGED authed

(* UvClient::handleAuth with the right secret.  Any other message of an    *)
(* unauthenticated connection is answered with an error and changes        *)
(* nothing.                                                                *)
Authenticate(c) ==
  /\ c \in clients \ authed
  /\ authed' = authed \cup {c}
  /\ UNCHANGED <<clients, client_nonce>>

(* The part of the CloseEvent handler that forgets the connection.  Ids    *)
(* are never given out again.                                              *)
Forget(c) ==
  /\ c \in clients
  /\ clients' = clients \ {c}
  /\ authed' = authed \ {c}
  /\ UNCHANGED client_nonce
=============================================================================
