------------------------------- MODULE Pause -------------------------------
(***************************************************************************)
(* The pause handshake.  Dragon stops between utterances and hands         *)
(* Draconity a token; Draconity lets the clients work on their grammars    *)
(* and gives the token back (Resume) when every client it asked has        *)
(* unpaused or left, or when a timer fires.  dragon_token is the external  *)
(* engine; the rest is Draconity's state and the functions waiting in      *)
(* UvServer::invoke_queue.                                                 *)
(***************************************************************************)
EXTENDS Clients, Sequences

CONSTANTS
  MaxPauses,   \* bound: pauses in one behaviour
  Uninit       \* what the constructor may leave in pause_token

(* Dragon numbers its pauses with tokens other than 0; leftover memory is  *)
(* told apart from them.                                                   *)
PauseToken == 1 .. MaxPauses

ASSUME PauseAssumption ==
  /\ MaxPauses \in Nat
  /\ Uninit \subseteq Nat \ PauseToken

VARIABLES
  dragon_token,   \* external: the token Dragon is waiting for, 0 if running
  pauses,         \* external: the last token Dragon gave out
  invoke_queue,   \* functions waiting for the Uv thread, oldest first
  pause_token,    \* Draconity::pause_token
  pause_clients,  \* Draconity::pause_clients
  pause_timer,    \* is the timer running
  told,           \* [ClientId -> tokens the client has been sent]
  owing           \* history: clients asked in the last pause that have since
                  \* neither sent its token back nor left

pause_vars == <<dragon_token, pauses, invoke_queue, pause_token, pause_clients,
                pause_timer, told, owing>>

QueueEntry == [fn : {"pause", "publish"}, token : PauseToken]

PauseTypeOK ==
  /\ pauses \in 0 .. MaxPauses
  /\ dragon_token \in {0, pauses}
  /\ invoke_queue \in Seq(QueueEntry)
  /\ pause_token \in PauseToken \cup {0} \cup Uninit
  /\ pause_clients \subseteq ClientId
  /\ pause_timer \in BOOLEAN
  /\ told \in [ClientId -> SUBSET PauseToken]
  /\ owing \subseteq ClientId

PauseInit ==
  /\ dragon_token = 0
  /\ pauses = 0
  /\ invoke_queue = <<>>
  /\ pause_token \in Uninit
  /\ pause_clients = {}
  /\ pause_timer = FALSE
  /\ told = [c \in ClientId |-> {}]
  /\ owing = {}

(* Dragon's thread: the pause callback draconity_paused, handle_pause.     *)
(* Dragon does not pause again before it has been resumed.                 *)
DragonPauses ==
  /\ dragon_token = 0
  /\ pauses < MaxPauses
  /\ pauses' = pauses + 1
  /\ dragon_token' = pauses'
  /\ invoke_queue' = Append(invoke_queue, [fn |-> "pause", token |-> pauses'])
  /\ UNCHANGED <<pause_token, pause_clients, pause_timer, told, owing>>

(* Fault: Dragon is resumed, but the token is kept. *)
DoUnpause_KeepToken(token) ==
  /\ pause_clients' = {}
  /\ pause_timer' = FALSE
  /\ dragon_token' = IF dragon_token = token THEN 0 ELSE dragon_token
  /\ pause_token' = token

(* Fault: the timer is left running. *)
DoUnpause_KeepTimer(token) ==
  /\ pause_clients' = {}
  /\ pause_timer' = (pause_timer \/ token > 0)
  /\ dragon_token' = IF dragon_token = token THEN 0 ELSE dragon_token
  /\ pause_token' = 0

(* do_unpause with `token` in pause_token.  Dragon ignores a token other   *)
(* than the one it waits for.                                              *)
DoUnpause(token) ==
  IF token > 0
  THEN /\ pause_clients' = {}
       /\ pause_timer' = FALSE
       /\ dragon_token' = IF dragon_token = token THEN 0 ELSE dragon_token
       /\ pause_token' = 0
  ELSE UNCHANGED <<pause_clients, pause_timer, dragon_token, pause_token>>

(* Fault: the first answer resumes Dragon. *)
ClientUnpause_First(c, token) ==
  IF pause_token = token
  THEN DoUnpause(token)
  ELSE UNCHANGED <<pause_clients, pause_timer, dragon_token, pause_token>>

(* client_unpause *)
ClientUnpause(c, token) ==
  IF pause_token # token
  THEN UNCHANGED <<pause_clients, pause_timer, dragon_token, pause_token>>
  ELSE IF pause_clients \ {c} = {}
  THEN DoUnpause(token)
  ELSE /\ pause_clients' = pause_clients \ {c}
       /\ UNCHANGED <<pause_timer, dragon_token, pause_token>>

(* Fault: the timer is not started. *)
BeginPause_NoTimer(token) ==
  IF clients = {}
  THEN /\ pause_token' = 0
       /\ dragon_token' = IF dragon_token = token THEN 0 ELSE dragon_token
       /\ pause_clients' = {}
       /\ pause_timer' = FALSE
       /\ invoke_queue' = Tail(invoke_queue)
  ELSE /\ pause_token' = token
       /\ pause_clients' = pause_clients \cup clients
       /\ invoke_queue' = Append(Tail(invoke_queue), [fn |-> "publish", token |-> token])
       /\ UNCHANGED <<dragon_token, pause_timer>>

(* The function handle_pause queues, after it has synchronised: resume at  *)
(* once when there is no client, else ask every connection (authenticated  *)
(* or not) and start the timer.                                            *)
BeginPause(token) ==
  IF clients = {}
  THEN /\ DoUnpause(token)
       /\ invoke_queue' = Tail(invoke_queue)
  ELSE /\ pause_token' = token
       /\ pause_clients' = pause_clients \cup clients
       /\ pause_timer' = TRUE
       /\ invoke_queue' = Append(Tail(invoke_queue), [fn |-> "publish", token |-> token])
       /\ UNCHANGED dragon_token
=============================================================================
