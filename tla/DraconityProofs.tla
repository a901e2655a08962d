--------------------------- MODULE DraconityProofs ---------------------------
(***************************************************************************)
(* The pause handshake and the vocabulary of Draconity, for any number of  *)
(* clients, pauses, requests and words, and whatever pause_token starts    *)
(* as: Dragon is held for whom it should be, and it has the words clients  *)
(* are synchronised with, and nothing else.                                *)
(***************************************************************************)
EXTENDS Draconity, TLAPS

----------------------------------------------------------------------------
(* The pause handshake. *)

(* The queue holds the function of at most one pause, the one Dragon is    *)
(* waiting in and Draconity has not taken note of.                         *)
QueueOK ==
  /\ \A i \in DOMAIN invoke_queue : invoke_queue[i].fn = "pause" =>
        invoke_queue[i].token = dragon_token /\ pause_token # dragon_token
  /\ \A i, j \in DOMAIN invoke_queue :
        invoke_queue[i].fn = "pause" /\ invoke_queue[j].fn = "pause" => i = j

PauseInv ==
  /\ ClientsTypeOK
  /\ PauseTypeOK
  /\ QueueOK
  /\ PauseNotLost
  /\ NoStaleToken
  /\ WaitingOnSomeone
  /\ WaitsForOwing

----------------------------------------------------------------------------

(* The initial state satisfies the invariant. *)
LEMMA PauseInvInit == Init => PauseInv
<1> SUFFICES ASSUME Init PROVE PauseInv
  OBVIOUS
<1> USE DEF Init, ClientsInit, PauseInit
<1>1. ClientsTypeOK
  BY MaxClientsAssumption DEF ClientsTypeOK
<1>2. PauseTypeOK
  <2>1. pauses \in 0 .. MaxPauses
    BY PauseAssumption
  <2>2. invoke_queue \in Seq(QueueEntry)
    OBVIOUS
  <2>3. told \in [ClientId -> SUBSET PauseToken]
    OBVIOUS
  <2>4. /\ dragon_token \in {0, pauses}
        /\ pause_token \in PauseToken \cup {0} \cup Uninit
        /\ pause_clients \subseteq ClientId
        /\ pause_timer \in BOOLEAN
        /\ owing \subseteq ClientId
    OBVIOUS
  <2> QED
    BY <2>1, <2>2, <2>3, <2>4 DEF PauseTypeOK
<1>3. QueueOK /\ PauseNotLost
  BY DEF QueueOK, PauseNotLost
<1>4. ~InForce
  BY PauseAssumption DEF InForce
<1>5. NoStaleToken /\ WaitingOnSomeone /\ WaitsForOwing
  BY <1>4 DEF NoStaleToken, WaitingOnSomeone, WaitsForOwing
<1> QED
  BY <1>1, <1>2, <1>3, <1>5 DEF PauseInv

(* Appending to the queue keeps its type and its entries. *)
LEMMA AppendQueue ==
  ASSUME NEW q \in Seq(QueueEntry), NEW e \in QueueEntry
  PROVE  /\ Append(q, e) \in Seq(QueueEntry)
         /\ DOMAIN Append(q, e) = 1 .. Len(q) + 1
         /\ DOMAIN q = 1 .. Len(q)
         /\ Len(q) \in Nat
         /\ \A i \in 1 .. Len(q) : Append(q, e)[i] = q[i]
         /\ Append(q, e)[Len(q) + 1] = e
  OBVIOUS

(* Taking the oldest entry off the queue moves the others up by one. *)
LEMMA TailQueue ==
  ASSUME NEW q \in Seq(QueueEntry), q # <<>>
  PROVE  /\ Tail(q) \in Seq(QueueEntry)
         /\ Head(q) = q[1]
         /\ Head(q) \in QueueEntry
         /\ Len(q) \in Nat \ {0}
         /\ DOMAIN q = 1 .. Len(q)
         /\ DOMAIN Tail(q) = 1 .. Len(q) - 1
         /\ Len(Tail(q)) = Len(q) - 1
         /\ \A i \in 1 .. Len(q) - 1 : Tail(q)[i] = q[i + 1]
  OBVIOUS

----------------------------------------------------------------------------
(* The connection table. *)

(* Every step is one of the four operations on the connection table, or    *)
(* leaves it alone.                                                        *)
LEMMA ClientsSteps ==
  [Next]_vars => \/ Accept
                 \/ \E c \in ClientId : Authenticate(c) \/ Forget(c)
                 \/ UNCHANGED clients_vars
  BY DEF Next, vars, Ready, Connect, Auth, Pauses, RunQueue, RunPause, RunPublish,
         TimerFires, WSet, GSet, Unpause, Disconnect

(* The type of the connection table is preserved. *)
LEMMA ClientsTypeStep == ClientsTypeOK /\ [Next]_vars => ClientsTypeOK'
<1> SUFFICES ASSUME ClientsTypeOK, [Next]_vars PROVE ClientsTypeOK'
  OBVIOUS
<1> USE MaxClientsAssumption DEF ClientsTypeOK
<1>1. CASE Accept
  BY <1>1 DEF Accept
<1>2. ASSUME NEW c \in ClientId, Authenticate(c) \/ Forget(c) PROVE ClientsTypeOK'
  BY <1>2 DEF Authenticate, Forget
<1>3. CASE UNCHANGED clients_vars
  BY <1>3 DEF clients_vars
<1> QED
  BY <1>1, <1>2, <1>3, ClientsSteps

(* A connected client has one of the ids a connection can have. *)
LEMMA ClientsAreIds == ClientsTypeOK => clients \subseteq ClientId
  BY MaxClientsAssumption DEF ClientsTypeOK, ClientId

----------------------------------------------------------------------------
(* What do_unpause and client_unpause do to the invariant. *)

(* With a token in force no pause is queued, and resuming with it leaves   *)
(* Dragon running; with junk in pause_token Dragon is not affected.        *)
LEMMA TokenCases ==
  ASSUME PauseInv
  PROVE  \/ /\ InForce
            /\ pause_token > 0
            /\ dragon_token = pause_token
            /\ \A i \in DOMAIN invoke_queue : invoke_queue[i].fn # "pause"
         \/ /\ ~InForce
            /\ pause_clients = {}
            /\ ~pause_timer
            /\ pause_token > 0 => pause_token # dragon_token
  BY PauseAssumption
  DEF PauseInv, PauseTypeOK, QueueOK, NoStaleToken, WaitingOnSomeone, InForce, PauseToken

(* A queued pause is of a Dragon that waits. *)
LEMMA QueuedTokens ==
  ASSUME PauseInv
  PROVE  \A i \in DOMAIN invoke_queue : invoke_queue[i].fn = "pause" => dragon_token # 0
<1> SUFFICES ASSUME NEW i \in DOMAIN invoke_queue, invoke_queue[i].fn = "pause"
             PROVE  dragon_token # 0
  OBVIOUS
<1>1. invoke_queue[i] \in QueueEntry
  BY DEF PauseInv, PauseTypeOK
<1>2. invoke_queue[i].token \in PauseToken
  BY <1>1 DEF QueueEntry
<1> QED
  BY <1>2 DEF PauseInv, QueueOK, PauseToken

(* do_unpause with the token Draconity holds, in a handler after which     *)
(* nobody's answer is counted, keeps the invariant.                        *)
LEMMA DoUnpauseStep ==
  ASSUME PauseInv, ClientsTypeOK', pause_token > 0, DoUnpause(pause_token),
         UNCHANGED <<pauses, invoke_queue, told>>, owing' \subseteq owing
  PROVE  PauseInv'
<1>1. /\ pause_clients' = {}
      /\ pause_timer' = FALSE
      /\ dragon_token' = (IF dragon_token = pause_token THEN 0 ELSE dragon_token)
      /\ pause_token' = 0
  BY DEF DoUnpause
<1>2. ~InForce'
  BY <1>1 DEF InForce, PauseToken
<1>3. PauseTypeOK'
  BY <1>1 DEF PauseInv, PauseTypeOK
<1>4. QueueOK' /\ PauseNotLost'
  <2>1. CASE InForce
    BY <1>1, <2>1, TokenCases DEF QueueOK, PauseNotLost, InForce, PauseToken
  <2>2. CASE ~InForce
    <3>1. dragon_token' = dragon_token
      BY <1>1, <2>2, TokenCases
    <3>2. \A i \in DOMAIN invoke_queue :
            invoke_queue[i].fn = "pause" => dragon_token # 0
      BY QueuedTokens
    <3> QED
      BY <1>1, <2>2, <3>1, <3>2, TokenCases
      DEF PauseInv, QueueOK, PauseNotLost, InForce, PauseToken
  <2> QED
    BY <2>1, <2>2
<1>5. NoStaleToken' /\ WaitingOnSomeone' /\ WaitsForOwing'
  BY <1>1, <1>2 DEF NoStaleToken, WaitingOnSomeone, WaitsForOwing
<1> QED
  BY <1>3, <1>4, <1>5 DEF PauseInv

(* client_unpause of a client that is leaving or has sent the token.       *)
LEMMA ClientUnpauseStep ==
  ASSUME PauseInv, ClientsTypeOK', NEW c \in ClientId, pause_token > 0,
         ClientUnpause(c, pause_token), owing' = owing \ {c},
         UNCHANGED <<pauses, invoke_queue, told>>,
         clients' = clients \/ clients' = clients \ {c}
  PROVE  PauseInv'
<1>1. CASE pause_clients \ {c} = {}
  BY <1>1, DoUnpauseStep DEF ClientUnpause
<1>2. CASE pause_clients \ {c} # {}
  <2>1. /\ pause_clients' = pause_clients \ {c}
        /\ UNCHANGED <<pause_timer, dragon_token, pause_token>>
    BY <1>2 DEF ClientUnpause
  <2>2. InForce /\ InForce'
    BY <1>2, <2>1 DEF PauseInv, WaitingOnSomeone, InForce
  <2>3. PauseTypeOK'
    BY <2>1 DEF PauseInv, PauseTypeOK
  <2>4. QueueOK' /\ PauseNotLost' /\ NoStaleToken'
    BY <2>1 DEF PauseInv, QueueOK, PauseNotLost, NoStaleToken, InForce
  <2>5. WaitingOnSomeone' /\ WaitsForOwing'
    BY <1>2, <2>1, <2>2 DEF PauseInv, WaitingOnSomeone, WaitsForOwing
  <2> QED
    BY <2>3, <2>4, <2>5 DEF PauseInv
<1> QED
  BY <1>1, <1>2

----------------------------------------------------------------------------
(* Every step keeps the invariant. *)

(* Steps that only open connections, authenticate or synchronise. *)
LEMMA OtherStep ==
  ASSUME PauseInv, ClientsTypeOK', clients \subseteq clients', UNCHANGED pause_vars
  PROVE  PauseInv'
  BY DEF PauseInv, PauseTypeOK, QueueOK, PauseNotLost, NoStaleToken, WaitingOnSomeone,
         WaitsForOwing, InForce, pause_vars

(* A pause Dragon reports joins a queue that holds no other. *)
LEMMA PausesStep ==
  ASSUME PauseInv, ClientsTypeOK', Pauses
  PROVE  PauseInv'
<1> DEFINE e == [fn |-> "pause", token |-> pauses']
<1>1. /\ dragon_token = 0
      /\ pauses < MaxPauses
      /\ pauses' = pauses + 1
      /\ dragon_token' = pauses'
      /\ invoke_queue' = Append(invoke_queue, e)
      /\ UNCHANGED <<pause_token, pause_clients, pause_timer, told, owing, clients>>
  BY DEF Pauses, DragonPauses, clients_vars
<1>2. pauses' \in PauseToken /\ dragon_token' \in PauseToken
  BY <1>1, PauseAssumption DEF PauseInv, PauseTypeOK, PauseToken
<1>3. e \in QueueEntry /\ invoke_queue \in Seq(QueueEntry)
  BY <1>2 DEF QueueEntry, PauseInv, PauseTypeOK
<1>4. ~InForce /\ ~InForce'
  BY <1>1 DEF PauseInv, NoStaleToken, InForce, PauseToken
<1>5. PauseTypeOK'
  <2>1. invoke_queue' \in Seq(QueueEntry)
    BY <1>1, <1>3, AppendQueue
  <2>2. pauses' \in 0 .. MaxPauses
    BY <1>1, PauseAssumption DEF PauseInv, PauseTypeOK
  <2> QED
    BY <1>1, <2>1, <2>2 DEF PauseInv, PauseTypeOK
<1>6. \A i \in DOMAIN invoke_queue : invoke_queue[i].fn # "pause"
  BY <1>1, QueuedTokens
<1>7. QueueOK' /\ PauseNotLost'
  <2>1. DOMAIN invoke_queue' = 1 .. Len(invoke_queue) + 1
    BY <1>1, <1>3, AppendQueue
  <2>2. \A i \in DOMAIN invoke_queue' :
          invoke_queue'[i].fn = "pause" => i = Len(invoke_queue) + 1
    BY <1>1, <1>3, <1>6, AppendQueue
  <2>3. invoke_queue'[Len(invoke_queue) + 1] = e
    BY <1>1, <1>3, AppendQueue
  <2>4. pause_token' # dragon_token'
    BY <1>1, <1>2, <1>4 DEF InForce
  <2>5. QueueOK'
    BY <1>1, <2>2, <2>3, <2>4 DEF QueueOK
  <2>6. Len(invoke_queue) + 1 \in DOMAIN invoke_queue'
    BY <2>1, <1>3, AppendQueue
  <2>7. PauseNotLost'
    BY <1>1, <2>3, <2>6 DEF PauseNotLost
  <2> QED
    BY <2>5, <2>7
<1>8. NoStaleToken' /\ WaitingOnSomeone' /\ WaitsForOwing'
  BY <1>1, <1>4 DEF PauseInv, NoStaleToken, WaitingOnSomeone, WaitsForOwing
<1> QED
  BY <1>5, <1>7, <1>8 DEF PauseInv

(* The function handle_pause queued finds no token in force and takes the  *)
(* only pause off the queue.                                               *)
LEMMA PauseAtHead ==
  ASSUME PauseInv, RunPause
  PROVE  LET token == Head(invoke_queue).token
             rest  == Tail(invoke_queue)
         IN  /\ BeginPause(token)
             /\ owing' = clients
             /\ UNCHANGED <<clients, pauses, told>>
             /\ token \in PauseToken /\ token > 0
             /\ token = dragon_token /\ pause_token # dragon_token
             /\ ~InForce /\ pause_clients = {} /\ ~pause_timer
             /\ rest \in Seq(QueueEntry)
             /\ \A i \in DOMAIN rest : rest[i].fn # "pause"
<1> DEFINE token == Head(invoke_queue).token
           rest  == Tail(invoke_queue)
<1>1. /\ invoke_queue # <<>>
      /\ Head(invoke_queue).fn = "pause"
      /\ BeginPause(token)
      /\ owing' = clients
      /\ UNCHANGED <<clients, pauses, told>>
  BY DEF RunPause, clients_vars
<1>2. invoke_queue \in Seq(QueueEntry)
  BY DEF PauseInv, PauseTypeOK
<1>3. /\ Head(invoke_queue) = invoke_queue[1]
      /\ 1 \in DOMAIN invoke_queue
      /\ token \in PauseToken
  <2>1. Head(invoke_queue) \in QueueEntry
    BY <1>1, <1>2, TailQueue
  <2> QED
    BY <1>1, <1>2, <2>1, TailQueue DEF QueueEntry
<1>4. token = dragon_token /\ pause_token # dragon_token
  BY <1>1, <1>3 DEF PauseInv, QueueOK
<1>5. ~InForce /\ pause_clients = {} /\ ~pause_timer
  BY <1>4, TokenCases
<1>6. /\ rest \in Seq(QueueEntry)
      /\ \A i \in DOMAIN rest : rest[i].fn # "pause"
  <2>1. ASSUME NEW i \in DOMAIN rest PROVE rest[i].fn # "pause"
    <3>1. /\ i + 1 \in DOMAIN invoke_queue
          /\ i + 1 # 1
          /\ rest[i] = invoke_queue[i + 1]
      BY <1>1, <1>2, TailQueue
    <3> QED
      BY <1>1, <1>3, <3>1 DEF PauseInv, QueueOK
  <2> QED
    BY <1>1, <1>2, <2>1, TailQueue
<1>7. token > 0
  BY <1>3, PauseAssumption DEF PauseToken
<1> QED
  BY <1>1, <1>3, <1>4, <1>5, <1>6, <1>7

(* The function handle_pause queued keeps the invariant: Dragon is resumed at *)
(* once, or its token is in force and the connected clients are waited for. *)
LEMMA RunPauseStep ==
  ASSUME PauseInv, ClientsTypeOK', RunPause
  PROVE  PauseInv'
<1> DEFINE token == Head(invoke_queue).token
           rest  == Tail(invoke_queue)
<1>1. /\ BeginPause(token)
      /\ owing' = clients
      /\ UNCHANGED <<clients, pauses, told>>
      /\ token \in PauseToken /\ token > 0
      /\ token = dragon_token /\ pause_token # dragon_token
      /\ ~InForce /\ pause_clients = {} /\ ~pause_timer
      /\ rest \in Seq(QueueEntry)
      /\ \A i \in DOMAIN rest : rest[i].fn # "pause"
  BY PauseAtHead
<1> HIDE DEF token, rest
<1>2. CASE clients = {}
  <2>1. /\ pause_clients' = {}
        /\ pause_timer' = FALSE
        /\ dragon_token' = 0
        /\ pause_token' = 0
        /\ invoke_queue' = rest
    BY <1>1, <1>2 DEF BeginPause, DoUnpause, token, rest
  <2>2. ~InForce'
    BY <2>1 DEF InForce, PauseToken
  <2>3. PauseTypeOK'
    BY <1>1, <1>2, <2>1 DEF PauseInv, PauseTypeOK
  <2>4. QueueOK' /\ PauseNotLost'
    BY <1>1, <2>1 DEF QueueOK, PauseNotLost
  <2>5. NoStaleToken' /\ WaitingOnSomeone' /\ WaitsForOwing'
    BY <2>1, <2>2 DEF NoStaleToken, WaitingOnSomeone, WaitsForOwing
  <2> QED
    BY <2>3, <2>4, <2>5 DEF PauseInv
<1>3. CASE clients # {}
  <2> DEFINE e == [fn |-> "publish", token |-> token]
  <2>1. /\ pause_token' = token
        /\ pause_clients' = clients
        /\ pause_timer' = TRUE
        /\ invoke_queue' = Append(rest, e)
        /\ UNCHANGED dragon_token
    BY <1>1, <1>3 DEF BeginPause, token, rest
  <2>2. e \in QueueEntry
    BY <1>1 DEF QueueEntry
  <2>3. \A i \in DOMAIN invoke_queue' : invoke_queue'[i].fn # "pause"
    BY <1>1, <2>1, <2>2, AppendQueue
  <2>4. InForce'
    BY <1>1, <2>1 DEF InForce
  <2>5. PauseTypeOK'
    <3>1. invoke_queue' \in Seq(QueueEntry)
      BY <1>1, <2>1, <2>2, AppendQueue
    <3>2. clients \subseteq ClientId
      BY ClientsAreIds DEF PauseInv
    <3> QED
      BY <1>1, <2>1, <3>1, <3>2 DEF PauseInv, PauseTypeOK
  <2>6. QueueOK' /\ PauseNotLost'
    BY <1>1, <2>1, <2>3 DEF QueueOK, PauseNotLost
  <2>7. NoStaleToken' /\ WaitingOnSomeone' /\ WaitsForOwing'
    BY <1>1, <1>3, <2>1, <2>4 DEF NoStaleToken, WaitingOnSomeone, WaitsForOwing
  <2> QED
    BY <2>5, <2>6, <2>7 DEF PauseInv
<1> QED
  BY <1>2, <1>3

(* Publishing the token takes another function off the queue. *)
LEMMA RunPublishStep ==
  ASSUME PauseInv, ClientsTypeOK', RunPublish
  PROVE  PauseInv'
<1> DEFINE rest == Tail(invoke_queue)
<1>1. /\ invoke_queue # <<>>
      /\ Head(invoke_queue).fn = "publish"
      /\ invoke_queue' = rest
      /\ UNCHANGED <<clients, dragon_token, pauses, pause_token, pause_clients,
                     pause_timer, owing>>
      /\ told' = [c \in ClientId |->
                    IF c \in clients THEN told[c] \cup {Head(invoke_queue).token}
                                     ELSE told[c]]
  BY DEF RunPublish, clients_vars
<1>2. invoke_queue \in Seq(QueueEntry)
  BY DEF PauseInv, PauseTypeOK
<1>3. /\ Head(invoke_queue) = invoke_queue[1]
      /\ Head(invoke_queue).token \in PauseToken
      /\ DOMAIN invoke_queue = 1 .. Len(invoke_queue)
      /\ DOMAIN rest = 1 .. Len(invoke_queue) - 1
      /\ Len(invoke_queue) \in Nat \ {0}
      /\ \A i \in 1 .. Len(invoke_queue) - 1 : rest[i] = invoke_queue[i + 1]
  BY <1>1, <1>2, TailQueue DEF QueueEntry
<1>4. PauseTypeOK'
  <2>1. told' \in [ClientId -> SUBSET PauseToken]
    BY <1>1, <1>3 DEF PauseInv, PauseTypeOK
  <2>2. invoke_queue' \in Seq(QueueEntry)
    BY <1>1, <1>2, TailQueue
  <2> QED
    BY <1>1, <2>1, <2>2 DEF PauseInv, PauseTypeOK
<1>5. QueueOK'
  BY <1>1, <1>3 DEF PauseInv, QueueOK
<1>6. PauseNotLost'
  <2> SUFFICES ASSUME dragon_token # 0, pause_token # dragon_token
               PROVE  \E i \in DOMAIN rest :
                        rest[i] = [fn |-> "pause", token |-> dragon_token]
    BY <1>1 DEF PauseNotLost
  <2>1. PICK j \in DOMAIN invoke_queue :
               invoke_queue[j] = [fn |-> "pause", token |-> dragon_token]
    BY DEF PauseInv, PauseNotLost
  <2>2. j # 1
    BY <1>1, <1>3, <2>1
  <2>3. j - 1 \in DOMAIN rest /\ rest[j - 1] = invoke_queue[j]
    BY <1>3, <2>2
  <2> QED
    BY <2>1, <2>3
<1>7. NoStaleToken' /\ WaitingOnSomeone' /\ WaitsForOwing'
  BY <1>1 DEF PauseInv, NoStaleToken, WaitingOnSomeone, WaitsForOwing, InForce
<1> QED
  BY <1>4, <1>5, <1>6, <1>7 DEF PauseInv

(* The timer runs only while a token is in force, and resumes with it. *)
LEMMA TimerStep ==
  ASSUME PauseInv, ClientsTypeOK', TimerFires
  PROVE  PauseInv'
<1>1. InForce /\ pause_token > 0
  BY TokenCases DEF TimerFires
<1> QED
  BY <1>1, DoUnpauseStep DEF TimerFires

(* A client that sends the token in force back is waited for no longer. *)
LEMMA UnpauseStep ==
  ASSUME PauseInv, ClientsTypeOK', NEW c \in ClientId, NEW t \in PauseToken, Unpause(c, t)
  PROVE  PauseInv'
<1>1. t = pause_token /\ pause_token > 0
  BY PauseAssumption DEF Unpause, PauseToken
<1> QED
  BY <1>1, ClientUnpauseStep DEF Unpause, clients_vars

(* A client that leaves is waited for no longer. *)
LEMMA DisconnectStep ==
  ASSUME PauseInv, ClientsTypeOK', NEW c \in ClientId, Disconnect(c)
  PROVE  PauseInv'
<1>1. CASE pause_token > 0
  BY <1>1, ClientUnpauseStep DEF Disconnect, Forget
<1>2. CASE ~(pause_token > 0)
  <2>1. ~InForce /\ pause_clients = {}
    BY <1>2, TokenCases
  <2>2. /\ UNCHANGED <<dragon_token, pauses, invoke_queue, pause_token, pause_clients,
                       pause_timer, told>>
        /\ owing' = owing \ {c}
    BY <1>2 DEF Disconnect
  <2>3. ~InForce'
    BY <2>1, <2>2 DEF InForce
  <2> QED
    BY <2>1, <2>2, <2>3
    DEF PauseInv, PauseTypeOK, QueueOK, PauseNotLost, NoStaleToken, WaitingOnSomeone,
        WaitsForOwing
<1> QED
  BY <1>1, <1>2

(* PauseInv is inductive. *)
LEMMA PauseInvStep == PauseInv /\ [Next]_vars => PauseInv'
<1> SUFFICES ASSUME PauseInv, [Next]_vars PROVE PauseInv'
  OBVIOUS
<1>1. ClientsTypeOK'
  BY ClientsTypeStep DEF PauseInv
<1>2. CASE Ready \/ UNCHANGED vars
  BY <1>1, <1>2, OtherStep DEF Ready, vars, clients_vars
<1>3. CASE Connect
  BY <1>1, <1>3, OtherStep DEF Connect, Accept
<1>4. CASE Pauses
  BY <1>1, <1>4, PausesStep
<1>5. CASE RunQueue
  BY <1>1, <1>5, RunPauseStep, RunPublishStep DEF RunQueue
<1>6. CASE TimerFires
  BY <1>1, <1>6, TimerStep
<1>7. ASSUME NEW c \in ClientId, Auth(c) PROVE PauseInv'
  BY <1>1, <1>7, OtherStep DEF Auth, Authenticate
<1>8. ASSUME NEW c \in ClientId, Disconnect(c) PROVE PauseInv'
  BY <1>1, <1>8, DisconnectStep
<1>9. ASSUME NEW c \in ClientId, NEW t \in WTid, WSet(c, t) PROVE PauseInv'
  BY <1>1, <1>9, OtherStep DEF WSet, clients_vars
<1>10. ASSUME NEW c \in ClientId, NEW t \in GTid, GSet(c, t) PROVE PauseInv'
  BY <1>1, <1>10, OtherStep DEF GSet, clients_vars
<1>11. ASSUME NEW c \in ClientId, NEW t \in PauseToken, Unpause(c, t) PROVE PauseInv'
  BY <1>1, <1>11, UnpauseStep
<1> QED
  BY <1>2, <1>3, <1>4, <1>5, <1>6, <1>7, <1>8, <1>9, <1>10, <1>11 DEF Next

(* The pause handshake keeps its invariant in every behaviour. *)
THEOREM PauseInvariant == Spec => []PauseInv
  BY PauseInvInit, PauseInvStep, PTL DEF Spec

(* No pause is lost, for any number of clients and pauses. *)
THEOREM PauseNotLostHolds == Spec => []PauseNotLost
  BY PauseInvariant, PTL DEF PauseInv

(* Draconity never holds a stale token. *)
THEOREM NoStaleTokenHolds == Spec => []NoStaleToken
  BY PauseInvariant, PTL DEF PauseInv

(* Draconity waits for somebody, with the timer running, exactly while a   *)
(* token is in force.                                                      *)
THEOREM WaitingOnSomeoneHolds == Spec => []WaitingOnSomeone
  BY PauseInvariant, PTL DEF PauseInv

(* It waits for exactly those that owe it an answer. *)
THEOREM WaitsForOwingHolds == Spec => []WaitsForOwing
  BY PauseInvariant, PTL DEF PauseInv

----------------------------------------------------------------------------

(* A client_unpause that resumes Dragon was the last one owed. *)
LEMMA LastAnswer ==
  ASSUME PauseInv, NEW c, ClientUnpause(c, pause_token), owing' = owing \ {c},
         dragon_token # 0, dragon_token' = 0
  PROVE  owing' = {}
<1>1. pause_clients \ {c} = {} /\ DoUnpause(pause_token)
  BY DEF ClientUnpause
<1>2. InForce
  <2>1. pause_token > 0 /\ dragon_token = pause_token
    BY <1>1 DEF DoUnpause
  <2> QED
    BY <2>1, TokenCases
<1> QED
  BY <1>1, <1>2 DEF PauseInv, WaitsForOwing

(* Dragon is not resumed early. *)
THEOREM NoEarlyResumeHolds == Spec => NoEarlyResume
<1>1. ASSUME PauseInv, [Next]_vars, dragon_token # 0, dragon_token' = 0
      PROVE  TimerFires \/ owing' = {}
  <2>1. CASE Ready \/ Connect \/ Pauses \/ RunPublish \/ UNCHANGED vars
    BY <1>1, <2>1 DEF Ready, Connect, Pauses, DragonPauses, RunPublish, vars, pause_vars
  <2>2. CASE RunPause
    BY <1>1, <2>2 DEF RunPause, BeginPause, DoUnpause
  <2>3. ASSUME NEW c \in ClientId,
               \/ Auth(c)
               \/ \E t \in WTid : WSet(c, t)
               \/ \E t \in GTid : GSet(c, t)
        PROVE  FALSE
    BY <1>1, <2>3 DEF Auth, WSet, GSet, pause_vars
  <2>4. ASSUME NEW c \in ClientId, NEW t \in PauseToken, Unpause(c, t)
        PROVE  owing' = {}
    BY <1>1, <2>4, LastAnswer DEF Unpause
  <2>5. ASSUME NEW c \in ClientId, Disconnect(c)
        PROVE  owing' = {}
    BY <1>1, <2>5, LastAnswer DEF Disconnect
  <2> QED
    BY <1>1, <2>1, <2>2, <2>3, <2>4, <2>5 DEF Next, RunQueue
<1> QED
  BY <1>1, PauseInvariant, PTL DEF Spec, NoEarlyResume

----------------------------------------------------------------------------
(* What the first pause finds in pause_token, and what it leaves there. *)

(* A leftover is never put back: it is there from the start, and gone once *)
(* a pause is taken note of.                                               *)
LEMMA LeftoverStep ==
  ASSUME PauseInv, [Next]_vars, Leftover'
  PROVE  Leftover /\ ~RunPause
<1>1. CASE RunPause
  <2>1. Head(invoke_queue).token \in PauseToken
    BY <1>1, PauseAtHead
  <2>2. pause_token' \in PauseToken \cup {0}
    BY <1>1, <2>1, PauseAtHead DEF BeginPause, DoUnpause
  <2> QED
    BY <2>2 DEF Leftover
<1>2. CASE ~RunPause
  <2>1. pause_token' \in {pause_token, 0}
    BY <1>2
    DEF Next, RunQueue, Ready, Connect, Pauses, DragonPauses, RunPublish, TimerFires, Auth, WSet,
        GSet, Unpause, Disconnect, ClientUnpause, DoUnpause, vars, pause_vars
  <2> QED
    BY <1>2, <2>1 DEF Leftover
<1> QED
  BY <1>1, <1>2

(* While Dragon runs and pause_token holds no leftover, nothing of its     *)
(* vocabulary, its grammars or the table of grammars changes.              *)
LEMMA RunningUntouched ==
  ASSUME PauseInv, ~Leftover, [Next]_vars, dragon_token = 0
  PROVE  UNCHANGED <<loaded_words, grammars, dragon_grammars, stray_grammars>>
<1>1. CASE \/ Ready \/ Connect \/ Pauses \/ RunPublish \/ TimerFires \/ UNCHANGED vars
           \/ \E c \in ClientId : \/ Auth(c)
                                  \/ \E t \in WTid : WSet(c, t)
                                  \/ \E t \in PauseToken : Unpause(c, t)
  BY <1>1 DEF Ready, Connect, Pauses, RunPublish, TimerFires, Auth, WSet, Unpause,
              vars, words_vars, grammars_vars
<1>2. CASE RunPause
  <2>1. Head(invoke_queue).token > 0 /\ Head(invoke_queue).token = dragon_token
    BY <1>2, PauseAtHead
  <2> QED
    BY <2>1
<1>3. pause_token = 0
  BY PauseAssumption DEF Leftover, PauseInv, NoStaleToken, InForce, PauseToken
<1>4. ASSUME NEW c \in ClientId, NEW t \in GTid, GSet(c, t)
      PROVE  UNCHANGED <<loaded_words, grammars, dragon_grammars, stray_grammars>>
  BY <1>3, <1>4 DEF GSet, words_vars
<1>5. ASSUME NEW c \in ClientId, Disconnect(c)
      PROVE  UNCHANGED <<loaded_words, grammars, dragon_grammars, stray_grammars>>
  BY <1>3, <1>5 DEF Disconnect
<1> QED
  BY <1>1, <1>2, <1>4, <1>5 DEF Next, RunQueue

(* Dragon's vocabulary and grammars change only while it is held, or while *)
(* what the constructor found in pause_token is still there; the first     *)
(* pause takes that away for good.                                         *)
THEOREM GuardedFromFirstPauseHolds == Spec => GuardedFromFirstPause
<1>1. PauseInv /\ [Next]_vars
        => [/\ EngineTouched => dragon_token # 0 \/ Leftover
            /\ Leftover' => Leftover /\ ~RunPause]_vars
  BY RunningUntouched, LeftoverStep DEF EngineTouched
<1> QED
  BY <1>1, PauseInvariant, PTL DEF Spec, GuardedFromFirstPause

----------------------------------------------------------------------------
(* The handshake implements PauseContract. *)

(* When Dragon waits and a token is in force, Dragon is held.              *)
LEMMA PhaseCases ==
  ASSUME PauseInv
  PROVE  /\ phase = "held" <=> InForce
         /\ phase = "running" <=> dragon_token = 0
         /\ ~InForce => pause_clients = {}
<1>1. dragon_token \in {0} \cup PauseToken
  BY PauseAssumption DEF PauseInv, PauseTypeOK, PauseToken
<1> QED
  BY <1>1, TokenCases DEF phase, InForce, PauseToken, PauseInv, NoStaleToken, WaitingOnSomeone

(* do_unpause in the middle of a pause ends it in the contract too. *)
LEMMA UnpauseMaps ==
  ASSUME PauseInv, PauseInv', NEW c, pause_token > 0, ClientUnpause(c, pause_token)
  PROVE  /\ pause_clients' = pause_clients \ {c}
         /\ phase' = IF phase = "held" /\ pause_clients \subseteq {c} THEN "running"
                     ELSE phase
<1>1. CASE pause_clients \ {c} = {}
  <2>1. DoUnpause(pause_token)
    BY <1>1 DEF ClientUnpause
  <2>2. pause_clients' = {}
    BY <2>1 DEF DoUnpause
  <2>3. CASE InForce
    <3>1. dragon_token' = 0
      BY <2>1, <2>3, TokenCases DEF DoUnpause
    <3> QED
      BY <1>1, <2>2, <2>3, <3>1, PhaseCases DEF phase
  <2>4. CASE ~InForce
    <3>1. dragon_token' = dragon_token /\ pause_token' = 0 /\ pause_token # dragon_token
      BY <2>1, <2>4, TokenCases DEF DoUnpause
    <3> QED
      BY <1>1, <2>2, <2>4, <3>1, PhaseCases DEF phase
  <2> QED
    BY <2>3, <2>4
<1>2. CASE pause_clients \ {c} # {}
  BY <1>2 DEF ClientUnpause, phase
<1> QED
  BY <1>1, <1>2

(* Every step of Draconity is a step of the contract or leaves it alone.   *)
LEMMA ContractStep ==
  ASSUME PauseInv, PauseInv', [Next]_vars
  PROVE  [Contract!Next]_(Contract!vars)
<1> USE DEF Contract!vars
<1>1. CASE \/ Ready \/ RunPublish \/ UNCHANGED vars
           \/ \E c \in ClientId : \/ Auth(c)
                                  \/ \E t \in WTid : WSet(c, t)
                                  \/ \E t \in GTid : GSet(c, t)
  BY <1>1 DEF Ready, RunPublish, Auth, Authenticate, WSet, GSet, vars, pause_vars,
              clients_vars, phase
<1>2. CASE Connect
  <2>1. /\ client_nonce \in ClientId \ clients
        /\ clients' = clients \cup {client_nonce}
    BY <1>2, MaxClientsAssumption
    DEF Connect, Accept, PauseInv, ClientsTypeOK, ClientId
  <2>2. UNCHANGED <<phase, pause_clients>>
    BY <1>2 DEF Connect, pause_vars, phase
  <2>3. Contract!Join(client_nonce)
    BY <2>1, <2>2 DEF Contract!Join
  <2> QED
    BY <2>1, <2>3 DEF Contract!Next
<1>3. CASE Pauses
  <2>1. /\ dragon_token = 0 /\ dragon_token' \in PauseToken /\ ~InForce
        /\ UNCHANGED <<clients, pause_clients, pause_token>>
    BY <1>3, PauseAssumption
    DEF Pauses, DragonPauses, clients_vars, PauseInv, PauseTypeOK, NoStaleToken, InForce,
        PauseToken
  <2>2. dragon_token' # 0 /\ pause_token' # dragon_token'
    BY <2>1 DEF InForce, PauseToken
  <2>3. phase = "running" /\ phase' = "reported"
    BY <2>1, <2>2 DEF phase
  <2>4. Contract!Report
    BY <2>1, <2>3 DEF Contract!Report
  <2> QED
    BY <2>4 DEF Contract!Next
<1>4. CASE RunPause
  <2>1. /\ phase = "reported"
        /\ BeginPause(Head(invoke_queue).token)
        /\ Head(invoke_queue).token = dragon_token /\ dragon_token > 0
        /\ pause_clients = {} /\ UNCHANGED clients
    BY <1>4, PauseAtHead DEF phase
  <2>2. CASE clients = {}
    <3>1. dragon_token' = 0 /\ pause_clients' = {}
      BY <2>1, <2>2 DEF BeginPause, DoUnpause
    <3>2. Contract!Notice
      BY <2>1, <2>2, <3>1 DEF Contract!Notice, phase
    <3> QED
      BY <3>2 DEF Contract!Next
  <2>3. CASE clients # {}
    <3>1. pause_token' = dragon_token' /\ dragon_token' # 0 /\ pause_clients' = clients
      BY <2>1, <2>3 DEF BeginPause
    <3>2. Contract!Notice
      BY <2>1, <2>3, <3>1 DEF Contract!Notice, phase
    <3> QED
      BY <3>2 DEF Contract!Next
  <2> QED
    BY <2>2, <2>3
<1>5. CASE TimerFires
  <2>1. InForce /\ DoUnpause(pause_token) /\ pause_token > 0 /\ dragon_token = pause_token
    BY <1>5, TokenCases DEF TimerFires
  <2>2. phase = "held" /\ phase' = "running" /\ pause_clients' = {}
    BY <2>1, PhaseCases DEF DoUnpause, phase
  <2>3. Contract!Timeout
    BY <1>5, <2>2 DEF Contract!Timeout, TimerFires, clients_vars
  <2> QED
    BY <2>3 DEF Contract!Next
<1>6. ASSUME NEW c \in ClientId, NEW t \in PauseToken, Unpause(c, t)
      PROVE  [Contract!Next]_(Contract!vars)
  <2>1. pause_token > 0 /\ ClientUnpause(c, pause_token) /\ UNCHANGED clients
    BY <1>6, PauseAssumption DEF Unpause, PauseToken, clients_vars
  <2>2. CASE c \in pause_clients
    BY <2>1, <2>2, UnpauseMaps DEF Contract!Next, Contract!Answer, Contract!Release
  <2>3. CASE c \notin pause_clients
    <3>1. InForce
      BY <1>6 DEF Unpause, InForce
    <3>2. pause_clients # {}
      BY <3>1 DEF PauseInv, WaitingOnSomeone
    <3>3. UNCHANGED <<phase, pause_clients>>
      BY <2>1, <2>3, <3>2, UnpauseMaps
    <3> QED
      BY <2>1, <3>3
  <2> QED
    BY <2>2, <2>3
<1>7. ASSUME NEW c \in ClientId, Disconnect(c)
      PROVE  [Contract!Next]_(Contract!vars)
  <2>1. c \in clients /\ clients' = clients \ {c}
    BY <1>7 DEF Disconnect, Forget
  <2>2. CASE pause_token > 0
    <3>1. ClientUnpause(c, pause_token)
      BY <1>7, <2>2 DEF Disconnect
    <3>2. Contract!Leave(c)
      BY <2>1, <2>2, <3>1, UnpauseMaps DEF Contract!Leave, Contract!Release
    <3> QED
      BY <3>2 DEF Contract!Next
  <2>3. CASE ~(pause_token > 0)
    <3>1. UNCHANGED <<dragon_token, pause_token, pause_clients>>
      BY <1>7, <2>3 DEF Disconnect
    <3>2. ~InForce /\ pause_clients = {}
      BY <2>3, TokenCases
    <3>3. UNCHANGED phase /\ phase # "held"
      BY <3>1, <3>2, PhaseCases DEF phase
    <3>4. Contract!Leave(c)
      BY <2>1, <3>1, <3>2, <3>3 DEF Contract!Leave, Contract!Release
    <3> QED
      BY <3>4 DEF Contract!Next
  <2> QED
    BY <2>2, <2>3
<1> QED
  BY <1>1, <1>2, <1>3, <1>4, <1>5, <1>6, <1>7 DEF Next, RunQueue

(* Every behaviour of Draconity is one the contract allows. *)
THEOREM ImplementsContractHolds == Spec => ImplementsContract
<1>1. Init => Contract!Init
  BY DEF Init, PauseInit, ClientsInit, Contract!Init, phase
<1>2. PauseInv /\ PauseInv' /\ [Next]_vars => [Contract!Next]_(Contract!vars)
  BY ContractStep
<1> QED
  BY <1>1, <1>2, PauseInvariant, PTL DEF Spec, ImplementsContract, Contract!Spec

----------------------------------------------------------------------------
(* The vocabulary. *)

(* The words of clients that have left are wanted by nobody. *)
LeaversWantNothing ==
  \A c \in ClientId : c \notin clients => shadow_words[c].words = {}

(* A client without an entry in the table has no words in it. *)
NoEntryNoWords ==
  \A c \in ClientId : shadow_words[c].last_tid = NoTid => shadow_words[c].words = {}

(* Only words somebody is synchronised with, or an update is waiting. *)
VocabularyWanted ==
  (\A c \in ClientId : shadow_words[c].synced)
     => loaded_words \subseteq UNION {shadow_words[c].words : c \in ClientId}

WordsInv ==
  /\ ClientsTypeOK
  /\ WordsTypeOK
  /\ SyncedWordsLoaded
  /\ LeaversWantNothing
  /\ NoEntryNoWords

----------------------------------------------------------------------------
(* What a synchronisation does. *)

(* The table a handler hands to sync_words. *)
Table == [ClientId -> WordState]

(* A synchronisation keeps the types. *)
LEMMA SyncWordsType ==
  ASSUME WordsTypeOK, NEW sw \in Table, NEW present, SyncWords(sw, present)
  PROVE  WordsTypeOK'
<1>1. PICK out \in WordOutcome :
        /\ loaded_words' = LoadedAfter(sw, out)
        /\ shadow_words' = WithoutFailures(sw, out)
        /\ wset' = WordReplies(sw, out, present)
  BY DEF SyncWords
<1>2. AllShadowWords(sw) \subseteq Word
  BY DEF AllShadowWords, Table, WordState
<1>3. loaded_words' \subseteq Word
  BY <1>1, <1>2 DEF LoadedAfter, WordsTypeOK
<1>4. shadow_words' \in [ClientId -> WordState]
  <2>1. \A c \in ClientId :
          [sw[c] EXCEPT !.words = @ \ WordErrors(sw, out), !.synced = TRUE] \in WordState
    BY DEF Table, WordState
  <2> QED
    BY <1>1, <2>1 DEF WithoutFailures
<1>5. wset' \in [ClientId -> [WTid -> WStatus]]
  BY <1>1 DEF WordReplies, WordsTypeOK, WStatus
<1> QED
  BY <1>3, <1>4, <1>5 DEF WordsTypeOK

(* After a synchronisation every client's remaining words are in Dragon,   *)
(* all clients are synchronised, and nobody wants more than before.        *)
LEMMA SyncWordsLoads ==
  ASSUME WordsTypeOK, NEW sw \in Table, NEW present, SyncWords(sw, present)
  PROVE  \A c \in ClientId :
           /\ shadow_words'[c].words \subseteq loaded_words'
           /\ shadow_words'[c].words \subseteq sw[c].words
           /\ shadow_words'[c].last_tid = sw[c].last_tid
           /\ shadow_words'[c].synced
<1>1. PICK out \in WordOutcome :
        /\ loaded_words' = LoadedAfter(sw, out)
        /\ shadow_words' = WithoutFailures(sw, out)
  BY DEF SyncWords
<1> SUFFICES ASSUME NEW c \in ClientId
             PROVE  /\ shadow_words'[c].words \subseteq loaded_words'
                    /\ shadow_words'[c].words \subseteq sw[c].words
                    /\ shadow_words'[c].last_tid = sw[c].last_tid
                    /\ shadow_words'[c].synced
  OBVIOUS
<1>2. sw[c] \in WordState
  BY DEF Table
<1>3. /\ shadow_words'[c].words = sw[c].words \ WordErrors(sw, out)
      /\ shadow_words'[c].last_tid = sw[c].last_tid
      /\ shadow_words'[c].synced = TRUE
  BY <1>1, <1>2 DEF WithoutFailures, WordState
<1>4. sw[c].words \subseteq AllShadowWords(sw)
  BY DEF AllShadowWords
<1>5. sw[c].words \ WordErrors(sw, out) \subseteq LoadedAfter(sw, out)
  BY <1>4 DEF WordErrors, LoadedAfter
<1> QED
  BY <1>1, <1>3, <1>5

(* If Dragon deletes what it is told to, it has nothing nobody wants.      *)
LEMMA SyncWordsUnloads ==
  ASSUME WordsTypeOK, NEW sw \in Table, NEW present, SyncWords(sw, present),
         "delete" \notin WordFaults
  PROVE  loaded_words' \subseteq UNION {shadow_words'[c].words : c \in ClientId}
<1>1. PICK out \in WordOutcome :
        /\ loaded_words' = LoadedAfter(sw, out)
        /\ shadow_words' = WithoutFailures(sw, out)
  BY DEF SyncWords
<1>2. out.delete = {}
  BY DEF WordOutcome
<1> SUFFICES ASSUME NEW w \in loaded_words'
             PROVE  \E c \in ClientId : w \in shadow_words'[c].words
  OBVIOUS
<1>3. w \in AllShadowWords(sw) /\ w \notin WordErrors(sw, out)
  BY <1>1, <1>2 DEF LoadedAfter, WordErrors
<1>4. PICK c \in ClientId : w \in sw[c].words
  BY <1>3 DEF AllShadowWords
<1>5. shadow_words'[c].words = sw[c].words \ WordErrors(sw, out)
  BY <1>1 DEF WithoutFailures, Table, WordState
<1> QED
  BY <1>3, <1>4, <1>5

----------------------------------------------------------------------------
(* The tables handlers synchronise. *)

(* handle_disconnect's table: the leaver's words are gone, and unless it   *)
(* had none the table waits for a synchronisation.                         *)
LEMMA ClearedTable ==
  ASSUME WordsInv, NEW c \in ClientId
  PROVE  /\ ClearedWords(c) \in Table
         /\ ClearedWords(c)[c].words = {}
         /\ \A d \in ClientId : /\ ClearedWords(c)[d].last_tid = shadow_words[d].last_tid
                                /\ d # c => ClearedWords(c)[d] = shadow_words[d]
         /\ ClearedWords(c) = shadow_words \/ ~ClearedWords(c)[c].synced
<1>1. shadow_words \in Table
  BY DEF WordsInv, WordsTypeOK, Table
<1>2. CASE shadow_words[c].last_tid = NoTid
  BY <1>1, <1>2 DEF ClearedWords, WordsInv, NoEntryNoWords
<1>3. CASE shadow_words[c].last_tid # NoTid
  <2> DEFINE emptied == [shadow_words[c] EXCEPT !.words = {}, !.synced = FALSE]
  <2>0. shadow_words[c] \in WordState
    BY <1>1 DEF Table
  <2>1. ClearedWords(c) = [shadow_words EXCEPT ![c] = emptied]
    BY <1>1, <1>3, <2>0 DEF ClearedWords, Table
  <2>2. /\ emptied \in WordState
        /\ emptied.words = {}
        /\ emptied.last_tid = shadow_words[c].last_tid
        /\ emptied.synced = FALSE
    BY <2>0 DEF WordState
  <2> HIDE DEF emptied
  <2> QED
    BY <1>1, <2>1, <2>2 DEF Table
<1> QED
  BY <1>2, <1>3

(* set_shadow_words' table. *)
LEMMA RequestedTable ==
  ASSUME WordsTypeOK, NEW c \in ClientId, NEW t \in WTid
  PROVE  /\ ShadowWords(c, t) \in Table
         /\ ~ShadowWords(c, t)[c].synced
         /\ ShadowWords(c, t)[c].last_tid # NoTid
         /\ \A d \in ClientId \ {c} : ShadowWords(c, t)[d] = shadow_words[d]
<1>1. [words |-> WRequest[t], last_tid |-> t, synced |-> FALSE] \in WordState
  BY WordsAssumption DEF WordState
<1> QED
  BY <1>1, WordsAssumption DEF ShadowWords, Table, WordsTypeOK

----------------------------------------------------------------------------
(* The invariant is inductive. *)

(* Initially nobody wants a word and Dragon has none. *)
LEMMA WordsInvInit == Init => WordsInv /\ VocabularyWanted
<1> SUFFICES ASSUME Init PROVE WordsInv /\ VocabularyWanted
  OBVIOUS
<1>1. ClientsTypeOK
  BY MaxClientsAssumption DEF Init, ClientsInit, ClientsTypeOK
<1>2. NoWordState \in WordState
  BY DEF NoWordState, WordState
<1>3. /\ shadow_words = [c \in ClientId |-> NoWordState]
      /\ loaded_words = {}
      /\ wset = [c \in ClientId |-> [t \in WTid |-> "unsent"]]
  BY DEF Init, WordsInit
<1>4. WordsTypeOK
  BY <1>2, <1>3 DEF WordsTypeOK, WStatus
<1>5. \A c \in ClientId : shadow_words[c].words = {}
  BY <1>3 DEF NoWordState
<1> QED
  BY <1>1, <1>3, <1>4, <1>5
  DEF WordsInv, SyncedWordsLoaded, LeaversWantNothing, NoEntryNoWords, VocabularyWanted

(* Steps that leave the vocabulary alone and nobody out. *)
LEMMA WordsFrame ==
  ASSUME WordsInv, ClientsTypeOK', clients \subseteq clients', UNCHANGED words_vars
  PROVE  WordsInv' /\ (VocabularyWanted => VocabularyWanted')
  BY DEF WordsInv, WordsTypeOK, SyncedWordsLoaded, LeaversWantNothing, NoEntryNoWords,
         VocabularyWanted, words_vars

(* A synchronisation of a table in which the leavers want nothing. *)
LEMMA WordsSync ==
  ASSUME WordsInv, ClientsTypeOK', NEW sw \in Table, NEW present, SyncWords(sw, present),
         \A c \in ClientId : /\ c \notin clients' => sw[c].words = {}
                             /\ sw[c].last_tid = NoTid => sw[c].words = {}
  PROVE  WordsInv' /\ ("delete" \notin WordFaults => VocabularyWanted')
<1>1. WordsTypeOK'
  BY SyncWordsType DEF WordsInv
<1>2. \A c \in ClientId :
           /\ shadow_words'[c].words \subseteq loaded_words'
           /\ shadow_words'[c].words \subseteq sw[c].words
           /\ shadow_words'[c].last_tid = sw[c].last_tid
           /\ shadow_words'[c].synced
  BY SyncWordsLoads DEF WordsInv
<1>3. SyncedWordsLoaded' /\ LeaversWantNothing' /\ NoEntryNoWords'
  BY <1>2 DEF SyncedWordsLoaded, LeaversWantNothing, NoEntryNoWords
<1>4. "delete" \notin WordFaults => VocabularyWanted'
  BY SyncWordsUnloads DEF WordsInv, VocabularyWanted
<1> QED
  BY <1>1, <1>3, <1>4 DEF WordsInv

(* "w.set" replaces what one connected client wants and loads nothing. *)
LEMMA WSetStep ==
  ASSUME WordsInv, ClientsTypeOK', NEW c \in ClientId, NEW t \in WTid, WSet(c, t)
  PROVE  WordsInv' /\ VocabularyWanted'
<1>1. /\ c \in clients
      /\ clients' = clients
      /\ shadow_words' = ShadowWords(c, t)
      /\ loaded_words' = loaded_words
      /\ wset' = SkippedWords(c, t)
  BY DEF WSet, WordsInv, ClientsTypeOK, clients_vars
<1>2. wset' \in [ClientId -> [WTid -> WStatus]]
  BY <1>1 DEF SkippedWords, WordsInv, WordsTypeOK, WStatus
<1>3. /\ shadow_words' \in [ClientId -> WordState]
      /\ ~shadow_words'[c].synced
      /\ shadow_words'[c].last_tid # NoTid
      /\ \A d \in ClientId \ {c} : shadow_words'[d] = shadow_words[d]
  BY <1>1, RequestedTable DEF WordsInv, Table
<1> QED
  BY <1>1, <1>2, <1>3
  DEF WordsInv, WordsTypeOK, SyncedWordsLoaded, LeaversWantNothing, NoEntryNoWords,
      VocabularyWanted

(* A client that leaves wants nothing any more; while paused its words go. *)
LEMMA WordsDisconnectStep ==
  ASSUME WordsInv, ClientsTypeOK', NEW c \in ClientId, Disconnect(c)
  PROVE  WordsInv' /\ ("delete" \notin WordFaults /\ VocabularyWanted => VocabularyWanted')
<1>1. clients' = clients \ {c}
  BY DEF Disconnect, Forget
<1>2. /\ ClearedWords(c) \in Table
      /\ ClearedWords(c)[c].words = {}
      /\ \A d \in ClientId : /\ ClearedWords(c)[d].last_tid = shadow_words[d].last_tid
                             /\ d # c => ClearedWords(c)[d] = shadow_words[d]
      /\ ClearedWords(c) = shadow_words \/ ~ClearedWords(c)[c].synced
  BY ClearedTable
<1>3. \A d \in ClientId : /\ d \notin clients' => ClearedWords(c)[d].words = {}
                          /\ ClearedWords(c)[d].last_tid = NoTid => ClearedWords(c)[d].words = {}
  BY <1>1, <1>2 DEF WordsInv, LeaversWantNothing, NoEntryNoWords
<1>4. CASE pause_token > 0
  <2>1. SyncWords(ClearedWords(c), clients \ {c})
    BY <1>4 DEF Disconnect, SyncState
  <2> QED
    BY <1>2, <1>3, <2>1, WordsSync
<1>5. CASE ~(pause_token > 0)
  <2>1. shadow_words' = ClearedWords(c) /\ UNCHANGED <<loaded_words, wset>>
    BY <1>5 DEF Disconnect
  <2>2. WordsTypeOK'
    BY <1>2, <2>1 DEF WordsInv, WordsTypeOK, Table
  <2>3. SyncedWordsLoaded'
    BY <1>2, <2>1 DEF WordsInv, SyncedWordsLoaded
  <2>4. LeaversWantNothing' /\ NoEntryNoWords'
    BY <1>3, <2>1 DEF LeaversWantNothing, NoEntryNoWords
  <2>5. VocabularyWanted => VocabularyWanted'
    BY <1>2, <2>1 DEF VocabularyWanted
  <2> QED
    BY <2>2, <2>3, <2>4, <2>5 DEF WordsInv
<1> QED
  BY <1>4, <1>5

(* A synchronisation of the table as it is. *)
LEMMA WordsSyncInPlace ==
  ASSUME WordsInv, ClientsTypeOK', clients' = clients, NEW present,
         SyncWords(shadow_words, present)
  PROVE  WordsInv' /\ ("delete" \notin WordFaults => VocabularyWanted')
<1>1. shadow_words \in Table
  BY DEF WordsInv, WordsTypeOK, Table
<1>2. \A c \in ClientId : /\ c \notin clients' => shadow_words[c].words = {}
                          /\ shadow_words[c].last_tid = NoTid => shadow_words[c].words = {}
  BY DEF WordsInv, LeaversWantNothing, NoEntryNoWords
<1> QED
  BY <1>1, <1>2, WordsSync

(* WordsInv is inductive, and VocabularyWanted with it when Dragon deletes *)
(* what it is told to.                                                     *)
LEMMA WordsInvStep ==
  ASSUME WordsInv, [Next]_vars
  PROVE  WordsInv' /\ ("delete" \notin WordFaults /\ VocabularyWanted => VocabularyWanted')
<1> DEFINE Goal == WordsInv' /\ ("delete" \notin WordFaults /\ VocabularyWanted
                                   => VocabularyWanted')
<1>1. ClientsTypeOK'
  BY ClientsTypeStep DEF WordsInv
<1>2. CASE Ready \/ Connect \/ Pauses \/ RunPublish \/ TimerFires \/ UNCHANGED vars
  <2>1. clients \subseteq clients' /\ UNCHANGED words_vars
    BY <1>2 DEF Ready, Connect, Accept, Pauses, RunPublish, TimerFires, vars, clients_vars
  <2> QED
    BY <1>1, <2>1, WordsFrame
<1>3. CASE RunPause
  <2>1. clients' = clients /\ SyncWords(shadow_words, clients)
    BY <1>3 DEF RunPause, SyncState, clients_vars
  <2> QED
    BY <1>1, <2>1, WordsSyncInPlace
<1>4. ASSUME NEW c \in ClientId, Auth(c) PROVE Goal
  <2>1. clients \subseteq clients' /\ UNCHANGED words_vars
    BY <1>4 DEF Auth, Authenticate
  <2> QED
    BY <1>1, <2>1, WordsFrame
<1>5. ASSUME NEW c \in ClientId, NEW t \in PauseToken, Unpause(c, t) PROVE Goal
  <2>1. clients \subseteq clients' /\ UNCHANGED words_vars
    BY <1>5 DEF Unpause, clients_vars
  <2> QED
    BY <1>1, <2>1, WordsFrame
<1>6. ASSUME NEW c \in ClientId, NEW t \in WTid, WSet(c, t) PROVE Goal
  BY <1>1, <1>6, WSetStep
<1>7. ASSUME NEW c \in ClientId, NEW t \in GTid, GSet(c, t) PROVE Goal
  <2>1. clients' = clients
    BY <1>7 DEF GSet, clients_vars
  <2>2. CASE pause_token # 0
    <3>1. SyncWords(shadow_words, clients)
      BY <1>7, <2>2 DEF GSet, SyncState
    <3> QED
      BY <1>1, <2>1, <3>1, WordsSyncInPlace
  <2>3. CASE pause_token = 0
    <3>1. UNCHANGED words_vars
      BY <1>7, <2>3 DEF GSet
    <3> QED
      BY <1>1, <2>1, <3>1, WordsFrame
  <2> QED
    BY <2>2, <2>3
<1>8. ASSUME NEW c \in ClientId, Disconnect(c) PROVE Goal
  BY <1>1, <1>8, WordsDisconnectStep
<1> QED
  BY <1>2, <1>3, <1>4, <1>5, <1>6, <1>7, <1>8 DEF Next, RunQueue

(* The vocabulary invariant holds in every behaviour. *)
THEOREM WordsInvariant == Spec => []WordsInv
  BY WordsInvInit, WordsInvStep, PTL DEF Spec

(* What a client is considered synchronised with is in Dragon, whatever    *)
(* Dragon refuses.                                                         *)
THEOREM SyncedWordsLoadedHolds == Spec => []SyncedWordsLoaded
  BY WordsInvariant, PTL DEF WordsInv

(* Dragon's vocabulary is what the connected clients want, if Dragon       *)
(* deletes what it is told to.                                             *)
THEOREM VocabularyIsUnionHolds ==
  ASSUME "delete" \notin WordFaults
  PROVE  Spec => []VocabularyIsUnion
<1>1. Init => VocabularyWanted
  BY WordsInvInit
<1>2. WordsInv /\ VocabularyWanted /\ [Next]_vars => VocabularyWanted'
  BY WordsInvStep
<1>3. WordsInv /\ VocabularyWanted => VocabularyIsUnion
  <2> SUFFICES ASSUME WordsInv, VocabularyWanted, \A c \in ClientId : shadow_words[c].synced
               PROVE  loaded_words = UNION {shadow_words[c].words : c \in clients}
    BY DEF VocabularyIsUnion
  <2>1. clients \subseteq ClientId
    BY ClientsAreIds DEF WordsInv
  <2>2. ASSUME NEW w \in loaded_words PROVE \E c \in clients : w \in shadow_words[c].words
    <3>1. PICK c \in ClientId : w \in shadow_words[c].words
      BY DEF VocabularyWanted
    <3>2. c \in clients
      BY <3>1 DEF WordsInv, LeaversWantNothing
    <3> QED
      BY <3>1, <3>2
  <2>3. ASSUME NEW c \in clients PROVE shadow_words[c].words \subseteq loaded_words
    BY <2>1 DEF WordsInv, SyncedWordsLoaded
  <2> QED
    BY <2>2, <2>3
<1> QED
  BY <1>1, <1>2, <1>3, WordsInvariant, PTL DEF Spec

----------------------------------------------------------------------------
(* What clients are told. *)

(* How the answer to each "w.set" of a client relates to the client's      *)
(* entry in the table: the last one waits until it is synchronised and has *)
(* an answer from then on.                                                 *)
AnswersInv ==
  \A c \in ClientId, t \in WTid :
    /\ c \in clients /\ wset[c][t] = "pending" =>
         shadow_words[c].last_tid = t /\ ~shadow_words[c].synced
    /\ c \in clients /\ shadow_words[c].last_tid = t /\ ~shadow_words[c].synced =>
         wset[c][t] = "pending"
    /\ shadow_words[c].last_tid = t => wset[c][t] \notin {"unsent", "skipped"}
    /\ c >= client_nonce => wset[c][t] = "unsent"

WordAnswersKept ==
  \A c \in ClientId, t \in WTid :
    wset[c][t] \in {"skipped", "success"} => wset'[c][t] = wset[c][t]

LEMMA AnswersInit == Init => AnswersInv
<1> SUFFICES ASSUME Init, NEW c \in ClientId, NEW t \in WTid
             PROVE  wset[c][t] = "unsent" /\ shadow_words[c].last_tid # t
  BY DEF AnswersInv
<1> QED
  BY WordsAssumption DEF Init, WordsInit, NoWordState

(* Steps that leave the words alone. *)
LEMMA AnswersFrame ==
  ASSUME AnswersInv, WordsInv, ClientsTypeOK', UNCHANGED words_vars,
         \/ client_nonce' = client_nonce /\ clients' \subseteq clients
         \/ client_nonce' = client_nonce + 1 /\ clients' = clients \cup {client_nonce}
  PROVE  AnswersInv' /\ WordAnswersKept
<1>1. WordAnswersKept /\ shadow_words' = shadow_words /\ wset' = wset /\ client_nonce \in Nat
  BY DEF words_vars, WordAnswersKept, WordsInv, ClientsTypeOK
<1> SUFFICES ASSUME NEW c \in ClientId, NEW t \in WTid
             PROVE  /\ c \in clients' /\ wset[c][t] = "pending" =>
                         shadow_words[c].last_tid = t /\ ~shadow_words[c].synced
                    /\ c \in clients' /\ shadow_words[c].last_tid = t /\ ~shadow_words[c].synced =>
                         wset[c][t] = "pending"
                    /\ shadow_words[c].last_tid = t => wset[c][t] \notin {"unsent", "skipped"}
                    /\ c >= client_nonce' => wset[c][t] = "unsent"
  BY <1>1 DEF AnswersInv
<1>2. c \in Int
  BY DEF ClientId
<1>3. CASE client_nonce' = client_nonce /\ clients' \subseteq clients
  BY <1>3 DEF AnswersInv
<1>4. CASE client_nonce' = client_nonce + 1 /\ clients' = clients \cup {client_nonce}
  <2>1. c = client_nonce => wset[c][t] = "unsent" /\ shadow_words[c].last_tid # t
    BY <1>1 DEF AnswersInv
  <2> QED
    BY <1>1, <1>2, <1>4, <2>1 DEF AnswersInv
<1> QED
  BY <1>3, <1>4

(* A synchronisation that answers everybody who is there. *)
LEMMA AnswersSync ==
  ASSUME AnswersInv, WordsInv, ClientsTypeOK', NEW sw \in Table,
         SyncWords(sw, clients'), clients' \subseteq clients, client_nonce' = client_nonce,
         \A c \in ClientId : /\ sw[c].last_tid = shadow_words[c].last_tid
                             /\ c \in clients' => sw[c] = shadow_words[c]
  PROVE  AnswersInv' /\ WordAnswersKept
<1>1. PICK out \in WordOutcome : wset' = WordReplies(sw, out, clients')
  BY DEF SyncWords
<1>2. \A c \in ClientId : shadow_words'[c].last_tid = shadow_words[c].last_tid /\ shadow_words'[c].synced
  BY SyncWordsLoads DEF WordsInv
<1> SUFFICES ASSUME NEW c \in ClientId, NEW t \in WTid
             PROVE  /\ c \in clients' /\ wset'[c][t] = "pending" =>
                         shadow_words[c].last_tid = t /\ ~shadow_words'[c].synced
                    /\ shadow_words[c].last_tid = t => wset'[c][t] \notin {"unsent", "skipped"}
                    /\ c >= client_nonce => wset'[c][t] = "unsent"
                    /\ wset[c][t] \in {"skipped", "success"} => wset'[c][t] = wset[c][t]
  BY <1>2 DEF AnswersInv, WordAnswersKept
<1>3. wset'[c][t] = IF c \in clients' /\ t = sw[c].last_tid
                    THEN IF sw[c].words \cap WordErrors(sw, out) = {} THEN "success" ELSE "error"
                    ELSE wset[c][t]
  BY <1>1 DEF WordReplies
<1>4. CASE c \in clients' /\ t = sw[c].last_tid
  <2>1. wset'[c][t] \in {"success", "error"}
    BY <1>3, <1>4
  <2>2. ~(c >= client_nonce)
    BY <1>4 DEF ClientsTypeOK, ClientId
  <2>3. wset[c][t] # "skipped"
    BY <1>4 DEF AnswersInv
  <2>4. ASSUME wset[c][t] = "success" PROVE wset'[c][t] = "success"
    <3>1. sw[c] = shadow_words[c] /\ shadow_words[c].synced
      BY <1>4, <2>4 DEF AnswersInv
    <3>2. sw[c].words \subseteq loaded_words
      BY <3>1 DEF WordsInv, SyncedWordsLoaded
    <3>3. sw[c].words \subseteq AllShadowWords(sw)
      BY DEF AllShadowWords
    <3>4. sw[c].words \cap WordErrors(sw, out) = {}
      BY <3>2, <3>3 DEF WordErrors
    <3> QED
      BY <1>3, <1>4, <3>4
  <2> QED
    BY <1>4, <2>1, <2>2, <2>3, <2>4
<1>5. CASE ~(c \in clients' /\ t = sw[c].last_tid)
  <2>1. wset'[c][t] = wset[c][t]
    BY <1>3, <1>5
  <2> QED
    BY <1>5, <2>1 DEF AnswersInv
<1> QED
  BY <1>4, <1>5

(* "w.set" *)
LEMMA AnswersWSet ==
  ASSUME AnswersInv, WordsInv, NEW d \in ClientId, NEW u \in WTid, WSet(d, u)
  PROVE  AnswersInv' /\ WordAnswersKept
<1>1. /\ d \in clients /\ clients' = clients /\ client_nonce' = client_nonce
      /\ wset[d][u] = "unsent"
      /\ shadow_words' = ShadowWords(d, u) /\ wset' = SkippedWords(d, u)
  BY DEF WSet, WordsInv, ClientsTypeOK, clients_vars
<1>2. /\ shadow_words'[d].last_tid = u /\ ~shadow_words'[d].synced
      /\ \A c \in ClientId \ {d} : shadow_words'[c] = shadow_words[c]
  BY <1>1 DEF ShadowWords, WordsInv, WordsTypeOK
<1>3. \A t \in WTid : wset'[d][t] =
        IF t = u THEN "pending"
        ELSE IF ~shadow_words[d].synced /\ t = shadow_words[d].last_tid THEN "skipped"
        ELSE wset[d][t]
  BY <1>1 DEF SkippedWords, WordsInv, WordsTypeOK
<1>4. \A c \in ClientId \ {d} : wset'[c] = wset[c]
  BY <1>1 DEF SkippedWords, WordsInv, WordsTypeOK
<1>5. ~(d >= client_nonce)
  BY <1>1 DEF WordsInv, ClientsTypeOK, ClientId
<1> SUFFICES ASSUME NEW c \in ClientId, NEW t \in WTid
             PROVE  /\ c \in clients /\ wset'[c][t] = "pending" =>
                         shadow_words'[c].last_tid = t /\ ~shadow_words'[c].synced
                    /\ c \in clients /\ shadow_words'[c].last_tid = t /\ ~shadow_words'[c].synced =>
                         wset'[c][t] = "pending"
                    /\ shadow_words'[c].last_tid = t => wset'[c][t] \notin {"unsent", "skipped"}
                    /\ c >= client_nonce => wset'[c][t] = "unsent"
                    /\ wset[c][t] \in {"skipped", "success"} => wset'[c][t] = wset[c][t]
  BY <1>1 DEF AnswersInv, WordAnswersKept
<1>6. CASE c # d
  BY <1>2, <1>4, <1>6 DEF AnswersInv
<1>7. CASE c = d
  BY <1>1, <1>2, <1>3, <1>5, <1>7 DEF AnswersInv
<1> QED
  BY <1>6, <1>7

LEMMA AnswersDisconnect ==
  ASSUME AnswersInv, WordsInv, ClientsTypeOK', NEW d \in ClientId, Disconnect(d)
  PROVE  AnswersInv' /\ WordAnswersKept
<1>1. clients' = clients \ {d} /\ client_nonce' = client_nonce
  BY DEF Disconnect, Forget
<1>2. /\ ClearedWords(d) \in Table
      /\ \A c \in ClientId : /\ ClearedWords(d)[c].last_tid = shadow_words[c].last_tid
                             /\ c \in clients' => ClearedWords(d)[c] = shadow_words[c]
  BY <1>1, ClearedTable
<1>3. CASE pause_token > 0
  <2>1. SyncWords(ClearedWords(d), clients')
    BY <1>1, <1>3 DEF Disconnect, SyncState
  <2> QED
    BY <1>1, <1>2, <2>1, AnswersSync
<1>4. CASE ~(pause_token > 0)
  <2>1. shadow_words' = ClearedWords(d) /\ wset' = wset
    BY <1>4 DEF Disconnect
  <2> QED
    BY <1>1, <1>2, <2>1 DEF AnswersInv, WordAnswersKept
<1> QED
  BY <1>3, <1>4

LEMMA AnswersStep ==
  ASSUME AnswersInv, WordsInv, [Next]_vars
  PROVE  AnswersInv' /\ WordAnswersKept
<1>1. ClientsTypeOK'
  BY ClientsTypeStep DEF WordsInv
<1>2. ASSUME UNCHANGED <<clients, client_nonce, words_vars>> PROVE AnswersInv' /\ WordAnswersKept
  BY <1>1, <1>2, AnswersFrame
<1>3. ASSUME clients' = clients, client_nonce' = client_nonce, SyncWords(shadow_words, clients)
      PROVE  AnswersInv' /\ WordAnswersKept
  <2>1. shadow_words \in Table
    BY DEF WordsInv, WordsTypeOK, Table
  <2> QED
    BY <1>1, <1>3, <2>1, AnswersSync
<1>4. CASE Ready \/ Pauses \/ RunPublish \/ TimerFires \/ UNCHANGED vars
  BY <1>2, <1>4 DEF Ready, Pauses, RunPublish, TimerFires, vars, clients_vars
<1>5. CASE Connect
  <2>1. client_nonce' = client_nonce + 1 /\ clients' = clients \cup {client_nonce}
        /\ UNCHANGED words_vars
    BY <1>5 DEF Connect, Accept
  <2> QED
    BY <1>1, <2>1, AnswersFrame
<1>6. CASE RunPause
  <2>1. clients' = clients /\ client_nonce' = client_nonce /\ SyncWords(shadow_words, clients)
    BY <1>6 DEF RunPause, SyncState, clients_vars
  <2> QED
    BY <1>3, <2>1
<1>7. ASSUME NEW c \in ClientId, Auth(c) \/ \E t \in PauseToken : Unpause(c, t)
      PROVE  AnswersInv' /\ WordAnswersKept
  BY <1>2, <1>7 DEF Auth, Authenticate, Unpause, clients_vars
<1>8. ASSUME NEW c \in ClientId, NEW t \in WTid, WSet(c, t) PROVE AnswersInv' /\ WordAnswersKept
  BY <1>8, AnswersWSet
<1>9. ASSUME NEW c \in ClientId, NEW t \in GTid, GSet(c, t) PROVE AnswersInv' /\ WordAnswersKept
  <2>1. clients' = clients /\ client_nonce' = client_nonce
    BY <1>9 DEF GSet, clients_vars
  <2>2. CASE pause_token # 0
    BY <1>3, <1>9, <2>1, <2>2 DEF GSet, SyncState
  <2>3. CASE pause_token = 0
    BY <1>2, <1>9, <2>1, <2>3 DEF GSet
  <2> QED
    BY <2>2, <2>3
<1>10. ASSUME NEW c \in ClientId, Disconnect(c) PROVE AnswersInv' /\ WordAnswersKept
  BY <1>1, <1>10, AnswersDisconnect
<1> QED
  BY <1>4, <1>5, <1>6, <1>7, <1>8, <1>9, <1>10 DEF Next, RunQueue

(* A "w.set" without an answer is the one that waits. *)
THEOREM PendingWordsWaitHolds == Spec => []PendingWordsWait
<1>1. AnswersInv /\ WordsInv => PendingWordsWait
  BY ClientsAreIds DEF AnswersInv, WordsInv, PendingWordsWait
<1> QED
  BY <1>1, AnswersInit, AnswersStep, WordsInvariant, PTL DEF Spec

(* Whoever was told that its words are loaded, or its update skipped, is   *)
(* never told otherwise.                                                   *)
THEOREM WordAnswerIsFinalHolds == Spec => WordAnswerIsFinal
<1>1. ASSUME AnswersInv, WordsInv, [Next]_vars
      PROVE  [\A c \in ClientId, t \in WTid :
                wset[c][t] \in {"skipped", "success"} => wset'[c][t] = wset[c][t]]_vars
  BY <1>1, AnswersStep DEF WordAnswersKept
<1> QED
  BY <1>1, AnswersInit, AnswersStep, WordsInvariant, PTL DEF Spec, WordAnswerIsFinal
==============================================================================
