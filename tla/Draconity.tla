----------------------------- MODULE Draconity -----------------------------
(***************************************************************************)
(* Draconity as its clients and Dragon see it: one action per handler of   *)
(* the Uv thread (a client's message, a connection that opens or closes,   *)
(* the pause timer, a function taken from the invoke queue) and the        *)
(* callbacks of Dragon's thread that feed it.  The Uv thread runs one      *)
(* handler at a time, so a handler is one step.                            *)
(***************************************************************************)
EXTENDS Words, Grammars, Pause

VARIABLE ready   \* Draconity::ready

vars == <<clients_vars, words_vars, grammars_vars, pause_vars, ready>>

TypeOK ==
  /\ ClientsTypeOK
  /\ WordsTypeOK
  /\ GrammarsTypeOK
  /\ PauseTypeOK
  /\ ready \in BOOLEAN

Init ==
  /\ ClientsInit
  /\ WordsInit
  /\ GrammarsInit
  /\ PauseInit
  /\ ready = FALSE

(* Draconity::sync_state on the tables sw and sg. *)
SyncState(sg, told_g, sw, present) ==
  /\ SyncWords(sw, present)
  /\ SyncGrammars(sg, told_g, present)

----------------------------------------------------------------------------

(* draconity_ready: a client's "ready" message or Dragon's SPEAKERCHANGED. *)
Ready ==
  /\ ~ready
  /\ ready' = TRUE
  /\ UNCHANGED <<clients_vars, words_vars, grammars_vars, pause_vars>>

Connect ==
  /\ Accept
  /\ UNCHANGED <<words_vars, grammars_vars, pause_vars, ready>>

Auth(c) ==
  /\ Authenticate(c)
  /\ UNCHANGED <<words_vars, grammars_vars, pause_vars, ready>>

(* Dragon's thread queues a function; nothing else happens until the Uv    *)
(* thread runs it.                                                         *)
Pauses ==
  /\ DragonPauses
  /\ UNCHANGED <<clients_vars, words_vars, grammars_vars, ready>>

(* drain_invoke_queue reaches the function handle_pause queued. *)
RunPause ==
  /\ invoke_queue # <<>>
  /\ Head(invoke_queue).fn = "pause"
  /\ SyncState(shadow_grammars, gset, shadow_words, clients)
  /\ BeginPause(Head(invoke_queue).token)
  /\ owing' = clients
  /\ UNCHANGED <<clients_vars, pauses, told, ready>>

(* drain_invoke_queue reaches the function UvServer::publish queued: every *)
(* connection of that moment is sent the token.                            *)
RunPublish ==
  /\ invoke_queue # <<>>
  /\ Head(invoke_queue).fn = "publish"
  /\ invoke_queue' = Tail(invoke_queue)
  /\ told' = [c \in ClientId |->
                IF c \in clients THEN told[c] \cup {Head(invoke_queue).token}
                                 ELSE told[c]]
  /\ UNCHANGED <<clients_vars, words_vars, grammars_vars, dragon_token, pauses,
                 pause_token, pause_clients, pause_timer, owing, ready>>

(* The TimerEvent of the pause timer, which runs once per start. *)
TimerFires ==
  /\ pause_timer
  /\ IF pause_token > 0
     THEN DoUnpause(pause_token)
     ELSE /\ pause_timer' = FALSE
          /\ UNCHANGED <<pause_clients, dragon_token, pause_token>>
  /\ UNCHANGED <<clients_vars, words_vars, grammars_vars, pauses, invoke_queue,
                 told, owing, ready>>

(* "w.set": the update waits for the next synchronisation, paused or not.  *)
WSet(c, t) ==
  /\ ready
  /\ c \in authed
  /\ wset[c][t] = "unsent"
  /\ wset' = SkippedWords(c, t)
  /\ shadow_words' = ShadowWords(c, t)
  /\ UNCHANGED <<clients_vars, loaded_words, grammars_vars, pause_vars, ready>>

(* Fault: the update waits even while Dragon is paused. *)
GSet_NoSync(c, t) ==
  /\ ready
  /\ c \in authed
  /\ gset[c][t] = "unsent"
  /\ shadow_grammars' = ShadowGrammars(c, t)
  /\ gset' = SkippedGrammar(c, t)
  /\ UNCHANGED <<grammars, dragon_grammars, stray_grammars, words_vars,
                 clients_vars, pause_vars, ready>>

(* Fault: the update is synchronised at once, paused or not. *)
GSet_AlwaysSync(c, t) ==
  /\ ready
  /\ c \in authed
  /\ gset[c][t] = "unsent"
  /\ SyncState(ShadowGrammars(c, t), SkippedGrammar(c, t), shadow_words, clients)
  /\ UNCHANGED <<clients_vars, pause_vars, ready>>

(* "g.set" and "g.unload": while Dragon is paused, the update and all that *)
(* waits with it is synchronised at once.                                  *)
GSet(c, t) ==
  /\ ready
  /\ c \in authed
  /\ gset[c][t] = "unsent"
  /\ IF pause_token # 0
     THEN SyncState(ShadowGrammars(c, t), SkippedGrammar(c, t), shadow_words, clients)
     ELSE /\ shadow_grammars' = ShadowGrammars(c, t)
          /\ gset' = SkippedGrammar(c, t)
          /\ UNCHANGED <<grammars, dragon_grammars, stray_grammars, words_vars>>
  /\ UNCHANGED <<clients_vars, pause_vars, ready>>

(* Fault: any token the client knows will do. *)
Unpause_AnyToken(c, t) ==
  /\ c \in authed
  /\ t \in told[c]
  /\ ClientUnpause(c, pause_token)
  /\ owing' = IF t = pause_token THEN owing \ {c} ELSE owing
  /\ UNCHANGED <<clients_vars, words_vars, grammars_vars, pauses, invoke_queue,
                 told, ready>>

(* "unpause" with the token in force.  With any other token the client is  *)
(* sent an error and nothing changes.                                      *)
Unpause(c, t) ==
  /\ c \in authed
  /\ t \in told[c]
  /\ t = pause_token
  /\ ClientUnpause(c, t)
  /\ owing' = owing \ {c}
  /\ UNCHANGED <<clients_vars, words_vars, grammars_vars, pauses, invoke_queue,
                 told, ready>>

(* Fault: Draconity goes on waiting for a client that has left. *)
Disconnect_KeepWaiting(c) ==
  /\ Forget(c)
  /\ shadow_words' = ClearedWords(c)
  /\ shadow_grammars' = ClearedGrammars(c)
  /\ owing' = owing \ {c}
  /\ UNCHANGED <<loaded_words, wset, grammars, dragon_grammars, stray_grammars, gset,
                 dragon_token, pauses, invoke_queue, pause_token, pause_clients,
                 pause_timer, told, ready>>

(* The CloseEvent of a connection: handle_disconnect. *)
Disconnect(c) ==
  /\ Forget(c)
  /\ IF pause_token > 0
     THEN /\ SyncState(ClearedGrammars(c), gset, ClearedWords(c), clients \ {c})
          /\ ClientUnpause(c, pause_token)
     ELSE /\ shadow_words' = ClearedWords(c)
          /\ shadow_grammars' = ClearedGrammars(c)
          /\ UNCHANGED <<loaded_words, wset, grammars, dragon_grammars,
                         stray_grammars, gset, dragon_token, pause_token,
                         pause_clients, pause_timer>>
  /\ owing' = owing \ {c}
  /\ UNCHANGED <<pauses, invoke_queue, told, ready>>

RunQueue == RunPause \/ RunPublish

Next ==
  \/ Ready \/ Connect \/ Pauses \/ RunQueue \/ TimerFires
  \/ \E c \in ClientId :
       \/ Auth(c)
       \/ Disconnect(c)
       \/ \E t \in WTid : WSet(c, t)
       \/ \E t \in GTid : GSet(c, t)
       \/ \E t \in PauseToken : Unpause(c, t)

Spec == Init /\ [][Next]_vars

(* The Uv loop keeps running what is queued and its timer fires in the     *)
(* end.  Nothing is assumed of the clients.                                *)
FairSpec == Spec /\ WF_vars(RunQueue) /\ WF_vars(TimerFires)
----------------------------------------------------------------------------
(* The pause handshake. *)

InForce == pause_token \in PauseToken

(* A pause Dragon has reported is never lost: until Draconity has taken    *)
(* note of the token, the function that will do so is in the invoke queue. *)
PauseNotLost ==
  (dragon_token # 0 /\ pause_token # dragon_token)
     => \E i \in DOMAIN invoke_queue :
          invoke_queue[i] = [fn |-> "pause", token |-> dragon_token]

(* Draconity never holds a token of Dragon's that is not the one Dragon is *)
(* waiting for, so no Resume it sends is stale.                            *)
NoStaleToken == InForce => pause_token = dragon_token

(* While a token is in force Draconity waits for somebody who can still    *)
(* answer and has a timer running; with none in force nothing is left of   *)
(* the last pause.  A timer left over would resume the next pause early, a *)
(* client left over would keep it waiting.                                 *)
WaitingOnSomeone ==
  /\ InForce <=> pause_clients # {}
  /\ InForce <=> pause_timer
  /\ pause_clients \subseteq clients

(* Whom Draconity waits for is exactly who was asked in this pause and has *)
(* neither sent the token back nor left since.                             *)
WaitsForOwing == InForce => pause_clients = owing

(* Dragon is resumed only when the timer fires or when every client that   *)
(* was asked has answered this very pause or left.                         *)
NoEarlyResume ==
  [][dragon_token # 0 /\ dragon_token' = 0 => TimerFires \/ owing' = {}]_vars

(* Dragon never waits for ever, whatever the clients do. *)
DragonResumes == dragon_token # 0 ~> dragon_token = 0

(* The handshake implements PauseContract: Dragon runs, has reported a     *)
(* pause Draconity has not taken note of, or is held for pause_clients.    *)
phase == IF dragon_token = 0 THEN "running"
         ELSE IF pause_token = dragon_token THEN "held" ELSE "reported"

Contract == INSTANCE PauseContract
              WITH Client <- ClientId, present <- clients, waiting <- pause_clients

(* Every behaviour of Draconity is one the contract allows.  *)
ImplementsContract == Contract!Spec

----------------------------------------------------------------------------
(* What Dragon holds against what was asked for. *)

(* pause_token is what the constructor found in memory: it is no token,    *)
(* and takes Dragon for paused.                                            *)
Leftover == pause_token \notin PauseToken \cup {0}

EngineTouched ==
  <<loaded_words, dragon_grammars, stray_grammars>>'
    # <<loaded_words, dragon_grammars, stray_grammars>>

(* Dragon's vocabulary and grammars are touched only while Dragon is held  *)
(* at a pause: pause_token "also encodes whether Dragon is paused"         *)
(* (draconity.h), and a g.set is synchronised at once only when it does.   *)
EngineTouchedOnlyWhilePaused == [][EngineTouched => dragon_token # 0]_vars

(* What is true of that: while a leftover is in pause_token Dragon is      *)
(* touched while it runs, but the first pause ends this for good.          *)
GuardedFromFirstPause ==
  [][/\ EngineTouched => dragon_token # 0 \/ Leftover
     /\ Leftover' => Leftover /\ ~RunPause]_vars

(* While Dragon is paused no grammar update waits: whoever sends one, and  *)
(* whoever leaves, it has reached Dragon by the end of the handler.        *)
NoGrammarWaitsWhilePaused ==
  pause_token # 0 => \A n \in Name : shadow_grammars[n].op = "none"

(* The words a client is considered synchronised with are in Dragon, also  *)
(* after other clients' updates and failures.                              *)
SyncedWordsLoaded ==
  \A c \in ClientId : shadow_words[c].synced => shadow_words[c].words \subseteq loaded_words

(* Once everything is synchronised, Dragon's temporary vocabulary is what  *)
(* the connected clients want and nothing of those that left, as long as   *)
(* Dragon deletes what it is told to.                                      *)
VocabularyIsUnion ==
  (\A c \in ClientId : shadow_words[c].synced)
     => loaded_words = UNION {shadow_words[c].words : c \in clients}

(* A connected client whose last "w.set" was answered with success has all *)
(* the words it asked for.                                                 *)
SuccessMeansLoaded ==
  \A c \in clients : LET t == shadow_words[c].last_tid IN
     t \in WTid /\ wset[c][t] = "success" => WRequest[t] \subseteq loaded_words

(* No "w.set" is forgotten: a request a connected client has had no answer *)
(* to is the one that waits for the next synchronisation.                  *)
PendingWordsWait ==
  \A c \in clients, t \in WTid :
     wset[c][t] = "pending" => shadow_words[c].last_tid = t /\ ~shadow_words[c].synced

(* Every synchronisation answers every "w.set" again, but a client that    *)
(* was told its words are loaded, or its update skipped, is never told     *)
(* otherwise.                                                              *)
WordAnswerIsFinal ==
  [][\A c \in ClientId, t \in WTid :
       wset[c][t] \in {"skipped", "success"} => wset'[c][t] = wset[c][t]]_vars

(* The table the callbacks look grammars up in: whose they are, and which  *)
(* ones Dragon has loaded.                                                 *)
known == {n \in Name : dragon_grammars[n] # NotLoaded \/ n \in stray_grammars}

GrammarContract == INSTANCE GrammarTable
                     WITH Client <- ClientId, open <- dragon_token # 0 \/ Leftover,
                          owner <- [n \in Name |-> grammars[n].client],
                          Clean <- {"unload", "register"} \cap GrammarFaults = {}

(* Every behaviour of Draconity is one the table's contract allows: it     *)
(* changes only while Dragon is held, or a leftover in pause_token says    *)
(* so, and what is owned is known.                                         *)
ImplementsTable == GrammarContract!Spec

(* What Draconity has recorded of a grammar is what Dragon has loaded for  *)
(* it, as long as Dragon unloads what it is told to.                       *)
GrammarMirrors ==
  \A n \in Name : dragon_grammars[n] =
     [blob |-> grammars[n].blob, rules |-> grammars[n].rules, lists |-> grammars[n].lists]

(* A grammar whose last update was answered with success is in Dragon as   *)
(* that update asked for.                                                  *)
SuccessMeansInForce ==
  \A n \in Name : LET c == grammars[n].client
                      t == grammars[n].tid
                      d == dragon_grammars[n] IN
     (c \in clients /\ gset[c][t] = "success") =>
        /\ GRequest[t].op = "set"
        /\ d.blob = GRequest[t].blob
        /\ d.rules = GRequest[t].rules
        /\ \A l \in ListName :
             GRequest[t].lists[l] # Nothing => d.lists[l] = GRequest[t].lists[l]

(* "If any errors occurred, we unload the entire grammar" is not true of   *)
(* one whose callbacks could not be registered: it stays loaded and its    *)
(* handle is forgotten.  But nothing else leaves a grammar in Dragon that  *)
(* Draconity does not know of, no reload, removal or departure: it takes   *)
(* an update that is answered with error, or whose client has left.        *)
OnlyErrorsLeaveStray ==
  [][\A n \in stray_grammars' \ stray_grammars :
       /\ grammars'[n] = Absent
       /\ \/ \E c \in clients', t \in GTid :
               GRequest[t].name = n /\ gset[c][t] # "error" /\ gset'[c][t] = "error"
          \/ shadow_grammars[n].op = "set" /\ shadow_grammars[n].client \notin clients']_vars

(* "g.set" answers are final too. *)
GrammarAnswerIsFinal ==
  [][\A c \in ClientId, t \in GTid :
       gset[c][t] \in {"skipped", "success", "error"} => gset'[c][t] = gset[c][t]]_vars

Waits(c, t) == LET n == GRequest[t].name IN
  shadow_grammars[n] = [op |-> GRequest[t].op, client |-> c, tid |-> t]

(* "Response will be sent when update is synced (or discarded)" is not     *)
(* true of every "g.*" request, but the one way a waiting request is       *)
(* forgotten without an answer is that another client, the owner of the    *)
(* grammar it is about, leaves.                                            *)
OnlyOwnersLeaveForgets ==
  [][\A c \in clients, t \in GTid :
       gset'[c][t] = "pending" /\ c \in clients' /\ Waits(c, t) /\ ~Waits(c, t)'
         => grammars[GRequest[t].name].client \in clients \ clients']_vars

(* What belongs to a client that has left goes at the next synchronisation *)
(* at the latest, whoever else asks for the grammar meanwhile: either      *)
(* something waits that takes it away, or it was loaded for a request the  *)
(* client had still waiting when it left, and never had an answer to.      *)
LeaversGrammarsGo ==
  \A n \in Name : LET c == grammars[n].client IN
    c \in ClientId \ clients =>
      shadow_grammars[n].op # "none" \/ gset[c][grammars[n].tid] = "pending"

(* "Unload everything related to a client when it disconnects": no grammar *)
(* is loaded for a client that is not there.                               *)
NothingLoadedForLeavers ==
  [][\A n \in Name : dragon_grammars'[n] # NotLoaded /\ dragon_grammars[n] = NotLoaded
       => grammars'[n].client \in clients']_vars
=============================================================================
