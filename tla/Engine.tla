------------------------------- MODULE Engine -------------------------------
(***************************************************************************)
(* How Draconity gets hold of Dragon's engine.  Dragon calls the hooked    *)
(* functions on its own threads; the first call makes the engine known and *)
(* registers the callbacks (engine_acquire, engine_setup), and one with a  *)
(* speaker loaded makes Draconity ready (draconity_ready).  The speaker's  *)
(* callback and a client's `ready` command do that too, and the mic.set_-  *)
(* state command goes through a hook on the Uv thread.  engine_acquire     *)
(* takes no lock, draconity_ready takes readyLock.                         *)
(***************************************************************************)
EXTENDS Naturals, Sequences

CONSTANTS
  Thread,      \* Dragon's threads
  Uv,          \* the Uv thread
  EngineId,    \* engines Dragon may create
  NoEngine,    \* NULL
  NoThread,    \* readyLock is free
  MaxCalls     \* bound: calls in one behaviour

ASSUME EngineAssumption ==
  /\ Uv \notin Thread
  /\ NoThread \notin Thread \cup {Uv}
  /\ NoEngine \notin EngineId
  /\ MaxCalls \in Nat

VARIABLES
  created,      \* external: engines Dragon has
  registered,   \* external: [engine -> how often engine_setup was called on it]
  engine,       \* draconity->engine
  ready,        \* draconity->ready
  micstate,     \* draconity->micstate
  readyLock,    \* the thread that holds it
  server,       \* has the network thread created the server
  call,         \* [thread -> the call it is in]
  calls,        \* calls made
  told          \* history: status messages published, lost ones too

vars == <<created, registered, engine, ready, micstate, readyLock, server,
          call, calls, told>>

draconity_vars == <<registered, engine, ready, micstate, readyLock, told>>

Caller == Thread \cup {Uv}

(* Where a call is, the engine it is for, whether it must not make         *)
(* Draconity ready, and whether it goes on to report the microphone.       *)
Call ==
  [at : {"out", "acquire", "set", "register", "start", "ready?", "lock",
         "announce", "mark", "unlock", "speaker", "micon", "mic"},
   engine : EngineId \cup {NoEngine}, early : BOOLEAN, mic : BOOLEAN]

Out == [at |-> "out", engine |-> NoEngine, early |-> FALSE, mic |-> FALSE]

MicState == {"on", "off"}

Status == [cmd : {"start", "ready", "speaker_change", "on", "off"}, lost : BOOLEAN]

TypeOK ==
  /\ created \subseteq EngineId
  /\ registered \in [EngineId \cup {NoEngine} -> Nat]
  /\ engine \in EngineId \cup {NoEngine}
  /\ ready \in BOOLEAN
  /\ micstate \in MicState \cup {"unknown"}
  /\ readyLock \in Caller \cup {NoThread}
  /\ server \in BOOLEAN
  /\ call \in [Caller -> Call]
  /\ calls \in 0 .. MaxCalls
  /\ told \in Seq(Status)

(* Draconity may be loaded before Dragon has an engine, or after.          *)
Init ==
  /\ created \in SUBSET EngineId
  /\ registered = [e \in EngineId \cup {NoEngine} |-> 0]
  /\ engine = NoEngine
  /\ ready = FALSE
  /\ micstate = "unknown"
  /\ readyLock = NoThread
  /\ server = FALSE
  /\ call = [t \in Caller |-> Out]
  /\ calls = 0
  /\ told = <<>>

----------------------------------------------------------------------------
(* Calls begin. *)

At(t, place) == call[t].at = place

Goto(t, place) == call' = [call EXCEPT ![t].at = place]

Begin(t, record) ==
  /\ At(t, "out")
  /\ calls < MaxCalls
  /\ calls' = calls + 1
  /\ call' = [call EXCEPT ![t] = record]

(* DSXEngine_New, DSXEngine_Create. *)
Create(t) ==
  \E e \in EngineId \ created :
    /\ Begin(t, [Out EXCEPT !.at = "acquire", !.engine = e, !.early = TRUE])
    /\ created' = created \cup {e}
    /\ UNCHANGED <<draconity_vars, server>>

(* DSXEngine_GetMicState, DSXEngine_SetMicState, DSXEngine_LoadGrammar.    *)
Use(t) ==
  \E e \in created :
    /\ Begin(t, [Out EXCEPT !.at = "acquire", !.engine = e])
    /\ UNCHANGED <<draconity_vars, created, server>>

(* The commands of a client: `ready`, and mic.set_state, whose call of     *)
(* _DSXEngine_SetMicState is hooked like Dragon's own; there may be no     *)
(* engine yet.                                                             *)
Command ==
  /\ server
  /\ Begin(Uv, [Out EXCEPT !.at = "lock"])
       \/ Begin(Uv, [Out EXCEPT !.at = "acquire", !.engine = engine])
  /\ UNCHANGED <<draconity_vars, created, server>>

(* draconity_attrib_changed, from an engine the callback is registered     *)
(* with, for SPEAKERCHANGED, MICON and MICSTATE, which asks for the state  *)
(* through the hook.  Dragon reports the microphone on one thread.         *)
AttribChanged(t) ==
  /\ \E e \in EngineId : registered[e] > 0
  /\ \/ Begin(t, [Out EXCEPT !.at = "speaker"])
     \/ /\ \A u \in Thread : ~call[u].mic
        /\ \/ Begin(t, [Out EXCEPT !.at = "micon", !.mic = TRUE])
           \/ Begin(t, [Out EXCEPT !.at = "acquire", !.engine = engine, !.mic = TRUE])
  /\ UNCHANGED <<draconity_vars, created, server>>

(* The network thread has created the server. *)
ServerUp ==
  /\ ~server
  /\ server' = TRUE
  /\ UNCHANGED <<draconity_vars, created, call, calls>>

----------------------------------------------------------------------------
(* engine_acquire and engine_setup. *)

(* draconity_publish: without a server the message is lost. *)
Publish(cmd) == told' = Append(told, [cmd |-> cmd, lost |-> ~server])

unheard_vars == <<created, server, calls>>

CheckEngine(t) ==
  /\ At(t, "acquire")
  /\ Goto(t, IF engine = NoEngine THEN "set" ELSE "ready?")
  /\ UNCHANGED <<draconity_vars, unheard_vars>>

(* Fault: only a call that is too early to be ready registers callbacks.   *)
SetEngine_EarlyOnly(t) ==
  /\ At(t, "set")
  /\ engine' = call[t].engine
  /\ Goto(t, IF call[t].early THEN "register" ELSE "ready?")
  /\ UNCHANGED <<registered, ready, micstate, readyLock, told, unheard_vars>>

(* Between the test and this another thread may have set the engine: then  *)
(* the last one stays, and both register.                                  *)
SetEngine(t) ==
  /\ At(t, "set")
  /\ engine' = call[t].engine
  /\ Goto(t, "register")
  /\ UNCHANGED <<registered, ready, micstate, readyLock, told, unheard_vars>>

(* The three callbacks are registered; an error is only logged. *)
Register(t) ==
  /\ At(t, "register")
  /\ registered' = [registered EXCEPT ![call[t].engine] = @ + 1]
  /\ Goto(t, "start")
  /\ UNCHANGED <<engine, ready, micstate, readyLock, told, unheard_vars>>

Start(t) ==
  /\ At(t, "start")
  /\ Publish("start")
  /\ Goto(t, "ready?")
  /\ UNCHANGED <<registered, engine, ready, micstate, readyLock, unheard_vars>>

(* Where a call is when engine_acquire or draconity_ready has returned.    *)
Return(t) ==
  call' = [call EXCEPT ![t] = IF @.mic THEN [@ EXCEPT !.at = "mic"] ELSE Out]

(* GetCurrentSpeaker is asked if Draconity is not ready: a speaker may be  *)
(* loaded or not.                                                          *)
CheckReady(t) ==
  /\ At(t, "ready?")
  /\ \/ ~call[t].early /\ ~ready /\ Goto(t, "lock")
     \/ Return(t)
  /\ UNCHANGED <<draconity_vars, unheard_vars>>

----------------------------------------------------------------------------
(* draconity_ready. *)

Lock(t) ==
  /\ At(t, "lock")
  /\ readyLock = NoThread
  /\ readyLock' = t
  /\ Goto(t, "announce")
  /\ UNCHANGED <<registered, engine, ready, micstate, told, unheard_vars>>

(* Fault: what was seen before the lock is not looked at again. *)
AnnounceReady_Unchecked(t) ==
  /\ At(t, "announce")
  /\ Publish("ready")
  /\ Goto(t, "mark")
  /\ UNCHANGED <<registered, engine, ready, micstate, readyLock, unheard_vars>>

(* Fault: whoever comes second returns with the lock. *)
AnnounceReady_Return(t) ==
  /\ At(t, "announce")
  /\ IF ready THEN Return(t) /\ UNCHANGED told
     ELSE Goto(t, "mark") /\ Publish("ready")
  /\ UNCHANGED <<registered, engine, ready, micstate, readyLock, unheard_vars>>

AnnounceReady(t) ==
  /\ At(t, "announce")
  /\ IF ready THEN Goto(t, "unlock") /\ UNCHANGED told
     ELSE Goto(t, "mark") /\ Publish("ready")
  /\ UNCHANGED <<registered, engine, ready, micstate, readyLock, unheard_vars>>

MarkReady(t) ==
  /\ At(t, "mark")
  /\ ready' = TRUE
  /\ Goto(t, "unlock")
  /\ UNCHANGED <<registered, engine, micstate, readyLock, told, unheard_vars>>

Unlock(t) ==
  /\ At(t, "unlock")
  /\ readyLock' = NoThread
  /\ Return(t)
  /\ UNCHANGED <<registered, engine, ready, micstate, told, unheard_vars>>

----------------------------------------------------------------------------
(* draconity_attrib_changed. *)

(* Where a call is over, nothing of it is left. *)
End(t) == call' = [call EXCEPT ![t] = Out]

(* Fault: the change is announced even where readiness is found out by it. *)
Speaker_Always(t) ==
  /\ At(t, "speaker")
  /\ Publish("speaker_change")
  /\ IF ready THEN End(t) ELSE Goto(t, "lock")
  /\ UNCHANGED <<registered, engine, ready, micstate, readyLock, unheard_vars>>

(* SPEAKERCHANGED: `ready` is read without the lock. *)
Speaker(t) ==
  /\ At(t, "speaker")
  /\ IF ready THEN End(t) /\ Publish("speaker_change")
     ELSE Goto(t, "lock") /\ UNCHANGED told
  /\ UNCHANGED <<registered, engine, ready, micstate, readyLock, unheard_vars>>

(* A status is told if none is recorded, or the same one. *)
TellMic(name) ==
  IF micstate \in {"unknown", name} THEN Publish(name) /\ micstate' = name ELSE UNCHANGED <<micstate, told>>

(* MICON, and MICSTATE once GetMicState has returned. *)
Mic(t) ==
  /\ \/ At(t, "micon") /\ TellMic("on")
     \/ At(t, "mic") /\ \E name \in MicState : TellMic(name)
  /\ End(t)
  /\ UNCHANGED <<registered, engine, ready, readyLock, unheard_vars>>

----------------------------------------------------------------------------

(* A thread goes on with its call. *)
Step(t) ==
  \/ CheckEngine(t) \/ SetEngine(t) \/ Register(t) \/ Start(t) \/ CheckReady(t)
  \/ Lock(t) \/ AnnounceReady(t) \/ MarkReady(t) \/ Unlock(t)
  \/ Speaker(t) \/ Mic(t)

Next ==
  \/ ServerUp \/ Command
  \/ \E t \in Thread : Create(t) \/ Use(t) \/ AttribChanged(t)
  \/ \E t \in Caller : Step(t)

Spec == Init /\ [][Next]_vars

(* Threads run, and whoever waits for readyLock gets it when it is free.   *)
FairSpec == Spec /\ \A t \in Caller : WF_vars(Step(t))

----------------------------------------------------------------------------

(* readyLock is held by the thread that is between its lock and unlock, so *)
(* that only one announces at a time.                                      *)
ReadyLockHeld ==
  \A t \in Caller : call[t].at \in {"announce", "mark", "unlock"} <=> readyLock = t

(* Draconity says it is ready once, whichever threads find out together.   *)
ReadyOnce ==
  \A i, j \in DOMAIN told : told[i].cmd = "ready" /\ told[j].cmd = "ready" => i = j

(* A change of speaker is announced after Draconity has said it is ready,  *)
(* although the callback reads `ready` without the lock.  (Both may be     *)
(* lost while there is no server, the first alone too.)                    *)
SpeakerChangeAfterReady ==
  \A i \in DOMAIN told :
    told[i].cmd = "speaker_change" => \E j \in 1 .. i - 1 : told[j].cmd = "ready"

(* The engine Draconity goes on with is one that calls it back, or that is *)
(* about to be asked to: also where two threads found none and both set    *)
(* theirs, and where a command has set NULL and another call finds one.    *)
EngineCallsBack ==
  engine # NoEngine =>
    registered[engine] > 0 \/ \E t \in Caller : At(t, "register") /\ call[t].engine = engine

(* Every hooked call, callback and command returns to its caller.          *)
CallsReturn == \A t \in Caller : call[t].at # "out" ~> call[t].at = "out"
=============================================================================
