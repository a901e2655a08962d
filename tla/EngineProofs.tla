---------------------------- MODULE EngineProofs ----------------------------
(***************************************************************************)
(* Getting hold of the engine, for any number of threads, engines and      *)
(* calls: readiness is announced once, before any change of speaker, and   *)
(* the engine that is known calls Draconity back.                          *)
(***************************************************************************)
EXTENDS Engine, TLAPS

(* Whether readiness has been announced. *)
ReadyTold == \E i \in DOMAIN told : told[i].cmd = "ready"

(* It has been if Draconity is ready or a thread is about to note it down, *)
(* and not otherwise.                                                      *)
ReadyNoted ==
  /\ ReadyTold <=> (ready \/ \E t \in Caller : At(t, "mark"))
  /\ \A t \in Caller : At(t, "mark") => ~ready

IInv ==
  /\ TypeOK
  /\ ReadyLockHeld
  /\ ReadyNoted
  /\ ReadyOnce
  /\ SpeakerChangeAfterReady
  /\ EngineCallsBack

----------------------------------------------------------------------------

(* What a message does to the history. *)
LEMMA AppendTold ==
  ASSUME NEW s \in Seq(Status), NEW e \in Status
  PROVE  /\ Append(s, e) \in Seq(Status)
         /\ DOMAIN Append(s, e) = 1 .. Len(s) + 1
         /\ DOMAIN s = 1 .. Len(s)
         /\ Len(s) \in Nat
         /\ \A i \in 1 .. Len(s) : Append(s, e)[i] = s[i]
         /\ Append(s, e)[Len(s) + 1] = e
  OBVIOUS

(* A message that does not announce readiness leaves what the history says *)
(* of it, and one that does makes it said.                                 *)
LEMMA Announced ==
  ASSUME TypeOK, NEW cmd \in {"start", "ready", "speaker_change", "on", "off"}, Publish(cmd)
  PROVE  /\ told' \in Seq(Status)
         /\ cmd # "ready" /\ ReadyOnce => ReadyOnce'
         /\ cmd = "ready" /\ ~ReadyTold => ReadyOnce'
         /\ ReadyTold' <=> (ReadyTold \/ cmd = "ready")
         /\ SpeakerChangeAfterReady /\ (cmd = "speaker_change" => ReadyTold)
              => SpeakerChangeAfterReady'
<1> DEFINE e == [cmd |-> cmd, lost |-> ~server]
<1>1. e \in Status /\ e.cmd = cmd /\ told' = Append(told, e) /\ told \in Seq(Status)
  BY DEF Publish, Status, TypeOK
<1> HIDE DEF e
<1>2. /\ told' \in Seq(Status)
      /\ DOMAIN told' = 1 .. Len(told) + 1 /\ DOMAIN told = 1 .. Len(told)
      /\ Len(told) \in Nat
      /\ \A i \in 1 .. Len(told) : told'[i] = told[i]
      /\ told'[Len(told) + 1].cmd = cmd
  BY <1>1, AppendTold
<1>3. cmd # "ready" /\ ReadyOnce => ReadyOnce'
  BY <1>2 DEF ReadyOnce
<1>4. cmd = "ready" /\ ~ReadyTold => ReadyOnce'
  BY <1>2 DEF ReadyOnce, ReadyTold
<1>5. ReadyTold' <=> (ReadyTold \/ cmd = "ready")
  BY <1>2 DEF ReadyTold
<1>6. ASSUME SpeakerChangeAfterReady, cmd = "speaker_change" => ReadyTold
      PROVE  SpeakerChangeAfterReady'
  <2> SUFFICES ASSUME NEW i \in 1 .. Len(told) + 1, told'[i].cmd = "speaker_change"
               PROVE  \E j \in 1 .. i - 1 : told'[j].cmd = "ready"
    BY <1>2 DEF SpeakerChangeAfterReady
  <2>1. CASE i \in 1 .. Len(told)
    BY <1>2, <1>6, <2>1 DEF SpeakerChangeAfterReady
  <2>2. CASE i = Len(told) + 1
    BY <1>2, <1>6, <2>2 DEF ReadyTold
  <2> QED
    BY <1>2, <2>1, <2>2
<1> QED
  BY <1>2, <1>3, <1>4, <1>5, <1>6

(* Where a step leaves its own call and those of the others. *)
LEMMA GotoCall ==
  ASSUME TypeOK, NEW t \in Caller, NEW place, Goto(t, place),
         place \in {"set", "register", "start", "ready?", "lock", "announce", "mark", "unlock"}
  PROVE  /\ call' \in [Caller -> Call]
         /\ call'[t].at = place /\ call'[t].engine = call[t].engine
         /\ \A u \in Caller \ {t} : call'[u] = call[u]
  BY DEF TypeOK, Goto, Call

(* The initial states satisfy the invariant. *)
LEMMA InvInit == Init => IInv
<1> SUFFICES ASSUME Init PROVE IInv
  OBVIOUS
<1> USE DEF Init
<1>1. call \in [Caller -> Call]
  BY DEF Out, Call
<1>2. TypeOK
  <2>1. told \in Seq(Status)
    OBVIOUS
  <2>2. registered \in [EngineId \cup {NoEngine} -> Nat]
    OBVIOUS
  <2>3. calls \in 0 .. MaxCalls
    BY EngineAssumption
  <2> QED
    BY <1>1, <2>1, <2>2, <2>3 DEF TypeOK
<1>3. \A t \in Caller : call[t].at = "out"
  BY DEF Out
<1>4. ReadyLockHeld
  BY <1>3, EngineAssumption DEF ReadyLockHeld, Caller
<1>5. ReadyNoted /\ ReadyOnce /\ SpeakerChangeAfterReady
  BY <1>3 DEF ReadyNoted, ReadyTold, ReadyOnce, SpeakerChangeAfterReady, At
<1>6. EngineCallsBack
  BY DEF EngineCallsBack
<1> QED
  BY <1>2, <1>4, <1>5, <1>6 DEF IInv

(* How a call begins, for an engine or for none. *)
LEMMA BeginCall ==
  ASSUME TypeOK, NEW t \in Caller, NEW record \in Call, Begin(t, record),
         record.at \in {"acquire", "lock", "speaker", "micon"}
  PROVE  /\ calls' \in 0 .. MaxCalls
         /\ call' \in [Caller -> Call]
         /\ call[t].at = "out" /\ call'[t].at = record.at
         /\ \A u \in Caller \ {t} : call'[u] = call[u]
<1>1. calls' \in 0 .. MaxCalls
  BY EngineAssumption DEF Begin, TypeOK
<1>2. /\ call' \in [Caller -> Call]
      /\ call[t].at = "out" /\ call'[t] = record
      /\ \A u \in Caller \ {t} : call'[u] = call[u]
  BY DEF Begin, TypeOK, At
<1> QED
  BY <1>1, <1>2

(* How a call is over, or goes on to the microphone. *)
LEMMA EndCall ==
  ASSUME TypeOK, NEW t \in Caller, Return(t) \/ End(t)
  PROVE  /\ call' \in [Caller -> Call]
         /\ call'[t].at \in {"out", "mic"}
         /\ \A u \in Caller \ {t} : call'[u] = call[u]
<1>1. Out \in Call /\ Out.at = "out"
  BY DEF Out, Call
<1>2. [call[t] EXCEPT !.at = "mic"] \in Call /\ [call[t] EXCEPT !.at = "mic"].at = "mic"
  BY DEF TypeOK, Call
<1>3. \E r \in Call : r.at \in {"out", "mic"} /\ call' = [call EXCEPT ![t] = r]
  BY <1>1, <1>2 DEF Return, End
<1> QED
  BY <1>3 DEF TypeOK

(* A step keeps the engine called back if it sets none and takes no thread *)
(* from registering.                                                       *)
LEMMA StillCallsBack ==
  ASSUME EngineCallsBack, UNCHANGED <<engine, registered>>, NEW t \in Caller, ~At(t, "register"),
         \A u \in Caller \ {t} : call'[u] = call[u]
  PROVE  EngineCallsBack'
  BY DEF EngineCallsBack, At

(* A step that changes only one call, and that between two places no part  *)
(* of the invariant speaks of, keeps the invariant.                        *)
LEMMA Elsewhere ==
  ASSUME IInv, NEW t \in Caller,
         call' \in [Caller -> Call],
         call[t].at \notin {"set", "register", "announce", "mark", "unlock"},
         call'[t].at \notin {"set", "register", "announce", "mark", "unlock"},
         \A u \in Caller \ {t} : call'[u] = call[u],
         UNCHANGED <<registered, engine, ready, readyLock, told>>
  PROVE  /\ ReadyLockHeld' /\ ReadyNoted' /\ ReadyOnce'
         /\ SpeakerChangeAfterReady' /\ EngineCallsBack'
<1> USE DEF IInv
<1>1. ReadyLockHeld'
  BY DEF ReadyLockHeld
<1>2. ReadyNoted'
  BY DEF ReadyNoted, ReadyTold, At
<1>3. ReadyOnce' /\ SpeakerChangeAfterReady'
  BY DEF ReadyOnce, SpeakerChangeAfterReady
<1>4. EngineCallsBack'
  BY StillCallsBack DEF At
<1> QED
  BY <1>1, <1>2, <1>3, <1>4

(* The step of the network thread, and those that begin a call. *)
LEMMA InvBegin ==
  ASSUME IInv, ServerUp \/ Command \/ \E t \in Thread : Create(t) \/ Use(t) \/ AttribChanged(t)
  PROVE  IInv'
<1> USE DEF IInv, TypeOK
<1>1. CASE ServerUp
  BY <1>1 DEF ServerUp, draconity_vars, ReadyLockHeld, ReadyNoted, ReadyTold, ReadyOnce,
              SpeakerChangeAfterReady, EngineCallsBack, At
<1>2. ASSUME NEW t \in Caller, NEW record \in Call, Begin(t, record),
             record.at \in {"acquire", "lock", "speaker", "micon"},
             UNCHANGED <<draconity_vars, server>>,
             created' \subseteq EngineId
      PROVE  IInv'
  <2>1. /\ calls' \in 0 .. MaxCalls /\ call' \in [Caller -> Call]
        /\ call[t].at = "out" /\ call'[t].at = record.at
        /\ \A u \in Caller \ {t} : call'[u] = call[u]
    BY <1>2, BeginCall
  <2>2. UNCHANGED <<registered, engine, ready, micstate, readyLock, told, server>>
    BY <1>2 DEF draconity_vars
  <2>3. TypeOK'
    BY <1>2, <2>1, <2>2
  <2>4. /\ ReadyLockHeld' /\ ReadyNoted' /\ ReadyOnce'
        /\ SpeakerChangeAfterReady' /\ EngineCallsBack'
    BY <1>2, <2>1, <2>2, Elsewhere
  <2> QED
    BY <2>3, <2>4
<1>3. /\ [Out EXCEPT !.at = "lock"] \in Call /\ [Out EXCEPT !.at = "lock"].at = "lock"
      /\ [Out EXCEPT !.at = "speaker"] \in Call /\ [Out EXCEPT !.at = "speaker"].at = "speaker"
      /\ [Out EXCEPT !.at = "micon", !.mic = TRUE] \in Call
      /\ [Out EXCEPT !.at = "micon", !.mic = TRUE].at = "micon"
      /\ \A e \in EngineId \cup {NoEngine} :
           /\ [Out EXCEPT !.at = "acquire", !.engine = e] \in Call
           /\ [Out EXCEPT !.at = "acquire", !.engine = e].at = "acquire"
           /\ [Out EXCEPT !.at = "acquire", !.engine = e, !.early = TRUE] \in Call
           /\ [Out EXCEPT !.at = "acquire", !.engine = e, !.early = TRUE].at = "acquire"
           /\ [Out EXCEPT !.at = "acquire", !.engine = e, !.mic = TRUE] \in Call
           /\ [Out EXCEPT !.at = "acquire", !.engine = e, !.mic = TRUE].at = "acquire"
  BY DEF Out, Call
<1>4. CASE Command
  <2>1. Uv \in Caller /\ UNCHANGED <<draconity_vars, server, created>>
    BY <1>4 DEF Command, Caller
  <2>2. CASE Begin(Uv, [Out EXCEPT !.at = "lock"])
    BY <1>2, <1>3, <2>1, <2>2
  <2>3. CASE Begin(Uv, [Out EXCEPT !.at = "acquire", !.engine = engine])
    BY <1>2, <1>3, <2>1, <2>3
  <2> QED
    BY <1>4, <2>2, <2>3 DEF Command
<1>5. ASSUME NEW t \in Thread, Create(t) PROVE IInv'
  <2>1. PICK e \in EngineId \ created :
          /\ Begin(t, [Out EXCEPT !.at = "acquire", !.engine = e, !.early = TRUE])
          /\ created' = created \cup {e}
          /\ UNCHANGED <<draconity_vars, server>>
    BY <1>5 DEF Create
  <2>2. t \in Caller
    BY DEF Caller
  <2> QED
    BY <1>2, <1>3, <2>1, <2>2
<1>6. ASSUME NEW t \in Thread, Use(t) PROVE IInv'
  <2>1. PICK e \in created :
          /\ Begin(t, [Out EXCEPT !.at = "acquire", !.engine = e])
          /\ UNCHANGED <<draconity_vars, created, server>>
    BY <1>6 DEF Use
  <2>2. t \in Caller
    BY DEF Caller
  <2> QED
    BY <1>2, <1>3, <2>1, <2>2
<1>7. ASSUME NEW t \in Thread, AttribChanged(t) PROVE IInv'
  <2>1. t \in Caller /\ UNCHANGED <<draconity_vars, created, server>>
    BY <1>7 DEF AttribChanged, Caller
  <2>2. CASE Begin(t, [Out EXCEPT !.at = "speaker"])
    BY <1>2, <1>3, <2>1, <2>2
  <2>3. CASE Begin(t, [Out EXCEPT !.at = "micon", !.mic = TRUE])
    BY <1>2, <1>3, <2>1, <2>3
  <2>4. CASE Begin(t, [Out EXCEPT !.at = "acquire", !.engine = engine, !.mic = TRUE])
    BY <1>2, <1>3, <2>1, <2>4
  <2> QED
    BY <1>7, <2>2, <2>3, <2>4 DEF AttribChanged
<1> QED
  BY <1>1, <1>4, <1>5, <1>6, <1>7

(* The steps of engine_acquire and engine_setup. *)
LEMMA InvAcquire ==
  ASSUME IInv, NEW t \in Caller,
         CheckEngine(t) \/ SetEngine(t) \/ Register(t) \/ Start(t) \/ CheckReady(t)
  PROVE  IInv'
<1> USE DEF IInv
<1>1. CASE CheckEngine(t)
  <2> USE <1>1 DEF CheckEngine
  <2>1. /\ call' \in [Caller -> Call]
        /\ call[t].at = "acquire" /\ call'[t].at \in {"set", "ready?"}
        /\ \A u \in Caller \ {t} : call'[u] = call[u]
    BY GotoCall DEF At
  <2>2. UNCHANGED <<registered, engine, ready, micstate, readyLock, told, created, server, calls>>
    BY DEF unheard_vars, draconity_vars
  <2>3. TypeOK'
    BY <2>1, <2>2 DEF TypeOK
  <2>4. ReadyLockHeld' /\ ReadyOnce' /\ SpeakerChangeAfterReady'
    BY <2>1, <2>2 DEF ReadyLockHeld, ReadyOnce, SpeakerChangeAfterReady
  <2>5. ReadyNoted'
    BY <2>1, <2>2 DEF ReadyNoted, ReadyTold, At
  <2>6. EngineCallsBack'
    BY <2>1, <2>2, StillCallsBack DEF At
  <2> QED
    BY <2>3, <2>4, <2>5, <2>6
<1>2. CASE SetEngine(t)
  <2> USE <1>2 DEF SetEngine
  <2>1. /\ call' \in [Caller -> Call]
        /\ call[t].at = "set" /\ call'[t].at = "register" /\ call'[t].engine = call[t].engine
        /\ \A u \in Caller \ {t} : call'[u] = call[u]
    BY GotoCall DEF At
  <2>2. UNCHANGED <<registered, ready, micstate, readyLock, told, created, server, calls>>
    BY DEF unheard_vars
  <2>3. engine' \in EngineId \cup {NoEngine} /\ engine' = call[t].engine
    BY DEF TypeOK, Call
  <2>4. TypeOK'
    BY <2>1, <2>2, <2>3 DEF TypeOK
  <2>5. ReadyLockHeld' /\ ReadyOnce' /\ SpeakerChangeAfterReady'
    BY <2>1, <2>2 DEF ReadyLockHeld, ReadyOnce, SpeakerChangeAfterReady
  <2>6. ReadyNoted'
    BY <2>1, <2>2 DEF ReadyNoted, ReadyTold, At
  <2>7. EngineCallsBack'
    BY <2>1, <2>3 DEF EngineCallsBack, At
  <2> QED
    BY <2>4, <2>5, <2>6, <2>7
<1>3. CASE Register(t)
  <2> USE <1>3 DEF Register
  <2>1. /\ call' \in [Caller -> Call]
        /\ call[t].at = "register" /\ call'[t].at = "start"
        /\ call[t].engine \in EngineId \cup {NoEngine}
        /\ \A u \in Caller \ {t} : call'[u] = call[u]
    BY GotoCall DEF At, TypeOK, Call
  <2>2. UNCHANGED <<engine, ready, micstate, readyLock, told, created, server, calls>>
    BY DEF unheard_vars
  <2>3. /\ registered' \in [EngineId \cup {NoEngine} -> Nat]
        /\ registered'[call[t].engine] = registered[call[t].engine] + 1
        /\ \A e \in EngineId : e # call[t].engine => registered'[e] = registered[e]
    BY <2>1 DEF TypeOK
  <2>4. TypeOK'
    BY <2>1, <2>2, <2>3 DEF TypeOK
  <2>5. ReadyLockHeld' /\ ReadyOnce' /\ SpeakerChangeAfterReady'
    BY <2>1, <2>2 DEF ReadyLockHeld, ReadyOnce, SpeakerChangeAfterReady
  <2>6. ReadyNoted'
    BY <2>1, <2>2 DEF ReadyNoted, ReadyTold, At
  <2>7. EngineCallsBack'
    <3>1. CASE engine = call[t].engine
      BY <2>2, <2>3, <3>1 DEF EngineCallsBack, TypeOK
    <3>2. CASE engine \in EngineId /\ engine # call[t].engine
      <4>1. registered'[engine'] = registered[engine]
        BY <2>2, <2>3, <3>2
      <4>2. \A u \in Caller : At(u, "register") /\ call[u].engine = engine
              => At(u, "register")' /\ call'[u].engine = engine'
        BY <2>1, <2>2, <3>2 DEF At
      <4> QED
        BY <2>2, <4>1, <4>2 DEF EngineCallsBack
    <3> QED
      BY <2>2, <3>1, <3>2 DEF EngineCallsBack, TypeOK
  <2> QED
    BY <2>4, <2>5, <2>6, <2>7
<1>4. CASE Start(t)
  <2> USE <1>4 DEF Start
  <2>1. /\ call' \in [Caller -> Call]
        /\ call[t].at = "start" /\ call'[t].at = "ready?"
        /\ \A u \in Caller \ {t} : call'[u] = call[u]
    BY GotoCall DEF At
  <2>2. UNCHANGED <<registered, engine, ready, micstate, readyLock, created, server, calls>>
    BY DEF unheard_vars
  <2>3. /\ told' \in Seq(Status) /\ ReadyOnce' /\ SpeakerChangeAfterReady'
        /\ ReadyTold' <=> ReadyTold
    BY Announced
  <2>4. TypeOK'
    BY <2>1, <2>2, <2>3 DEF TypeOK
  <2>5. ReadyLockHeld'
    BY <2>1, <2>2 DEF ReadyLockHeld
  <2>6. ReadyNoted'
    BY <2>1, <2>2, <2>3 DEF ReadyNoted, At
  <2>7. EngineCallsBack'
    BY <2>1, <2>2, StillCallsBack DEF At
  <2> QED
    BY <2>3, <2>4, <2>5, <2>6, <2>7
<1>5. CASE CheckReady(t)
  <2> USE <1>5 DEF CheckReady
  <2>1. /\ call' \in [Caller -> Call]
        /\ call[t].at = "ready?" /\ call'[t].at \in {"lock", "out", "mic"}
        /\ \A u \in Caller \ {t} : call'[u] = call[u]
    BY GotoCall, EndCall DEF At
  <2>2. UNCHANGED <<registered, engine, ready, micstate, readyLock, told, created, server, calls>>
    BY DEF unheard_vars, draconity_vars
  <2>3. TypeOK'
    BY <2>1, <2>2 DEF TypeOK
  <2> QED
    BY <2>1, <2>2, <2>3, Elsewhere
<1> QED
  BY <1>1, <1>2, <1>3, <1>4, <1>5

(* The steps of draconity_ready. *)
LEMMA InvReady ==
  ASSUME IInv, NEW t \in Caller,
         Lock(t) \/ AnnounceReady(t) \/ MarkReady(t) \/ Unlock(t)
  PROVE  IInv'
<1> USE DEF IInv
<1> DEFINE Kept == UNCHANGED <<registered, engine, micstate, created, server, calls>>
<1> HIDE DEF Kept
(* Registering takes no part in this. *)
<1>0. ASSUME Kept, call' \in [Caller -> Call],
             call[t].at \in {"lock", "announce", "mark", "unlock"},
             \A u \in Caller \ {t} : call'[u] = call[u]
      PROVE  EngineCallsBack'
  BY <1>0, StillCallsBack DEF At, Kept
<1>1. CASE Lock(t)
  <2> USE <1>1 DEF Lock
  <2>1. /\ call' \in [Caller -> Call]
        /\ call[t].at = "lock" /\ call'[t].at = "announce"
        /\ \A u \in Caller \ {t} : call'[u] = call[u]
    BY GotoCall DEF At
  <2>2. Kept /\ UNCHANGED <<ready, told>>
    BY DEF unheard_vars, Kept
  <2>3. TypeOK'
    BY <2>1, <2>2 DEF TypeOK, Kept
  <2>4. ReadyLockHeld'
    BY <2>1, EngineAssumption DEF ReadyLockHeld, Caller
  <2>5. ReadyNoted' /\ ReadyOnce' /\ SpeakerChangeAfterReady'
    BY <2>1, <2>2 DEF ReadyNoted, ReadyTold, At, ReadyOnce, SpeakerChangeAfterReady
  <2> QED
    BY <1>0, <2>1, <2>2, <2>3, <2>4, <2>5
<1>2. CASE AnnounceReady(t)
  <2> USE <1>2 DEF AnnounceReady
  <2>1. /\ call' \in [Caller -> Call]
        /\ call[t].at = "announce" /\ call'[t].at \in {"unlock", "mark"}
        /\ call'[t].at = "unlock" <=> ready
        /\ \A u \in Caller \ {t} : call'[u] = call[u]
    BY GotoCall DEF At
  <2>2. Kept /\ UNCHANGED <<ready, readyLock>>
    BY DEF unheard_vars, Kept
  <2>3. \A u \in Caller : ~At(u, "mark")
    BY <2>1 DEF ReadyLockHeld, At
  <2>4. /\ told' \in Seq(Status) /\ ReadyOnce' /\ SpeakerChangeAfterReady'
        /\ ReadyTold'
    <3>1. CASE ready
      BY <3>1 DEF TypeOK, ReadyOnce, SpeakerChangeAfterReady, ReadyNoted, ReadyTold
    <3>2. CASE ~ready
      BY <2>3, <3>2, Announced DEF ReadyNoted
    <3> QED
      BY <3>1, <3>2
  <2>5. TypeOK'
    BY <2>1, <2>2, <2>4 DEF TypeOK, Kept
  <2>6. ReadyLockHeld'
    BY <2>1, <2>2 DEF ReadyLockHeld
  <2>7. ReadyNoted'
    BY <2>1, <2>2, <2>3, <2>4 DEF ReadyNoted, At
  <2> QED
    BY <1>0, <2>1, <2>2, <2>4, <2>5, <2>6, <2>7
<1>3. CASE MarkReady(t)
  <2> USE <1>3 DEF MarkReady
  <2>1. /\ call' \in [Caller -> Call]
        /\ call[t].at = "mark" /\ call'[t].at = "unlock"
        /\ \A u \in Caller \ {t} : call'[u] = call[u]
    BY GotoCall DEF At
  <2>2. Kept /\ UNCHANGED <<told, readyLock>>
    BY DEF unheard_vars, Kept
  <2>3. TypeOK'
    BY <2>1, <2>2 DEF TypeOK, Kept
  <2>4. ReadyLockHeld'
    BY <2>1, <2>2 DEF ReadyLockHeld
  <2>5. \A u \in Caller : ~At(u, "mark")'
    BY <2>1 DEF ReadyLockHeld, At
  <2>6. ReadyNoted' /\ ReadyOnce' /\ SpeakerChangeAfterReady'
    BY <2>1, <2>2, <2>5 DEF ReadyNoted, ReadyTold, At, ReadyOnce, SpeakerChangeAfterReady
  <2> QED
    BY <1>0, <2>1, <2>2, <2>3, <2>4, <2>6
<1>4. CASE Unlock(t)
  <2> USE <1>4 DEF Unlock
  <2>1. /\ call' \in [Caller -> Call]
        /\ call[t].at = "unlock" /\ call'[t].at \in {"out", "mic"}
        /\ \A u \in Caller \ {t} : call'[u] = call[u]
    BY EndCall DEF At
  <2>2. Kept /\ UNCHANGED <<told, ready>>
    BY DEF unheard_vars, Kept
  <2>3. TypeOK'
    BY <2>1, <2>2 DEF TypeOK, Kept
  <2>4. ReadyLockHeld'
    BY <2>1, EngineAssumption DEF ReadyLockHeld, Caller
  <2>5. ReadyNoted' /\ ReadyOnce' /\ SpeakerChangeAfterReady'
    BY <2>1, <2>2 DEF ReadyNoted, ReadyTold, At, ReadyOnce, SpeakerChangeAfterReady
  <2> QED
    BY <1>0, <2>1, <2>2, <2>3, <2>4, <2>5
<1> QED
  BY <1>1, <1>2, <1>3, <1>4

(* The steps of draconity_attrib_changed. *)
LEMMA InvAttrib ==
  ASSUME IInv, NEW t \in Caller, Speaker(t) \/ Mic(t)
  PROVE  IInv'
<1> USE DEF IInv
<1>1. /\ call' \in [Caller -> Call]
      /\ call[t].at \in {"speaker", "micon", "mic"} /\ call'[t].at \in {"out", "lock", "mic"}
      /\ \A u \in Caller \ {t} : call'[u] = call[u]
  BY GotoCall, EndCall DEF At, Speaker, Mic
<1>2. UNCHANGED <<registered, engine, ready, readyLock, created, server, calls>>
  BY DEF unheard_vars, Speaker, Mic
<1>3. /\ told' \in Seq(Status) /\ micstate' \in MicState \cup {"unknown"}
      /\ ReadyOnce' /\ SpeakerChangeAfterReady' /\ (ReadyTold' <=> ReadyTold)
  <2>1. CASE told' = told /\ micstate' = micstate
    BY <2>1 DEF ReadyTold, ReadyOnce, SpeakerChangeAfterReady, TypeOK
  <2>2. CASE Publish("speaker_change") /\ ready /\ micstate' = micstate
    BY <2>2, Announced DEF ReadyNoted, TypeOK
  <2>3. ASSUME NEW name \in MicState, Publish(name), micstate' = name
        PROVE  /\ told' \in Seq(Status) /\ micstate' \in MicState \cup {"unknown"}
               /\ ReadyOnce' /\ SpeakerChangeAfterReady' /\ (ReadyTold' <=> ReadyTold)
    BY <2>3, Announced DEF MicState
  <2> QED
    BY <2>1, <2>2, <2>3 DEF Speaker, Mic, TellMic, MicState
<1>4. TypeOK'
  BY <1>1, <1>2, <1>3 DEF TypeOK
<1>5. ReadyLockHeld'
  BY <1>1, <1>2 DEF ReadyLockHeld
<1>6. ReadyNoted'
  BY <1>1, <1>2, <1>3 DEF ReadyNoted, At
<1>7. EngineCallsBack'
  BY <1>1, <1>2, StillCallsBack DEF At
<1> QED
  BY <1>3, <1>4, <1>5, <1>6, <1>7

----------------------------------------------------------------------------

(* The invariant of the engine's life cycle, with its types. *)
THEOREM EngineInvariant == Spec => []IInv
<1>1. IInv /\ [Next]_vars => IInv'
  <2> SUFFICES ASSUME IInv, [Next]_vars PROVE IInv'
    OBVIOUS
  <2>1. CASE UNCHANGED vars
    BY <2>1 DEF vars, IInv, TypeOK, ReadyLockHeld, ReadyNoted, ReadyTold, ReadyOnce,
                SpeakerChangeAfterReady, EngineCallsBack, At
  <2>2. ASSUME NEW t \in Caller, Step(t) PROVE IInv'
    BY <2>2, InvAcquire, InvReady, InvAttrib DEF Step
  <2> QED
    BY <2>1, <2>2, InvBegin DEF Next
<1> QED
  BY <1>1, InvInit, PTL DEF Spec

(* readyLock is held by exactly the thread that announces readiness. *)
THEOREM ReadyLockHeldHolds == Spec => []ReadyLockHeld
<1>1. IInv => ReadyLockHeld
  BY DEF IInv
<1> QED
  BY <1>1, EngineInvariant, PTL

(* Readiness is announced once, however many threads and engines there are.*)
THEOREM ReadyOnceHolds == Spec => []ReadyOnce
<1>1. IInv => ReadyOnce
  BY DEF IInv
<1> QED
  BY <1>1, EngineInvariant, PTL

(* No change of speaker is announced before readiness is. *)
THEOREM SpeakerChangeAfterReadyHolds == Spec => []SpeakerChangeAfterReady
<1>1. IInv => SpeakerChangeAfterReady
  BY DEF IInv
<1> QED
  BY <1>1, EngineInvariant, PTL

(* The engine that is known has Draconity's callbacks, or a thread is      *)
(* about to register them, whichever threads and commands raced to set it. *)
THEOREM EngineCallsBackHolds == Spec => []EngineCallsBack
<1>1. IInv => EngineCallsBack
  BY DEF IInv
<1> QED
  BY <1>1, EngineInvariant, PTL
=============================================================================
