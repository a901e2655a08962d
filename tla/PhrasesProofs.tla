---------------------------- MODULE PhrasesProofs ----------------------------
(***************************************************************************)
(* Phrases for any number of clients, grammars, addresses and callbacks.   *)
(* The invariants are proved in layers, each with the help of those before *)
(* it: types; Dragon's phrase thread is idle whenever the table changes;   *)
(* the keys are live; a callback no change of the table overlapped holds   *)
(* the grammar Dragon meant; messages are numbered in order.               *)
(***************************************************************************)
EXTENDS Phrases, TLAPS

(* What a thread knows in a callback. *)
Knows ==
  \A th \in Thread :
    /\ callback[th].at # "idle" =>
         /\ callback[th].key \in Key /\ callback[th].meant \in Name
         /\ callback[th].kind \in Kind(th) /\ callback[th].number \in 1 .. MaxPhrases
    /\ callback[th].at = "publish" => callback[th].name \in Name /\ callback[th].client \in ClientId

TypeInv == TypeOK /\ Knows

(* The table changes while the phrase thread is idle.  *)
Quiet ==
  /\ held => callback["phrase"].at = "idle"
  /\ ~callback["phrase"].disturbed

(* A callback that the table has not changed under holds what was meant.   *)
HoldsMeant ==
  \A th \in Thread :
    callback[th].at # "idle" /\ ~callback[th].disturbed =>
      /\ grammars[callback[th].meant].key = callback[th].key
      /\ grammars[callback[th].meant].client = callback[th].owner
      /\ callback[th].at = "publish" => callback[th].name = callback[th].meant

(* Messages that come from the same thread. *)
SameThread(m, n) == m.kind = "p.hypothesis" <=> n.kind = "p.hypothesis"

(* What has been written is older than what is queued, which is older than *)
(* what is being made, thread by thread.                                   *)
Ordered ==
  /\ \A th \in Thread : callback[th].number <= phrases
  /\ \A i \in DOMAIN queue :
       /\ queue[i].number <= phrases
       /\ \A j \in DOMAIN queue :
            i < j /\ SameThread(queue[i], queue[j]) => queue[i].number < queue[j].number
       /\ \A th \in Thread :
            callback[th].at # "idle" /\ SameThread(queue[i], callback[th])
              => queue[i].number < callback[th].number
       /\ \A c \in ClientId : \A j \in DOMAIN received[c] :
            SameThread(queue[i], received[c][j]) => received[c][j].number < queue[i].number
  /\ \A c \in ClientId : \A i \in DOMAIN received[c] :
       /\ received[c][i].number <= phrases
       /\ \A th \in Thread :
            callback[th].at # "idle" /\ SameThread(received[c][i], callback[th])
              => received[c][i].number < callback[th].number

----------------------------------------------------------------------------

LEMMA AppendSeq ==
  ASSUME NEW S, NEW s \in Seq(S), NEW e \in S
  PROVE  /\ Append(s, e) \in Seq(S)
         /\ DOMAIN Append(s, e) = 1 .. Len(s) + 1 /\ DOMAIN s = 1 .. Len(s) /\ Len(s) \in Nat
         /\ \A i \in 1 .. Len(s) : Append(s, e)[i] = s[i]
         /\ Append(s, e)[Len(s) + 1] = e
  OBVIOUS

LEMMA TailSeq ==
  ASSUME NEW S, NEW s \in Seq(S), s # <<>>
  PROVE  /\ Head(s) \in S /\ Head(s) = s[1] /\ Tail(s) \in Seq(S)
         /\ Len(s) \in Nat \ {0} /\ DOMAIN s = 1 .. Len(s) /\ DOMAIN Tail(s) = 1 .. Len(s) - 1
         /\ \A i \in 1 .. Len(s) - 1 : Tail(s)[i] = s[i + 1]
  OBVIOUS

(* The idle callback. *)
LEMMA IdleCallback ==
  Idle \in Callback /\ Idle.at = "idle" /\ Idle.number = 0 /\ ~Idle.disturbed
  BY PhrasesAssumption DEF Idle, Callback

(* A change of the table disturbs the callbacks under way. *)
LEMMA DisturbedCallbacks ==
  ASSUME TypeOK
  PROVE  /\ Disturbed \in [Thread -> Callback]
         /\ \A th \in Thread :
              /\ callback[th].at = "idle" => Disturbed[th] = callback[th]
              /\ callback[th].at # "idle" => Disturbed[th].disturbed
              /\ Disturbed[th].at = callback[th].at /\ Disturbed[th].key = callback[th].key
              /\ Disturbed[th].name = callback[th].name
              /\ Disturbed[th].client = callback[th].client
              /\ Disturbed[th].kind = callback[th].kind
              /\ Disturbed[th].number = callback[th].number
              /\ Disturbed[th].meant = callback[th].meant
<1> SUFFICES ASSUME NEW th \in Thread
             PROVE  /\ Disturbed[th] \in Callback
                    /\ callback[th].at = "idle" => Disturbed[th] = callback[th]
                    /\ callback[th].at # "idle" => Disturbed[th].disturbed
                    /\ Disturbed[th].at = callback[th].at /\ Disturbed[th].key = callback[th].key
                    /\ Disturbed[th].name = callback[th].name
                    /\ Disturbed[th].client = callback[th].client
                    /\ Disturbed[th].kind = callback[th].kind
                    /\ Disturbed[th].number = callback[th].number
                    /\ Disturbed[th].meant = callback[th].meant
  BY DEF Disturbed
<1>1. callback[th] \in Callback
  BY DEF TypeOK
<1>2. CASE callback[th].at = "idle"
  BY <1>1, <1>2 DEF Disturbed
<1>3. CASE callback[th].at # "idle"
  <2>1. Disturbed[th] = [callback[th] EXCEPT !.disturbed = TRUE]
    BY <1>3 DEF Disturbed
  <2> QED
    BY <1>1, <1>3, <2>1 DEF Callback
<1> QED
  BY <1>2, <1>3

(* What a callback is when Dragon has made it. *)
LEMMA ReportCallback ==
  ASSUME TypeInv, NEW th \in Thread, Report(th)
  PROVE  /\ ~held /\ callback[th].at = "idle" /\ phrases' = phrases + 1 /\ phrases' \in 1 .. MaxPhrases
         /\ callback' \in [Thread -> Callback]
         /\ \A u \in Thread \ {th} : callback'[u] = callback[u]
         /\ callback'[th].at = "search" /\ callback'[th].kind \in Kind(th)
         /\ callback'[th].number = phrases' /\ ~callback'[th].disturbed
         /\ callback'[th].key \in Key /\ callback'[th].meant \in Name
         /\ \E g \in loaded :
              /\ callback'[th].key = g.key /\ callback'[th].meant = g.name
              /\ callback'[th].owner = grammars[g.name].client
<1> USE DEF TypeInv, TypeOK
<1>1. /\ ~held /\ callback[th].at = "idle" /\ phrases' = phrases + 1
      /\ phrases' \in 1 .. MaxPhrases
  BY PhrasesAssumption DEF Report
<1>2. PICK g \in loaded, kind \in Kind(th) :
        callback' = [callback EXCEPT ![th] =
          [Idle EXCEPT !.at = "search", !.key = g.key, !.kind = kind, !.number = phrases',
                       !.meant = g.name, !.owner = grammars[g.name].client]]
  BY DEF Report
<1> DEFINE cb == [Idle EXCEPT !.at = "search", !.key = g.key, !.kind = kind, !.number = phrases',
                              !.meant = g.name, !.owner = grammars[g.name].client]
<1>3. g.key \in Key /\ g.name \in Name
  OBVIOUS
<1>4. grammars[g.name].client \in ClientId \cup {Nothing}
  BY <1>3 DEF Grammar
<1>5. kind \in {"p.begin", "p.hypothesis", "p.end"}
  BY DEF Kind
<1>6. phrases' \in 0 .. MaxPhrases
  BY <1>1
<1>7. /\ cb.at = "search" /\ cb.key = g.key /\ cb.kind = kind /\ cb.number = phrases'
      /\ cb.meant = g.name /\ cb.owner = grammars[g.name].client /\ cb.disturbed = FALSE
      /\ cb \in Callback
  BY <1>3, <1>4, <1>5, <1>6 DEF Idle, Callback
<1> HIDE DEF cb
<1>8. callback' = [callback EXCEPT ![th] = cb]
  BY <1>2 DEF cb
<1>9. callback' \in [Thread -> Callback] /\ callback'[th] = cb
      /\ \A u \in Thread \ {th} : callback'[u] = callback[u]
  BY <1>7, <1>8
<1> QED
  BY <1>1, <1>3, <1>7, <1>9

(* What a callback has found when get_grammar returns. *)
LEMMA SearchCallback ==
  ASSUME TypeInv, NEW th \in Thread, Search(th)
  PROVE  /\ callback[th].at = "search"
         /\ callback' \in [Thread -> Callback]
         /\ \A u \in Thread \ {th} : callback'[u] = callback[u]
         /\ \/ callback'[th] = Idle
            \/ \E n \in Name :
                 /\ callback'[th].at = "publish" /\ callback'[th].name = n
                 /\ callback'[th].key = grammars[n].key /\ callback'[th].client = grammars[n].client
                 /\ grammars[n].key \in Key /\ grammars[n].client \in ClientId
                 /\ callback'[th].kind = callback[th].kind /\ callback'[th].number = callback[th].number
                 /\ callback'[th].meant = callback[th].meant /\ callback'[th].owner = callback[th].owner
                 /\ callback'[th].disturbed = callback[th].disturbed
                 /\ ~callback[th].disturbed => grammars[n].key = callback[th].key
<1> USE DEF TypeInv, TypeOK
<1>1. callback[th].at = "search" /\ callback[th] \in Callback
  BY DEF Search
<1>2. PICK n \in Found(th) :
        callback' = [callback EXCEPT ![th] =
          IF n = Nothing THEN Idle
          ELSE [callback[th] EXCEPT !.at = "publish", !.name = n, !.key = grammars[n].key,
                                    !.client = grammars[n].client]]
  BY DEF Search
<1>3. CASE n = Nothing
  BY <1>1, <1>2, <1>3, IdleCallback
<1>4. CASE n # Nothing
  <2>1. n \in Name
    BY <1>4 DEF Found
  <2>2. callback[th].key \in Key
    BY <1>1 DEF Knows
  <2>3. /\ grammars[n] # NoGrammar
        /\ ~callback[th].disturbed => grammars[n].key = callback[th].key
    BY <1>4, <2>1, <2>2, PhrasesAssumption DEF Found, NoGrammar
  <2>4. grammars[n].key \in Key /\ grammars[n].client \in ClientId
    BY <2>1, <2>3 DEF Grammar, NoGrammar
  <2> DEFINE cb == [callback[th] EXCEPT !.at = "publish", !.name = n, !.key = grammars[n].key,
                                        !.client = grammars[n].client]
  <2>5. /\ cb \in Callback /\ cb.at = "publish" /\ cb.name = n /\ cb.key = grammars[n].key
        /\ cb.client = grammars[n].client /\ cb.kind = callback[th].kind
        /\ cb.number = callback[th].number /\ cb.meant = callback[th].meant
        /\ cb.owner = callback[th].owner /\ cb.disturbed = callback[th].disturbed
    BY <1>1, <2>1, <2>4 DEF Callback
  <2> HIDE DEF cb
  <2>6. callback' = [callback EXCEPT ![th] = cb]
    BY <1>2, <1>4 DEF cb
  <2>7. callback' \in [Thread -> Callback] /\ callback'[th] = cb
        /\ \A u \in Thread \ {th} : callback'[u] = callback[u]
    BY <2>5, <2>6
  <2> QED
    BY <1>1, <2>1, <2>3, <2>4, <2>5, <2>7
<1> QED
  BY <1>3, <1>4

(* What a callback publishes. *)
LEMMA PublishCallback ==
  ASSUME TypeInv, NEW th \in Thread, Publish(th)
  PROVE  /\ callback[th].at = "publish" /\ callback[th].name \in Name
         /\ callback' \in [Thread -> Callback] /\ callback'[th] = Idle
         /\ \A u \in Thread \ {th} : callback'[u] = callback[u]
         /\ UNCHANGED <<clients_vars, held, grammars, loaded, received, phrases>>
         /\ \E m \in Message :
              /\ queue' = Append(queue, m)
              /\ m.client = Owner(callback[th]) /\ m.name = callback[th].name
              /\ m.kind = callback[th].kind /\ m.number = callback[th].number
              /\ m.meant = callback[th].meant /\ m.owner = callback[th].owner
              /\ m.disturbed = callback[th].disturbed
<1> USE DEF TypeInv, TypeOK
<1> DEFINE cb == callback[th]
           m == [client |-> Owner(cb), name |-> cb.name, kind |-> cb.kind, number |-> cb.number,
                 meant |-> cb.meant, owner |-> cb.owner, disturbed |-> cb.disturbed]
<1>1. /\ cb.at = "publish" /\ queue' = Append(queue, m)
      /\ callback' = [callback EXCEPT ![th] = Idle]
      /\ UNCHANGED <<clients_vars, held, grammars, loaded, received, phrases>>
  BY DEF Publish
<1>2. /\ cb \in Callback /\ cb.key \in Key /\ cb.name \in Name /\ cb.client \in ClientId
      /\ cb.kind \in {"p.begin", "p.hypothesis", "p.end"}
      /\ cb.number \in 1 .. MaxPhrases /\ cb.meant \in Name
  BY <1>1 DEF Knows, Kind
<1>3. cb.owner \in ClientId \cup {Nothing} /\ cb.disturbed \in BOOLEAN
  BY <1>2 DEF Callback
<1>4. Owner(cb) \in ClientId
  BY <1>2, PhrasesAssumption DEF Owner, Grammar
<1>5. m \in Message
  BY <1>2, <1>3, <1>4 DEF Message
<1>6. callback' \in [Thread -> Callback] /\ callback'[th] = Idle
      /\ \A u \in Thread \ {th} : callback'[u] = callback[u]
  BY <1>1, IdleCallback
<1> QED
  BY <1>1, <1>2, <1>5, <1>6

(* What the function that sends does. *)
LEMMA RunSendQueue ==
  ASSUME TypeOK, RunSend
  PROVE  /\ queue \in Seq(Message) /\ queue # <<>> /\ queue' = Tail(queue)
         /\ UNCHANGED <<clients_vars, held, grammars, loaded, callback, phrases>>
         /\ received' \in [ClientId -> Seq(Message)]
         /\ \A c \in ClientId :
              received'[c] = received[c]
                \/ (received'[c] = Append(received[c], Head(queue)) /\ c = Head(queue).client)
<1>1. /\ queue \in Seq(Message) /\ queue # <<>> /\ queue' = Tail(queue)
      /\ UNCHANGED <<clients_vars, held, grammars, loaded, callback, phrases>>
      /\ received \in [ClientId -> Seq(Message)]
  BY DEF TypeOK, RunSend
<1>2. Head(queue) \in Message
  BY <1>1, TailSeq
<1> DEFINE h == Head(queue)
<1>3. received' = [c \in ClientId |->
        IF c \in clients /\ c = h.client THEN Append(received[c], h) ELSE received[c]]
  BY DEF RunSend
<1> HIDE DEF h
<1>4. h \in Message
  BY <1>2 DEF h
<1>5. \A c \in ClientId : Append(received[c], h) \in Seq(Message)
  BY <1>1, <1>4, AppendSeq
<1>6. received' \in [ClientId -> Seq(Message)]
  BY <1>1, <1>3, <1>5
<1>7. \A c \in ClientId :
        received'[c] = received[c] \/ (received'[c] = Append(received[c], h) /\ c = h.client)
  BY <1>3
<1> QED
  BY <1>1, <1>6, <1>7 DEF h

----------------------------------------------------------------------------
(* Types. *)

LEMMA TypeInit == Init => TypeInv
<1> SUFFICES ASSUME Init PROVE TypeInv
  OBVIOUS
<1> USE DEF Init
<1>1. ClientsTypeOK
  BY MaxClientsAssumption DEF ClientsInit, ClientsTypeOK
<1>2. callback \in [Thread -> Callback] /\ Knows
  BY IdleCallback DEF Knows
<1>3. grammars \in [Name -> Grammar] /\ loaded \subseteq [name : Name, key : Key]
  BY DEF Grammar, NoGrammar
<1>4. <<>> \in Seq(Message)
  OBVIOUS
<1>5. phrases \in 0 .. MaxPhrases
  BY PhrasesAssumption
<1> QED
  BY <1>1, <1>2, <1>3, <1>4, <1>5 DEF TypeInv, TypeOK

(* The table changes. *)
LEMMA TypeTable ==
  ASSUME TypeInv,
         (\E n \in Name : Remove(n))
           \/ \E n \in Name, c \in Seen, k \in Key : Load(n, c, k)
  PROVE  TypeInv'
<1> USE DEF TypeInv
<1>1. /\ callback' = Disturbed
      /\ UNCHANGED <<clients_vars, held, queue, received, phrases>>
  BY DEF Remove, Load
<1>2. callback' \in [Thread -> Callback] /\ Knows'
  BY <1>1, DisturbedCallbacks DEF Knows
<1>3. grammars' \in [Name -> Grammar] /\ loaded' \subseteq [name : Name, key : Key]
  <2>1. ASSUME NEW n \in Name, Remove(n)
        PROVE  grammars' \in [Name -> Grammar] /\ loaded' \subseteq [name : Name, key : Key]
    BY <2>1 DEF Remove, TypeOK, Grammar, NoGrammar
  <2>2. ASSUME NEW n \in Name, NEW c \in Seen, NEW k \in Key, Load(n, c, k)
        PROVE  grammars' \in [Name -> Grammar] /\ loaded' \subseteq [name : Name, key : Key]
    <3>1. c \in ClientId
      BY MaxClientsAssumption DEF TypeOK, ClientsTypeOK, ClientId, Seen
    <3> QED
      BY <2>2, <3>1 DEF Load, TypeOK, Grammar
  <2> QED
    BY <2>1, <2>2
<1> QED
  BY <1>1, <1>2, <1>3 DEF TypeOK, clients_vars, ClientsTypeOK

LEMMA TypeNext == TypeInv /\ [Next]_vars => TypeInv'
<1> SUFFICES ASSUME TypeInv, [Next]_vars PROVE TypeInv'
  OBVIOUS
<1>1. CASE UNCHANGED vars
  BY <1>1 DEF vars, clients_vars, phrase_vars, TypeInv, TypeOK, ClientsTypeOK, Knows
<1>2. CASE Connect \/ \E c \in ClientId : Disconnect(c)
  <2>1. UNCHANGED phrase_vars
    BY <1>2 DEF Connect, Disconnect
  <2>2. ClientsTypeOK'
    <3>1. CASE Connect
      BY <3>1, MaxClientsAssumption DEF Connect, Accept, ClientsTypeOK, TypeInv, TypeOK
    <3>2. ASSUME NEW c \in ClientId, Disconnect(c) PROVE ClientsTypeOK'
      BY <3>2 DEF Disconnect, Forget, ClientsTypeOK, TypeInv, TypeOK
    <3> QED
      BY <1>2, <3>1, <3>2
  <2> QED
    BY <2>1, <2>2 DEF phrase_vars, TypeInv, TypeOK, Knows
<1>3. CASE Hold \/ Release
  BY <1>3 DEF Hold, Release, clients_vars, TypeInv, TypeOK, ClientsTypeOK, Knows
<1>4. CASE RunSend
  <2>1. queue' \in Seq(Message)
    BY <1>4, RunSendQueue, TailSeq DEF TypeInv
  <2> QED
    BY <1>4, <2>1, RunSendQueue DEF clients_vars, TypeInv, TypeOK, ClientsTypeOK, Knows
<1>5. ASSUME NEW th \in Thread, Report(th) PROVE TypeInv'
  <2>1. UNCHANGED <<clients_vars, held, grammars, loaded, queue, received>>
    BY <1>5 DEF Report
  <2>2. Knows'
    BY <1>5, ReportCallback DEF TypeInv, Knows
  <2> QED
    BY <1>5, <2>1, <2>2, ReportCallback DEF clients_vars, TypeInv, TypeOK, ClientsTypeOK
<1>6. ASSUME NEW th \in Thread, Search(th) PROVE TypeInv'
  <2>1. UNCHANGED <<clients_vars, held, grammars, loaded, queue, received, phrases>>
    BY <1>6 DEF Search
  <2>2. Knows'
    <3>1. /\ callback[th].at # "idle"
          /\ callback[th].meant \in Name /\ callback[th].kind \in Kind(th)
          /\ callback[th].number \in 1 .. MaxPhrases
      BY <1>6, SearchCallback DEF TypeInv, Knows
    <3> QED
      BY <1>6, <3>1, SearchCallback, IdleCallback DEF TypeInv, Knows
  <2> QED
    BY <1>6, <2>1, <2>2, SearchCallback DEF clients_vars, TypeInv, TypeOK, ClientsTypeOK
<1>7. ASSUME NEW th \in Thread, Publish(th) PROVE TypeInv'
  <2>1. Knows'
    BY <1>7, PublishCallback, IdleCallback DEF TypeInv, Knows
  <2>2. queue' \in Seq(Message)
    <3>1. PICK m \in Message : queue' = Append(queue, m)
      BY <1>7, PublishCallback
    <3>2. queue \in Seq(Message)
      BY DEF TypeInv, TypeOK
    <3> QED
      BY <3>1, <3>2, AppendSeq
  <2>3. /\ UNCHANGED <<clients_vars, held, grammars, loaded, received, phrases>>
        /\ callback' = [callback EXCEPT ![th] = Idle]
    BY <1>7 DEF Publish
  <2>4. callback' \in [Thread -> Callback]
    BY <2>3, IdleCallback DEF TypeInv, TypeOK
  <2> QED
    BY <2>1, <2>2, <2>3, <2>4 DEF clients_vars, TypeInv, TypeOK, ClientsTypeOK
<1> QED
  BY <1>1, <1>2, <1>3, <1>4, <1>5, <1>6, <1>7, TypeTable DEF Next

(* Types, for any number of clients, grammars and phrases. *)
THEOREM TypeInvariant == Spec => []TypeInv
  BY TypeInit, TypeNext, PTL DEF Spec

----------------------------------------------------------------------------
(* The phrase thread and the keys. *)

LEMMA QuietNext == TypeInv /\ Quiet /\ [Next]_vars => Quiet'
<1> SUFFICES ASSUME TypeInv, Quiet, [Next]_vars PROVE Quiet'
  OBVIOUS
<1> "phrase" \in Thread
  BY DEF Thread
<1>1. CASE UNCHANGED vars
  BY <1>1 DEF vars, phrase_vars, Quiet
<1>2. CASE Connect \/ \E c \in ClientId : Disconnect(c)
  BY <1>2 DEF Connect, Disconnect, phrase_vars, Quiet
<1>3. CASE Hold \/ Release
  BY <1>3 DEF Hold, Release, Quiet
<1>4. CASE RunSend
  BY <1>4 DEF RunSend, Quiet
<1>5. CASE (\E n \in Name : Remove(n)) \/ \E n \in Name, c \in Seen, k \in Key : Load(n, c, k)
  <2>1. held /\ UNCHANGED held /\ callback' = Disturbed
    BY <1>5 DEF Remove, Load
  <2> QED
    BY <2>1, DisturbedCallbacks DEF Quiet, TypeInv
<1>6. ASSUME NEW th \in Thread, Report(th) PROVE Quiet'
  <2>1. UNCHANGED held
    BY <1>6 DEF Report
  <2> QED
    BY <1>6, <2>1, ReportCallback DEF Quiet
<1>7. ASSUME NEW th \in Thread, Search(th) PROVE Quiet'
  <2>1. UNCHANGED held
    BY <1>7 DEF Search
  <2> QED
    BY <1>7, <2>1, SearchCallback, IdleCallback DEF Quiet
<1>8. ASSUME NEW th \in Thread, Publish(th) PROVE Quiet'
  BY <1>8, PublishCallback, IdleCallback DEF Quiet
<1> QED
  BY <1>1, <1>2, <1>3, <1>4, <1>5, <1>6, <1>7, <1>8 DEF Next

(* Dragon reports no beginning or end of a phrase while the table changes. *)
THEOREM QuietHolds == Spec => []Quiet
<1>1. Init => Quiet
  BY IdleCallback DEF Init, Quiet, Thread
<1> QED
  BY <1>1, QuietNext, TypeInvariant, PTL DEF Spec

LEMMA KeysNext == TableFaults = {} /\ TypeInv /\ KeysAreLive /\ [Next]_vars => KeysAreLive'
<1> SUFFICES ASSUME TableFaults = {}, TypeInv, KeysAreLive, [Next]_vars PROVE KeysAreLive'
  OBVIOUS
<1> USE DEF TypeInv
<1>1. CASE UNCHANGED <<grammars, loaded>>
  BY <1>1 DEF KeysAreLive
<1>2. ASSUME NEW n \in Name, Remove(n) PROVE KeysAreLive'
  <2>1. /\ grammars' = [grammars EXCEPT ![n] = NoGrammar]
        /\ loaded' = loaded \ {[name |-> n, key |-> grammars[n].key]}
    BY <1>2, <1>1 DEF Remove
  <2>2. \A g \in loaded' : g \in loaded /\ g.name \in Name /\ g.name # n
    <3> SUFFICES ASSUME NEW g \in loaded' PROVE g \in loaded /\ g.name \in Name /\ g.name # n
      OBVIOUS
    <3>1. g \in loaded /\ g \in [name : Name, key : Key] /\ grammars[g.name].key = g.key
      BY <2>1 DEF TypeOK, KeysAreLive
    <3>2. g.name = n => g = [name |-> n, key |-> grammars[n].key]
      BY <3>1
    <3> QED
      BY <2>1, <3>1, <3>2
  <2>3. \A g \in loaded' : grammars'[g.name].key = g.key
    BY <2>1, <2>2 DEF TypeOK, KeysAreLive
  <2>4. \A m, o \in Name : m # o /\ grammars'[m] # NoGrammar => grammars'[m].key # grammars'[o].key
    <3> SUFFICES ASSUME NEW m \in Name, NEW o \in Name, m # o, grammars'[m] # NoGrammar
                 PROVE  grammars'[m].key # grammars'[o].key
      OBVIOUS
    <3>1. m # n /\ grammars'[m] = grammars[m] /\ grammars[m] # NoGrammar
      BY <2>1 DEF TypeOK
    <3>2. CASE o = n
      BY <2>1, <3>1, <3>2, PhrasesAssumption DEF TypeOK, Grammar, NoGrammar
    <3>3. CASE o # n
      BY <2>1, <3>1, <3>3 DEF TypeOK, KeysAreLive
    <3> QED
      BY <3>2, <3>3
  <2> QED
    BY <2>3, <2>4 DEF KeysAreLive
<1>3. ASSUME NEW n \in Name, NEW c \in Seen, NEW k \in Key, Load(n, c, k) PROVE KeysAreLive'
  <2>1. /\ grammars' = [grammars EXCEPT ![n] = [key |-> k, client |-> c]]
        /\ loaded' = loaded \cup {[name |-> n, key |-> k]}
        /\ IF grammars[n].key = Nothing THEN k \notin LiveKeys ELSE k = grammars[n].key
    BY <1>3 DEF Load
  <2>2. /\ grammars'[n].key = k
        /\ \A m \in Name \ {n} : grammars'[m] = grammars[m]
    BY <2>1 DEF TypeOK
  <2>3. \A g \in loaded : g.name = n => g.key = k
    BY <2>1, PhrasesAssumption DEF TypeOK, KeysAreLive
  <2>4. \A g \in loaded' : grammars'[g.name].key = g.key
    BY <2>1, <2>2, <2>3 DEF TypeOK, KeysAreLive
  <2>5. \A m \in Name \ {n} : grammars[m].key # k
    <3> SUFFICES ASSUME NEW m \in Name \ {n} PROVE grammars[m].key # k
      OBVIOUS
    <3>1. CASE grammars[n].key = Nothing
      BY <2>1, <3>1 DEF LiveKeys
    <3>2. CASE grammars[n].key # Nothing
      <4>1. grammars[n] # NoGrammar
        BY <3>2 DEF NoGrammar
      <4> QED
        BY <2>1, <3>2, <4>1 DEF KeysAreLive
    <3> QED
      BY <3>1, <3>2
  <2>6. \A m, o \in Name : m # o /\ grammars'[m] # NoGrammar => grammars'[m].key # grammars'[o].key
    <3> SUFFICES ASSUME NEW m \in Name, NEW o \in Name, m # o, grammars'[m] # NoGrammar
                 PROVE  grammars'[m].key # grammars'[o].key
      OBVIOUS
    <3>1. CASE m = n \/ o = n
      BY <2>2, <2>5, <3>1
    <3>2. CASE m # n /\ o # n
      BY <2>2, <3>2 DEF KeysAreLive
    <3> QED
      BY <3>1, <3>2
  <2> QED
    BY <2>4, <2>6 DEF KeysAreLive
<1> QED
  BY <1>1, <1>2, <1>3 DEF Next, vars, phrase_vars, Connect, Disconnect, Hold, Release,
                          RunSend, Report, Search, Publish

(* If Dragon unloads and registers what it is told to, the keys it passes  *)
(* are those of the objects that exist, one for each grammar.              *)
THEOREM KeysAreLiveHolds == ASSUME TableFaults = {} PROVE Spec => []KeysAreLive
<1>1. Init => KeysAreLive
  BY PhrasesAssumption DEF Init, KeysAreLive, NoGrammar
<1> QED
  BY <1>1, KeysNext, TypeInvariant, PTL DEF Spec

----------------------------------------------------------------------------
(* Whom a phrase reaches. *)

(* A message has gone to whom it should, under the right name. *)
Right(m) == (m.kind = "p.hypothesis" /\ m.disturbed) \/ (m.client = m.owner /\ m.name = m.meant)

AllRight ==
  /\ \A i \in DOMAIN queue : Right(queue[i])
  /\ \A c \in ClientId : \A i \in DOMAIN received[c] : Right(received[c][i])

LEMMA AllRightReaches == AllRight => PhraseReachesOwner
<1> SUFFICES ASSUME AllRight,
                    NEW m \in {queue[i] : i \in DOMAIN queue}
                       \cup UNION {{received[c][i] : i \in DOMAIN received[c]} : c \in ClientId}
             PROVE  Right(m)
  BY DEF PhraseReachesOwner, Right
<1>1. CASE m \in {queue[i] : i \in DOMAIN queue}
  BY <1>1 DEF AllRight
<1>2. CASE m \in UNION {{received[c][i] : i \in DOMAIN received[c]} : c \in ClientId}
  BY <1>2 DEF AllRight
<1> QED
  BY <1>1, <1>2

LEMMA MeantNext == TypeInv /\ KeysAreLive /\ HoldsMeant /\ [Next]_vars => HoldsMeant'
<1> SUFFICES ASSUME TypeInv, KeysAreLive, HoldsMeant, [Next]_vars PROVE HoldsMeant'
  OBVIOUS
<1>1. CASE UNCHANGED <<grammars, callback>>
  BY <1>1 DEF HoldsMeant
<1>2. CASE (\E n \in Name : Remove(n)) \/ \E n \in Name, c \in Seen, k \in Key : Load(n, c, k)
  <2>1. callback' = Disturbed
    BY <1>2 DEF Remove, Load
  <2> QED
    BY <2>1, DisturbedCallbacks DEF HoldsMeant, TypeInv
<1>3. ASSUME NEW th \in Thread, Report(th) PROVE HoldsMeant'
  <2>1. UNCHANGED grammars
    BY <1>3 DEF Report
  <2>2. PICK g \in loaded :
          /\ callback'[th].key = g.key /\ callback'[th].meant = g.name
          /\ callback'[th].owner = grammars[g.name].client
    BY <1>3, ReportCallback
  <2>3. grammars[g.name].key = g.key
    BY DEF KeysAreLive
  <2> QED
    BY <1>3, <2>1, <2>2, <2>3, ReportCallback DEF HoldsMeant
<1>4. ASSUME NEW th \in Thread, Search(th) PROVE HoldsMeant'
  <2>1. UNCHANGED grammars
    BY <1>4 DEF Search
  <2>2. /\ callback[th].at = "search" /\ \A u \in Thread \ {th} : callback'[u] = callback[u]
        /\ callback[th].key \in Key /\ callback[th].meant \in Name
    BY <1>4, SearchCallback DEF TypeInv, Knows
  <2>3. CASE callback'[th] = Idle
    BY <2>1, <2>2, <2>3, IdleCallback DEF HoldsMeant
  <2>4. ASSUME NEW n \in Name, callback'[th].name = n, callback'[th].key = grammars[n].key,
               grammars[n].key \in Key, callback'[th].meant = callback[th].meant,
               callback'[th].owner = callback[th].owner,
               callback'[th].disturbed = callback[th].disturbed,
               ~callback[th].disturbed => grammars[n].key = callback[th].key
        PROVE  HoldsMeant'
    <3>1. ASSUME ~callback[th].disturbed
          PROVE  /\ grammars[callback[th].meant].key = callback[th].key
                 /\ grammars[callback[th].meant].client = callback[th].owner
                 /\ n = callback[th].meant
      <4>1. /\ grammars[callback[th].meant].key = callback[th].key
            /\ grammars[callback[th].meant].client = callback[th].owner
        BY <2>2, <3>1 DEF HoldsMeant
      <4>2. grammars[n] # NoGrammar
        BY <2>4, PhrasesAssumption DEF NoGrammar
      <4> QED
        BY <2>2, <2>4, <3>1, <4>1, <4>2 DEF KeysAreLive
    <3> QED
      BY <2>1, <2>2, <2>4, <3>1 DEF HoldsMeant
  <2> QED
    BY <1>4, <2>3, <2>4, SearchCallback
<1>5. ASSUME NEW th \in Thread, Publish(th) PROVE HoldsMeant'
  BY <1>5, PublishCallback, IdleCallback DEF HoldsMeant
<1> QED
  BY <1>1, <1>2, <1>3, <1>4, <1>5 DEF Next, vars, phrase_vars, Connect, Disconnect, Hold,
                                      Release, RunSend

LEMMA RightNext ==
  TypeInv /\ Quiet /\ HoldsMeant /\ AllRight /\ [Next]_vars => AllRight'
<1> SUFFICES ASSUME TypeInv, Quiet, HoldsMeant, AllRight, [Next]_vars PROVE AllRight'
  OBVIOUS
<1>1. CASE UNCHANGED <<queue, received>>
  BY <1>1 DEF AllRight
<1>2. CASE RunSend
  <2>1. /\ queue \in Seq(Message) /\ queue # <<>> /\ queue' = Tail(queue)
        /\ received \in [ClientId -> Seq(Message)]
        /\ \A c \in ClientId :
             received'[c] = received[c]
               \/ (received'[c] = Append(received[c], Head(queue)) /\ c = Head(queue).client)
    BY <1>2, RunSendQueue DEF TypeInv, TypeOK
  <2>2. Right(Head(queue)) /\ Head(queue) \in Message
    BY <2>1, TailSeq DEF AllRight
  <2>3. \A i \in DOMAIN queue' : Right(queue'[i])
    BY <2>1, TailSeq DEF AllRight
  <2>4. ASSUME NEW c \in ClientId PROVE \A i \in DOMAIN received'[c] : Right(received'[c][i])
    <3>1. received[c] \in Seq(Message) /\ \A i \in DOMAIN received[c] : Right(received[c][i])
      BY <2>1 DEF AllRight
    <3>2. CASE received'[c] = Append(received[c], Head(queue))
      BY <2>2, <3>1, <3>2, AppendSeq
    <3> QED
      BY <2>1, <3>1, <3>2
  <2> QED
    BY <2>3, <2>4 DEF AllRight
<1>3. ASSUME NEW th \in Thread, Publish(th) PROVE AllRight'
  <2> DEFINE cb == callback[th]
  <2>1. PICK m \in Message :
          /\ queue' = Append(queue, m)
          /\ m.client = Owner(cb) /\ m.name = cb.name /\ m.kind = cb.kind
          /\ m.meant = cb.meant /\ m.owner = cb.owner /\ m.disturbed = cb.disturbed
    BY <1>3, PublishCallback
  <2>2. cb.at = "publish" /\ UNCHANGED received /\ queue \in Seq(Message)
    BY <1>3, PublishCallback DEF TypeInv, TypeOK
  <2>3. CASE cb.disturbed
    <3>1. th = "hypothesis" /\ cb.kind \in Kind(th)
      BY <2>2, <2>3 DEF Quiet, Thread, TypeInv, Knows
    <3>2. Right(m)
      BY <2>1, <2>3, <3>1 DEF Right, Kind
    <3> QED
      BY <2>1, <2>2, <3>2, AppendSeq DEF AllRight
  <2>4. CASE ~cb.disturbed
    <3>1. grammars[cb.name].key = cb.key /\ grammars[cb.name].client = cb.owner /\ cb.name = cb.meant
      BY <2>2, <2>4 DEF HoldsMeant
    <3>2. Right(m)
      BY <2>1, <3>1 DEF Right, Owner
    <3> QED
      BY <2>1, <2>2, <3>2, AppendSeq DEF AllRight
  <2> QED
    BY <2>3, <2>4
<1> QED
  BY <1>1, <1>2, <1>3 DEF Next, vars, phrase_vars, Connect, Disconnect, Hold, Release,
                          Remove, Load, Report, Search

(* If Dragon unloads what it is told to, a phrase reaches the client whose *)
(* grammar was meant; only a hypothesis may miss, if the table changed     *)
(* under it.                                                               *)
THEOREM PhraseReachesOwnerHolds ==
  ASSUME TableFaults = {} PROVE Spec => []PhraseReachesOwner
<1>1. Init => HoldsMeant /\ AllRight
  BY IdleCallback DEF Init, HoldsMeant, AllRight
<1>2. TypeInv /\ KeysAreLive /\ Quiet /\ HoldsMeant /\ AllRight /\ [Next]_vars
        => HoldsMeant' /\ AllRight'
  BY MeantNext, RightNext
<1> QED
  BY <1>1, <1>2, TypeInvariant, QuietHolds, KeysAreLiveHolds, AllRightReaches, PTL DEF Spec

----------------------------------------------------------------------------
(* The order of phrases. *)

OrderInv == Ordered /\ PhrasesInOrder

(* Threads report different kinds of messages. *)
LEMMA ThreadKinds ==
  ASSUME NEW th \in Thread, NEW u \in Thread, NEW m, NEW n,
         m.kind \in Kind(th), n.kind \in Kind(u), SameThread(m, n)
  PROVE  th = u
  BY DEF Thread, Kind, SameThread

LEMMA OrderNext == TypeInv /\ OrderInv /\ [Next]_vars => OrderInv'
<1> SUFFICES ASSUME TypeInv, OrderInv, [Next]_vars PROVE OrderInv'
  OBVIOUS
<1> USE DEF OrderInv
<1>1. CASE UNCHANGED <<queue, received, phrases, callback>>
  BY <1>1 DEF Ordered, PhrasesInOrder
<1>2. CASE (\E n \in Name : Remove(n)) \/ \E n \in Name, c \in Seen, k \in Key : Load(n, c, k)
  <2>1. callback' = Disturbed /\ UNCHANGED <<queue, received, phrases>>
    BY <1>2 DEF Remove, Load
  <2>2. \A th \in Thread : /\ callback'[th].at = callback[th].at
                           /\ callback'[th].number = callback[th].number
                           /\ callback'[th].kind = callback[th].kind
    BY <2>1, DisturbedCallbacks DEF TypeInv
  <2> QED
    BY <2>1, <2>2 DEF Ordered, PhrasesInOrder, SameThread
<1>3. ASSUME NEW th \in Thread, Report(th) PROVE OrderInv'
  <2>1. UNCHANGED <<queue, received>>
    BY <1>3 DEF Report
  <2>2. /\ phrases \in Nat /\ phrases' = phrases + 1 /\ callback'[th].number = phrases'
        /\ \A u \in Thread \ {th} : callback'[u] = callback[u]
        /\ \A u \in Thread : callback[u] \in Callback
        /\ queue \in Seq(Message) /\ \A c \in ClientId : received[c] \in Seq(Message)
    BY <1>3, ReportCallback, PhrasesAssumption DEF TypeInv, TypeOK
  <2>3. \A u \in Thread : callback[u].number \in Nat
    BY <2>2, PhrasesAssumption DEF Callback
  <2>4. \A m \in Message : m.number \in Nat
    BY PhrasesAssumption DEF Message
  <2>5. /\ \A i \in DOMAIN queue : queue[i].number \in Nat
        /\ \A c \in ClientId : \A i \in DOMAIN received[c] : received[c][i].number \in Nat
    BY <2>2, <2>4
  <2> QED
    BY <2>1, <2>2, <2>3, <2>5 DEF Ordered, PhrasesInOrder
<1>4. ASSUME NEW th \in Thread, Search(th) PROVE OrderInv'
  <2>1. UNCHANGED <<queue, received, phrases>> /\ phrases \in Nat
    BY <1>4, PhrasesAssumption DEF Search, TypeInv, TypeOK
  <2>2. /\ callback[th].at = "search"
        /\ \A u \in Thread \ {th} : callback'[u] = callback[u]
        /\ \/ callback'[th].at = "idle" /\ callback'[th].number = 0
           \/ /\ callback'[th].number = callback[th].number
              /\ callback'[th].kind = callback[th].kind
    BY <1>4, SearchCallback, IdleCallback
  <2> QED
    BY <2>1, <2>2 DEF Ordered, PhrasesInOrder, SameThread
<1>5. ASSUME NEW th \in Thread, Publish(th) PROVE OrderInv'
  <2>1. PICK m \in Message :
          queue' = Append(queue, m) /\ m.kind = callback[th].kind /\ m.number = callback[th].number
    BY <1>5, PublishCallback
  <2>2. /\ callback[th].at = "publish" /\ callback'[th].at = "idle" /\ callback'[th].number = 0
        /\ \A u \in Thread \ {th} : callback'[u] = callback[u]
        /\ UNCHANGED <<received, phrases>>
        /\ queue \in Seq(Message) /\ phrases \in Nat
    BY <1>5, PublishCallback, IdleCallback, PhrasesAssumption DEF TypeInv, TypeOK
  <2>3. /\ DOMAIN queue' = 1 .. Len(queue) + 1 /\ DOMAIN queue = 1 .. Len(queue) /\ Len(queue) \in Nat
        /\ \A i \in 1 .. Len(queue) : queue'[i] = queue[i]
        /\ queue'[Len(queue) + 1] = m
    BY <2>1, <2>2, AppendSeq
  <2>4. \A u \in Thread : callback'[u].number <= phrases
    BY <2>2 DEF Ordered
  <2>5. /\ m.number <= phrases
        /\ \A i \in DOMAIN queue : SameThread(queue[i], m) => queue[i].number < m.number
        /\ \A c \in ClientId : \A i \in DOMAIN received[c] :
             SameThread(m, received[c][i]) => received[c][i].number < m.number
    BY <2>1, <2>2 DEF Ordered, SameThread
  <2>6. \A u \in Thread : callback'[u].at # "idle" => ~SameThread(m, callback'[u])
    <3> SUFFICES ASSUME NEW u \in Thread, callback'[u].at # "idle", SameThread(m, callback'[u])
                 PROVE  FALSE
      OBVIOUS
    <3>1. u # th /\ callback'[u] = callback[u]
      BY <2>2
    <3>2. callback[u].kind \in Kind(u) /\ m.kind \in Kind(th)
      BY <2>1, <2>2, <3>1 DEF TypeInv, Knows
    <3> QED
      BY <3>1, <3>2, ThreadKinds
  <2>7. \A i \in 1 .. Len(queue) :
          /\ queue'[i].number <= phrases
          /\ \A u \in Thread :
               callback'[u].at # "idle" /\ SameThread(queue[i], callback'[u])
                 => queue[i].number < callback'[u].number
          /\ \A c \in ClientId : \A j \in DOMAIN received[c] :
               SameThread(queue[i], received[c][j]) => received[c][j].number < queue[i].number
    BY <2>2, <2>3 DEF Ordered
  <2>8. \A i, j \in 1 .. Len(queue) + 1 :
          i < j /\ SameThread(queue'[i], queue'[j]) => queue'[i].number < queue'[j].number
    <3> SUFFICES ASSUME NEW i \in 1 .. Len(queue) + 1, NEW j \in 1 .. Len(queue) + 1, i < j,
                        SameThread(queue'[i], queue'[j])
                 PROVE  queue'[i].number < queue'[j].number
      OBVIOUS
    <3>1. i \in 1 .. Len(queue) /\ (j \in 1 .. Len(queue) \/ j = Len(queue) + 1)
      BY <2>3
    <3> QED
      BY <2>3, <2>5, <3>1 DEF Ordered
  <2>9. PhrasesInOrder'
    BY <2>2 DEF PhrasesInOrder
  <2>10. \A c \in ClientId : \A i \in DOMAIN received[c] :
           /\ received[c][i].number <= phrases
           /\ \A u \in Thread :
                callback'[u].at # "idle" /\ SameThread(received[c][i], callback'[u])
                  => received[c][i].number < callback'[u].number
    BY <2>2 DEF Ordered
  <2> QED
    BY <2>2, <2>3, <2>4, <2>5, <2>6, <2>7, <2>8, <2>9, <2>10 DEF Ordered
<1>6. CASE RunSend
  <2>1. /\ queue \in Seq(Message) /\ queue # <<>> /\ queue' = Tail(queue)
        /\ UNCHANGED <<callback, phrases>>
        /\ received \in [ClientId -> Seq(Message)]
        /\ \A c \in ClientId :
             received'[c] = received[c]
               \/ (received'[c] = Append(received[c], Head(queue)) /\ c = Head(queue).client)
    BY <1>6, RunSendQueue DEF TypeInv, TypeOK
  <2>2. /\ Head(queue) \in Message /\ Head(queue) = queue[1] /\ Len(queue) \in Nat \ {0}
        /\ DOMAIN queue = 1 .. Len(queue) /\ DOMAIN queue' = 1 .. Len(queue) - 1
        /\ \A i \in 1 .. Len(queue) - 1 : queue'[i] = queue[i + 1]
    BY <2>1, TailSeq
  <2> DEFINE h == Head(queue)
  <2>3. /\ h.number <= phrases
        /\ \A i \in DOMAIN queue' : SameThread(h, queue'[i]) => h.number < queue'[i].number
        /\ \A th \in Thread : callback[th].at # "idle" /\ SameThread(h, callback[th])
             => h.number < callback[th].number
        /\ \A c \in ClientId : \A j \in DOMAIN received[c] :
             SameThread(h, received[c][j]) => received[c][j].number < h.number
    BY <2>2 DEF Ordered
  <2> HIDE DEF h
  <2>4. \A c \in ClientId :
          \/ received'[c] = received[c]
          \/ /\ DOMAIN received'[c] = 1 .. Len(received[c]) + 1
             /\ DOMAIN received[c] = 1 .. Len(received[c]) /\ Len(received[c]) \in Nat
             /\ \A i \in 1 .. Len(received[c]) : received'[c][i] = received[c][i]
             /\ received'[c][Len(received[c]) + 1] = h /\ h.client = c
    BY <2>1, <2>2, AppendSeq DEF h
  <2>5. \A c \in ClientId : \A i \in DOMAIN received'[c] :
          received'[c][i] = h \/ (i \in DOMAIN received[c] /\ received'[c][i] = received[c][i])
    BY <2>4
  <2>6. \A i \in DOMAIN queue' :
          /\ queue'[i].number <= phrases
          /\ \A j \in DOMAIN queue' :
               i < j /\ SameThread(queue'[i], queue'[j]) => queue'[i].number < queue'[j].number
          /\ \A th \in Thread :
               callback[th].at # "idle" /\ SameThread(queue'[i], callback[th])
                 => queue'[i].number < callback[th].number
          /\ \A c \in ClientId : \A j \in DOMAIN received[c] :
               SameThread(queue'[i], received[c][j]) => received[c][j].number < queue'[i].number
    <3> SUFFICES ASSUME NEW i \in DOMAIN queue'
                 PROVE  <2>6!(i)
      OBVIOUS
    <3>1. i + 1 \in DOMAIN queue /\ queue'[i] = queue[i + 1]
      BY <2>2
    <3>2. \A j \in DOMAIN queue' : i < j =>
            j + 1 \in DOMAIN queue /\ i + 1 < j + 1 /\ queue'[j] = queue[j + 1]
      BY <2>2
    <3> QED
      BY <3>1, <3>2 DEF Ordered
  <2>7. Ordered'
    <3>1. \A th \in Thread : callback'[th].number <= phrases'
      BY <2>1 DEF Ordered
    <3>2. \A i \in DOMAIN queue' : \A c \in ClientId : \A j \in DOMAIN received'[c] :
            SameThread(queue'[i], received'[c][j]) => received'[c][j].number < queue'[i].number
      <4> SUFFICES ASSUME NEW i \in DOMAIN queue', NEW c \in ClientId,
                          NEW j \in DOMAIN received'[c],
                          SameThread(queue'[i], received'[c][j])
                   PROVE  received'[c][j].number < queue'[i].number
        OBVIOUS
      <4>1. CASE received'[c][j] = h
        <5>1. SameThread(h, queue'[i])
          BY <4>1 DEF SameThread
        <5> QED
          BY <2>3, <4>1, <5>1
      <4>2. CASE j \in DOMAIN received[c] /\ received'[c][j] = received[c][j]
        BY <2>6, <4>2
      <4> QED
        BY <2>5, <4>1, <4>2
    <3>3. \A c \in ClientId : \A i \in DOMAIN received'[c] :
            /\ received'[c][i].number <= phrases'
            /\ \A th \in Thread :
                 callback'[th].at # "idle" /\ SameThread(received'[c][i], callback'[th])
                   => received'[c][i].number < callback'[th].number
      <4> SUFFICES ASSUME NEW c \in ClientId, NEW i \in DOMAIN received'[c]
                   PROVE  <3>3!(c)!(i)
        OBVIOUS
      <4>1. CASE received'[c][i] = h
        BY <2>1, <2>3, <4>1
      <4>2. CASE i \in DOMAIN received[c] /\ received'[c][i] = received[c][i]
        BY <2>1, <4>2 DEF Ordered
      <4> QED
        BY <2>5, <4>1, <4>2
    <3> QED
      BY <2>1, <2>6, <3>1, <3>2, <3>3 DEF Ordered, SameThread
  <2>8. PhrasesInOrder'
    <3> SUFFICES ASSUME NEW c \in ClientId
                 PROVE  \A i, j \in DOMAIN received'[c] :
                          /\ received'[c][i].client = c
                          /\ i < j /\ SameThread(received'[c][i], received'[c][j])
                               => received'[c][i].number < received'[c][j].number
      BY DEF PhrasesInOrder, SameThread
    <3>1. \A i, j \in DOMAIN received[c] :
            /\ received[c][i].client = c
            /\ i < j /\ SameThread(received[c][i], received[c][j])
                 => received[c][i].number < received[c][j].number
      BY DEF PhrasesInOrder, SameThread
    <3>2. \A i \in DOMAIN received[c] :
            SameThread(received[c][i], h) => received[c][i].number < h.number
      BY <2>3 DEF SameThread
    <3>3. CASE received'[c] = received[c]
      BY <3>1, <3>3
    <3>4. ASSUME DOMAIN received'[c] = 1 .. Len(received[c]) + 1,
                 DOMAIN received[c] = 1 .. Len(received[c]), Len(received[c]) \in Nat,
                 \A i \in 1 .. Len(received[c]) : received'[c][i] = received[c][i],
                 received'[c][Len(received[c]) + 1] = h, h.client = c,
                 NEW i \in DOMAIN received'[c], NEW j \in DOMAIN received'[c]
          PROVE  /\ received'[c][i].client = c
                 /\ i < j /\ SameThread(received'[c][i], received'[c][j])
                      => received'[c][i].number < received'[c][j].number
      <4>1. received'[c][i].client = c
        BY <3>1, <3>4
      <4>2. i < j => i \in DOMAIN received[c] /\ received'[c][i] = received[c][i]
        BY <3>4
      <4>3. CASE j \in DOMAIN received[c]
        BY <3>1, <3>4, <4>1, <4>2, <4>3
      <4>4. CASE received'[c][j] = h
        BY <3>2, <4>1, <4>2, <4>4
      <4> QED
        BY <3>4, <4>3, <4>4
    <3> QED
      BY <2>4, <3>3, <3>4
  <2> QED
    BY <2>7, <2>8
<1> QED
  BY <1>1, <1>2, <1>3, <1>4, <1>5, <1>6 DEF Next, vars, phrase_vars, Connect, Disconnect,
                                            Hold, Release

(* A client is written only its own phrases, those of a thread in order.   *)
THEOREM PhrasesInOrderHolds == Spec => []PhrasesInOrder
<1>1. Init => OrderInv
  BY IdleCallback, PhrasesAssumption DEF Init, OrderInv, Ordered, PhrasesInOrder
<1>2. OrderInv => PhrasesInOrder
  BY DEF OrderInv
<1> QED
  BY <1>1, <1>2, OrderNext, TypeInvariant, PTL DEF Spec

----------------------------------------------------------------------------
(* The table keeps to its contract. *)

(* An object in the table is one Dragon has loaded, with its own key. *)
Backed ==
  \A n \in Name : grammars[n].key # Nothing => [name |-> n, key |-> grammars[n].key] \in loaded

LEMMA BackedNext == TypeInv /\ Backed /\ [Next]_vars => Backed'
<1> SUFFICES ASSUME TypeInv, Backed, [Next]_vars PROVE Backed'
  OBVIOUS
<1>1. CASE UNCHANGED <<grammars, loaded>>
  BY <1>1 DEF Backed
<1>2. ASSUME NEW n \in Name, Remove(n) PROVE Backed'
  <2>1. /\ grammars' = [grammars EXCEPT ![n] = NoGrammar]
        /\ loaded \ {[name |-> n, key |-> grammars[n].key]} \subseteq loaded'
    BY <1>2 DEF Remove
  <2>2. ASSUME NEW m \in Name, grammars'[m].key # Nothing
        PROVE  [name |-> m, key |-> grammars'[m].key] \in loaded'
    <3>1. m # n /\ grammars'[m] = grammars[m]
      BY <2>1, <2>2 DEF TypeInv, TypeOK, NoGrammar
    <3>2. [name |-> m, key |-> grammars[m].key] \in loaded
      BY <2>2, <3>1 DEF Backed
    <3> QED
      BY <2>1, <3>1, <3>2
  <2> QED
    BY <2>2 DEF Backed
<1>3. ASSUME NEW n \in Name, NEW c \in Seen, NEW k \in Key, Load(n, c, k) PROVE Backed'
  <2>1. /\ grammars' = [grammars EXCEPT ![n] = [key |-> k, client |-> c]]
        /\ loaded' = loaded \cup {[name |-> n, key |-> k]}
    BY <1>3 DEF Load
  <2> QED
    BY <2>1 DEF TypeInv, TypeOK, Backed
<1> QED
  BY <1>1, <1>2, <1>3 DEF Next, vars, phrase_vars, Connect, Disconnect, Hold, Release,
                          RunSend, Report, Search, Publish

(* An owned grammar is known, whatever Dragon refuses; if it does what it  *)
(* is told to, it knows no others.                                         *)
OwnedIsKnown ==
  /\ [n \in Name |-> grammars[n].client] \in [Name -> ClientId \cup {Nothing}]
  /\ {n \in Name : grammars[n].client # Nothing} \subseteq known
  /\ known \subseteq Name
  /\ TableFaults = {} => known = {n \in Name : grammars[n].client # Nothing}

LEMMA OwnedKnown == TypeInv /\ Backed /\ (TableFaults = {} => KeysAreLive) => OwnedIsKnown
<1> SUFFICES ASSUME TypeInv, Backed, TableFaults = {} => KeysAreLive PROVE OwnedIsKnown
  OBVIOUS
<1>1. ASSUME NEW n \in Name
      PROVE  /\ grammars[n].client \in ClientId \cup {Nothing}
             /\ grammars[n].client # Nothing <=> grammars[n].key # Nothing
  BY PhrasesAssumption DEF TypeInv, TypeOK, Grammar
<1>2. ASSUME NEW n \in Name, grammars[n].client # Nothing PROVE n \in known
  <2>1. PICK g \in loaded : g = [name |-> n, key |-> grammars[n].key]
    BY <1>1, <1>2 DEF Backed
  <2>2. g.name = n
    BY <2>1
  <2> QED
    BY <2>2 DEF known
<1>3. \A g \in loaded : g.name \in Name /\ g.key \in Key
  BY DEF TypeInv, TypeOK
<1>4. ASSUME TableFaults = {}, NEW n \in known PROVE grammars[n].client # Nothing
  <2>1. PICK g \in loaded : n = g.name
    BY <1>4 DEF known
  <2> QED
    BY <1>1, <1>3, <1>4, <2>1, PhrasesAssumption DEF KeysAreLive
<1> QED
  <2>1. [n \in Name |-> grammars[n].client] \in [Name -> ClientId \cup {Nothing}]
    BY <1>1
  <2>2. known \subseteq Name
    BY <1>3 DEF known
  <2> QED
    BY <1>2, <1>4, <2>1, <2>2 DEF OwnedIsKnown

(* The callbacks' table is one the contract of the table allows, as is     *)
(* Draconity's: here it changes only while Dragon is held, and what is     *)
(* owned is known.                                                         *)
THEOREM ImplementsTableHolds == Spec => ImplementsTable
<1> DEFINE Live == TableFaults = {} => KeysAreLive
           owner == [n \in Name |-> grammars[n].client]
           owned == {n \in Name : grammars[n].client # Nothing}
<1>1. Init => GrammarContract!Init /\ Backed /\ Live
  <2>1. Init => held \in BOOLEAN
    BY DEF Init
  <2> QED
    BY <2>1, PhrasesAssumption
    DEF Init, NoGrammar, GrammarContract!Init, known, Backed, KeysAreLive
<1>2. TypeInv /\ Backed /\ Live /\ [Next]_vars => Backed' /\ Live'
  BY BackedNext, KeysNext
<1>3. TypeInv /\ Backed /\ Live => OwnedIsKnown
  BY OwnedKnown
<1>4. ASSUME TypeInv, OwnedIsKnown', [Next]_vars
      PROVE  [GrammarContract!Next]_(GrammarContract!vars)
  <2>1. CASE UNCHANGED <<held, grammars, loaded>>
    BY <2>1 DEF GrammarContract!vars, known
  <2>2. CASE Hold \/ Release
    BY <2>2 DEF Hold, Release, known, GrammarContract!Next, GrammarContract!Open, GrammarContract!Close
  <2>3. CASE (\E n \in Name : Remove(n)) \/ \E n \in Name, c \in Seen, k \in Key : Load(n, c, k)
    <3>1. held /\ held' \in BOOLEAN
      BY <2>3 DEF Remove, Load
    <3>2. owned' = GrammarContract!Owned(owner')
      BY DEF GrammarContract!Owned
    <3>3. /\ owner' \in [Name -> ClientId \cup {Nothing}]
          /\ owned' \subseteq known' /\ known' \subseteq Name
          /\ TableFaults = {} => known' = owned'
      BY <1>4 DEF OwnedIsKnown
    <3>4. GrammarContract!Change
      BY <3>1, <3>2, <3>3 DEF GrammarContract!Change
    <3> QED
      BY <3>4 DEF GrammarContract!Next
  <2> QED
    BY <1>4, <2>1, <2>2, <2>3
    DEF Next, vars, phrase_vars, Connect, Disconnect, RunSend, Report, Search, Publish
<1> QED
  BY <1>1, <1>2, <1>3, <1>4, TypeInvariant, PTL DEF Spec, ImplementsTable, GrammarContract!Spec
=============================================================================
