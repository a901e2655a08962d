------------------------------ MODULE Phrases ------------------------------
(***************************************************************************)
(* What Dragon hears reaches the client whose grammar it belongs to.       *)
(* Dragon calls phrase_begin, phrase_hypothesis and phrase_end on its own  *)
(* threads with a key, the address of the Grammar object; get_grammar      *)
(* walks the table for it without a lock, while the Uv thread changes the  *)
(* table in sync_grammars.  What keeps them apart is that the table is     *)
(* changed only while Dragon is held at a pause (Draconity) and Dragon     *)
(* recognises nothing then, except that a hypothesis, which has a thread   *)
(* of its own (PhraseHypothesisCallbackThread), may still be on its way.   *)
(***************************************************************************)
EXTENDS Clients, Sequences

CONSTANTS
  Name,         \* grammar names
  Key,          \* addresses a Grammar object may get
  Nothing,      \* no key, no client, no name
  MaxPhrases,   \* bound: callbacks in one behaviour
  TableFaults   \* what Dragon may refuse: to unload a grammar, to register
                \* a callback of one

ASSUME PhrasesAssumption ==
  /\ Nothing \notin Key \cup ClientId \cup Name
  /\ MaxPhrases \in Nat
  /\ TableFaults \subseteq {"unload", "register"}

VARIABLES
  held,       \* is Dragon held at a pause
  grammars,   \* [Name -> the Grammar object's address and its state.client_id]
  loaded,     \* external: the grammars Dragon has loaded, with the key it
              \* passes to their callbacks
  callback,   \* [Thread -> the callback the thread is in]
  queue,      \* sends waiting in UvServer::invoke_queue
  received,   \* [ClientId -> phrase messages written to the client]
  phrases     \* callbacks Dragon has made

phrase_vars == <<held, grammars, loaded, callback, queue, received, phrases>>

vars == <<clients_vars, phrase_vars>>

(* Begin and end of a phrase are reported on one thread, hypotheses on     *)
(* another.                                                                *)
Thread == {"phrase", "hypothesis"}

Kind(th) == IF th = "phrase" THEN {"p.begin", "p.end"} ELSE {"p.hypothesis"}

Grammar == [key : Key, client : ClientId] \cup {[key |-> Nothing, client |-> Nothing]}

NoGrammar == [key |-> Nothing, client |-> Nothing]

(* A message on its way: whom it is sent to and what it says, and, as      *)
(* history, which callback it comes from: its number, the grammar Dragon   *)
(* meant, who owned that then, and whether the table changed meanwhile.    *)
Message ==
  [client : ClientId, name : Name, kind : {"p.begin", "p.hypothesis", "p.end"},
   number : 1 .. MaxPhrases, meant : Name, owner : ClientId \cup {Nothing},
   disturbed : BOOLEAN]

(* A callback: it searches the table, then publishes what it has found.    *)
Callback ==
  [at : {"idle", "search", "publish"}, key : Key \cup {Nothing},
   name : Name \cup {Nothing}, client : ClientId \cup {Nothing},
   kind : {"p.begin", "p.hypothesis", "p.end"} \cup {Nothing},
   number : 0 .. MaxPhrases, meant : Name \cup {Nothing},
   owner : ClientId \cup {Nothing}, disturbed : BOOLEAN]

Idle ==
  [at |-> "idle", key |-> Nothing, name |-> Nothing, client |-> Nothing,
   kind |-> Nothing, number |-> 0, meant |-> Nothing, owner |-> Nothing,
   disturbed |-> FALSE]

TypeOK ==
  /\ ClientsTypeOK
  /\ held \in BOOLEAN
  /\ grammars \in [Name -> Grammar]
  /\ loaded \subseteq [name : Name, key : Key]
  /\ callback \in [Thread -> Callback]
  /\ queue \in Seq(Message)
  /\ received \in [ClientId -> Seq(Message)]
  /\ phrases \in 0 .. MaxPhrases

Init ==
  /\ ClientsInit
  /\ held = FALSE
  /\ grammars = [n \in Name |-> NoGrammar]
  /\ loaded = {}
  /\ callback = [th \in Thread |-> Idle]
  /\ queue = <<>>
  /\ received = [c \in ClientId |-> <<>>]
  /\ phrases = 0

----------------------------------------------------------------------------
(* The Uv thread: connections, and the table while Dragon is held.  Which  *)
(* grammar a synchronisation loads and removes, and for whom, is the       *)
(* business of module Grammars; here it may be any.                        *)

Connect ==
  /\ Accept
  /\ UNCHANGED phrase_vars

Disconnect(c) ==
  /\ Forget(c)
  /\ UNCHANGED phrase_vars

(* Dragon pauses between phrases. *)
Hold ==
  /\ ~held
  /\ callback["phrase"].at = "idle"
  /\ held' = TRUE
  /\ UNCHANGED <<clients_vars, grammars, loaded, callback, queue, received, phrases>>

Release ==
  /\ held
  /\ held' = FALSE
  /\ UNCHANGED <<clients_vars, grammars, loaded, callback, queue, received, phrases>>

(* A callback that is under way while the table changes is disturbed. *)
Disturbed ==
  [th \in Thread |-> IF callback[th].at = "idle" THEN callback[th]
                     ELSE [callback[th] EXCEPT !.disturbed = TRUE]]

(* The addresses of Grammar objects that exist: those in the table and     *)
(* those a callback has got from get_grammar.                              *)
LiveKeys ==
  {grammars[n].key : n \in Name}
    \cup {callback[th].key : th \in {u \in Thread : callback[u].at = "publish"}}

(* The clients that have connected, whether they are still there or not.   *)
Seen == 0 .. client_nonce - 1

(* Fault: an update makes a new object and the callbacks of the old one    *)
(* stay registered.                                                        *)
Load_NewObject(n, c, k) ==
  /\ held
  /\ k \notin LiveKeys
  /\ grammars' = [grammars EXCEPT ![n] = [key |-> k, client |-> c]]
  /\ loaded' = loaded \cup {[name |-> n, key |-> k]}
  /\ callback' = Disturbed
  /\ UNCHANGED <<clients_vars, held, queue, received, phrases>>

(* sync_grammars for an update: an object that exists keeps its address    *)
(* and changes hands, a new one is made where there is room.  The client   *)
(* that asked for it may have left since.                                  *)
Load(n, c, k) ==
  /\ held
  /\ IF grammars[n].key = Nothing THEN k \notin LiveKeys ELSE k = grammars[n].key
  /\ grammars' = [grammars EXCEPT ![n] = [key |-> k, client |-> c]]
  /\ loaded' = loaded \cup {[name |-> n, key |-> k]}
  /\ callback' = Disturbed
  /\ UNCHANGED <<clients_vars, held, queue, received, phrases>>

(* Fault: the object is erased and its callbacks stay registered. *)
Remove_KeepCallbacks(n) ==
  /\ held
  /\ grammars[n] # NoGrammar
  /\ grammars' = [grammars EXCEPT ![n] = NoGrammar]
  /\ callback' = Disturbed
  /\ UNCHANGED <<clients_vars, held, loaded, queue, received, phrases>>

(* remove_grammar: the object goes, whether or not Dragon unloads.  One    *)
(* whose callbacks could not all be registered is not even unloaded.       *)
Remove(n) ==
  /\ held
  /\ grammars[n] # NoGrammar
  /\ grammars' = [grammars EXCEPT ![n] = NoGrammar]
  /\ loaded' \in {loaded \ {[name |-> n, key |-> grammars[n].key]}}
                   \cup (IF TableFaults # {} THEN {loaded} ELSE {})
  /\ callback' = Disturbed
  /\ UNCHANGED <<clients_vars, held, queue, received, phrases>>

(* Fault: the function queued last is run first. *)
RunSend_Newest ==
  LET m == queue[Len(queue)] IN
  /\ queue # <<>>
  /\ queue' = SubSeq(queue, 1, Len(queue) - 1)
  /\ received' = [c \in ClientId |->
       IF c \in clients /\ c = m.client THEN Append(received[c], m) ELSE received[c]]
  /\ UNCHANGED <<clients_vars, held, grammars, loaded, callback, phrases>>

(* The function UvServer::send queued: written if the client is there.  *)
RunSend ==
  /\ queue # <<>>
  /\ queue' = Tail(queue)
  /\ received' = [c \in ClientId |->
       IF c \in clients /\ c = Head(queue).client
       THEN Append(received[c], Head(queue)) ELSE received[c]]
  /\ UNCHANGED <<clients_vars, held, grammars, loaded, callback, phrases>>

----------------------------------------------------------------------------
(* Dragon's threads. *)

(* Dragon calls back for a grammar it has loaded. *)
Report(th) ==
  /\ ~held
  /\ callback[th].at = "idle"
  /\ phrases < MaxPhrases
  /\ phrases' = phrases + 1
  /\ \E g \in loaded, kind \in Kind(th) :
       callback' = [callback EXCEPT ![th] =
         [Idle EXCEPT !.at = "search", !.key = g.key, !.kind = kind,
                      !.number = phrases', !.meant = g.name,
                      !.owner = grammars[g.name].client]]
  /\ UNCHANGED <<clients_vars, held, grammars, loaded, queue, received>>

(* What get_grammar may return: the object with the key.  A walk of the    *)
(* table while it is being changed may end anywhere.                       *)
Found(th) ==
  IF callback[th].disturbed
  THEN {n \in Name : grammars[n] # NoGrammar} \cup {Nothing}
  ELSE LET match == {n \in Name : grammars[n].key = callback[th].key}
       IN  IF match = {} THEN {Nothing} ELSE match

(* get_grammar returns.  With no grammar the callback is over; else the    *)
(* shared_ptr keeps the object alive.                                      *)
Search(th) ==
  /\ callback[th].at = "search"
  /\ \E n \in Found(th) :
       callback' = [callback EXCEPT ![th] =
         IF n = Nothing THEN Idle
         ELSE [@ EXCEPT !.at = "publish", !.name = n, !.key = grammars[n].key,
                        !.client = grammars[n].client]]
  /\ UNCHANGED <<clients_vars, held, grammars, loaded, queue, received, phrases>>

(* Whom the object belongs to when it is read, which is last of all: an    *)
(* object that has left the table keeps its last client.                   *)
Owner(cb) == IF grammars[cb.name].key = cb.key THEN grammars[cb.name].client ELSE cb.client

(* Fault: the end of a phrase is not reported if it was rejected. *)
Publish_AcceptedOnly(th) ==
  LET cb == callback[th] IN
  /\ cb.at = "publish"
  /\ \E accept \in BOOLEAN :
       queue' = IF cb.kind = "p.end" /\ ~accept THEN queue
                ELSE Append(queue, [client |-> Owner(cb), name |-> cb.name,
                       kind |-> cb.kind, number |-> cb.number, meant |-> cb.meant,
                       owner |-> cb.owner, disturbed |-> cb.disturbed])
  /\ callback' = [callback EXCEPT ![th] = Idle]
  /\ UNCHANGED <<clients_vars, held, grammars, loaded, received, phrases>>

(* phrase_publish, phrase_begin: the message is queued for the owner.      *)
Publish(th) ==
  LET cb == callback[th] IN
  /\ cb.at = "publish"
  /\ queue' = Append(queue, [client |-> Owner(cb), name |-> cb.name, kind |-> cb.kind,
                             number |-> cb.number, meant |-> cb.meant,
                             owner |-> cb.owner, disturbed |-> cb.disturbed])
  /\ callback' = [callback EXCEPT ![th] = Idle]
  /\ UNCHANGED <<clients_vars, held, grammars, loaded, received, phrases>>

----------------------------------------------------------------------------

Next ==
  \/ Connect \/ Hold \/ Release \/ RunSend
  \/ \E c \in ClientId : Disconnect(c)
  \/ \E n \in Name :
       \/ Remove(n)
       \/ \E c \in Seen, k \in Key : Load(n, c, k)
  \/ \E th \in Thread : Report(th) \/ Search(th) \/ Publish(th)

Spec == Init /\ [][Next]_vars

(* A begin or an end goes on to be published, and the Uv loop runs what is *)
(* queued.                                                                 *)
FairSpec ==
  /\ Spec
  /\ WF_vars(RunSend)
  /\ WF_vars(Search("phrase") \/ Publish("phrase"))

----------------------------------------------------------------------------

(* The table keeps to its contract: whose the grammars are, and which ones *)
(* Dragon calls back for.                                                  *)
known == {g.name : g \in loaded}

GrammarContract == INSTANCE GrammarTable
                     WITH Client <- ClientId, Clean <- TableFaults = {}, open <- held,
                          owner <- [n \in Name |-> grammars[n].client]

ImplementsTable == GrammarContract!Spec

(* The keys Dragon passes are the addresses of the objects that exist, one *)
(* for each grammar: a callback never names an object that is gone, or one *)
(* that was made later in its place (as long as Dragon unloads and         *)
(* registers what it is told to).                                          *)
KeysAreLive ==
  /\ \A g \in loaded : grammars[g.name].key = g.key
  /\ \A m, n \in Name : m # n /\ grammars[m] # NoGrammar => grammars[m].key # grammars[n].key

(* A phrase is sent to the client that owned its grammar when Dragon       *)
(* reported it, under the grammar's name; only a hypothesis that overlapped*)
(* a change of the table may go astray.                                    *)
PhraseReachesOwner ==
  \A m \in {queue[i] : i \in DOMAIN queue}
             \cup UNION {{received[c][i] : i \in DOMAIN received[c]} : c \in ClientId} :
    (m.kind = "p.hypothesis" /\ m.disturbed) \/ (m.client = m.owner /\ m.name = m.meant)

(* A client is sent nobody else's phrases, and those of one thread in the  *)
(* order in which Dragon made them: no end before its beginning.           *)
PhrasesInOrder ==
  \A c \in ClientId : \A i, j \in DOMAIN received[c] :
    /\ received[c][i].client = c
    /\ i < j /\ (received[c][i].kind = "p.hypothesis" <=> received[c][j].kind = "p.hypothesis")
         => received[c][i].number < received[c][j].number

(* The message of the i-th callback has reached client c. *)
Delivered(i, c) == \E m \in DOMAIN received[c] : received[c][m].number = i

(* Every begin and end Dragon reports reaches the owner, unless it leaves. *)
PhrasesArrive ==
  \A i \in 1 .. MaxPhrases, c \in ClientId :
    (callback["phrase"].number = i /\ callback["phrase"].owner = c)
      ~> (Delivered(i, c) \/ c \notin clients)
=============================================================================
