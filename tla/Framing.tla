------------------------------ MODULE Framing ------------------------------
(***************************************************************************)
(* One connection: the byte stream a client sends is cut into messages by  *)
(* UvClient::onData, whatever the pieces it arrives in, and what is        *)
(* written back comes by two ways.  A handler's own reply is written at    *)
(* once; publications and the answers promised for later go through the    *)
(* invoke queue.  A byte of the stream is represented by its position in   *)
(* it, so that a message that begins or ends at the wrong byte shows.      *)
(***************************************************************************)
EXTENDS Integers, SequencesExt

CONSTANTS
  HeaderSize,   \* sizeof(MessageHeader)
  Frames,       \* how many messages the client sends, with tids 1 .. Frames
  Length,       \* [1 .. Frames -> bytes of the body]
  Kind,         \* [1 .. Frames -> what the body asks for]
  Start,        \* [1 .. Frames + 1 -> bytes sent before the message]
  MaxSyncs      \* how many synchronisations are looked at

Tid == 1 .. Frames

(* "auth" presents the secret, "broken" is no BSON document; a w.set, a    *)
(* g.set or g.unload, and a mimic that are taken are "words", "grammar"    *)
(* and "mimic"; a "command" is any other, and any that is refused.         *)
FrameKind == {"auth", "broken", "command", "words", "grammar", "mimic"}

ASSUME HeaderAssumption == HeaderSize \in Nat \ {0} /\ Frames \in Nat /\ MaxSyncs \in Nat

ASSUME FramesAssumption ==
  /\ Length \in [Tid -> Nat]
  /\ Kind \in [Tid -> FrameKind]
  /\ \A i \in Tid : Length[i] = 0 => Kind[i] = "broken"

ASSUME StartAssumption ==
  /\ Start \in [1 .. Frames + 1 -> Nat]
  /\ Start[1] = 0
  /\ \A i \in Tid : Start[i + 1] = Start[i] + HeaderSize + Length[i]
  /\ \A i, j \in 1 .. Frames + 1 : i < j => Start[i] < Start[j]

VARIABLES
  open,              \* is the connection open
  arrived,           \* bytes of the stream that have arrived
  recv_buffer,       \* the bytes not used yet
  received_header,   \* the header whose body is awaited
  parsing,           \* is the Uv thread in the loop of onData
  authed,            \* has the secret been presented
  handled,           \* history: messages given to handleMessage
  shadow_words,      \* the client's WordState: last_tid and synced
  promised,          \* g.* and mimic requests whose answer is to come
  syncs,             \* synchronisations so far
  invoke_queue,      \* writes waiting for the Uv thread
  written            \* what has been written to the stream

reader_vars == <<open, arrived, recv_buffer, received_header, parsing, handled, authed>>

promise_vars == <<shadow_words, promised, syncs>>

answer_vars == <<promise_vars, invoke_queue, written>>

vars == <<reader_vars, answer_vars>>

Header == [tid : Nat, length : Nat]

NoHeader == [tid |-> 0, length |-> -1]

(* No w.set so far: shadow_words has no entry of the client. *)
NoWords == [last_tid |-> 0, synced |-> TRUE]

(* What is written: a handler's reply; the answer to a g.* or a mimic; that *)
(* a w.set was skipped, or the result of a synchronisation for the last     *)
(* w.set; the report of a command, which goes to all under PUBLISH_TID.     *)
Reply(i)   == [what |-> "reply", tid |-> i]
Answer(i)  == [what |-> "answer", tid |-> i]
Skipped(i) == [what |-> "skipped", tid |-> i]
Result(i)  == [what |-> "result", tid |-> i]
Report(i)  == [what |-> "report", tid |-> i]

Written == [what : {"reply", "answer", "skipped", "result", "report"}, tid : Nat]

TypeOK ==
  /\ open \in BOOLEAN
  /\ arrived \in 0 .. Start[Frames + 1]
  /\ recv_buffer \in Seq(Nat)
  /\ received_header \in Header \cup {NoHeader}
  /\ parsing \in BOOLEAN
  /\ authed \in BOOLEAN
  /\ handled \in Seq([tid : Nat, body : Seq(Nat)])
  /\ shadow_words \in [last_tid : 0 .. Frames, synced : BOOLEAN]
  /\ promised \subseteq Tid
  /\ syncs \in 0 .. MaxSyncs
  /\ invoke_queue \in Seq(Written)
  /\ written \in Seq(Written)

Init ==
  /\ open = TRUE
  /\ arrived = 0
  /\ recv_buffer = <<>>
  /\ received_header = NoHeader
  /\ parsing = FALSE
  /\ authed = FALSE
  /\ handled = <<>>
  /\ shadow_words = NoWords
  /\ promised = {}
  /\ syncs = 0
  /\ invoke_queue = <<>>
  /\ written = <<>>

----------------------------------------------------------------------------
(* The Uv thread: a DataEvent and the loop of onData. *)

(* Bytes from .. to of the stream. *)
Bytes(from, to) == [k \in 1 .. to - from |-> from + k]

(* The header a buffer begins with.  Where no message begins, the bytes    *)
(* are read as some header all the same.                                   *)
HeaderOf(buffer) ==
  IF \E i \in Tid : buffer[1] = Start[i] + 1
  THEN LET i == CHOOSE i \in Tid : buffer[1] = Start[i] + 1
       IN  [tid |-> i, length |-> Length[i]]
  ELSE [tid |-> 0, length |-> 0]

(* Any number of the bytes under way arrives at once. *)
Data ==
  /\ open /\ ~parsing
  /\ \E to \in arrived + 1 .. Start[Frames + 1] :
       /\ arrived' = to
       /\ recv_buffer' = recv_buffer \o Bytes(arrived, to)
  /\ parsing' = TRUE
  /\ UNCHANGED <<open, received_header, authed, handled, answer_vars>>

(* Fault: one byte more than the header is taken for it. *)
ReadHeader_TooLong ==
  /\ parsing
  /\ received_header = NoHeader
  /\ Len(recv_buffer) > HeaderSize
  /\ received_header' = HeaderOf(recv_buffer)
  /\ recv_buffer' = SubSeq(recv_buffer, HeaderSize + 2, Len(recv_buffer))
  /\ UNCHANGED <<open, arrived, parsing, authed, handled, answer_vars>>

ReadHeader ==
  /\ parsing
  /\ received_header = NoHeader
  /\ Len(recv_buffer) >= HeaderSize
  /\ received_header' = HeaderOf(recv_buffer)
  /\ recv_buffer' = SubSeq(recv_buffer, HeaderSize + 1, Len(recv_buffer))
  /\ UNCHANGED <<open, arrived, parsing, authed, handled, answer_vars>>

(* Fault: whoever sends a document is let in. *)
HandleAuth_Anyone(i, kind) ==
  /\ authed' = (kind # "broken")
  /\ written' = Append(written, Reply(i))
  /\ UNCHANGED <<promise_vars, invoke_queue>>

(* handleAuth: every message has a reply, the right secret opens the door. *)
HandleAuth(i, kind) ==
  /\ authed' = (kind = "auth")
  /\ written' = Append(written, Reply(i))
  /\ UNCHANGED <<promise_vars, invoke_queue>>

(* Fault: a handler's reply goes the way of the promised ones. *)
ReplyNow_Sends(i, kind) ==
  /\ invoke_queue' = invoke_queue \o (IF kind = "broken" THEN <<>> ELSE <<Report(i)>>) \o <<Reply(i)>>
  /\ UNCHANGED <<promise_vars, written>>

(* A command served or refused at once.  The report of a command is queued *)
(* before the handler returns; there is none of what is no document.       *)
ReplyNow(i, kind) ==
  /\ written' = Append(written, Reply(i))
  /\ invoke_queue' = IF kind = "broken" THEN invoke_queue ELSE Append(invoke_queue, Report(i))
  /\ UNCHANGED promise_vars

(* Fault: the w.set before is called skipped, though it has had a result.  *)
SetWords_AlwaysSkips(i) ==
  LET older == IF shadow_words = NoWords THEN <<>> ELSE <<Skipped(shadow_words.last_tid)>>
  IN /\ invoke_queue' = invoke_queue \o older \o <<Report(i)>>
     /\ shadow_words' = [last_tid |-> i, synced |-> FALSE]
     /\ UNCHANGED <<promised, syncs, written>>

(* set_shadow_words: a w.set before it that no synchronisation has seen is *)
(* skipped.                                                                *)
SetWords(i) ==
  LET older == IF shadow_words.synced THEN <<>> ELSE <<Skipped(shadow_words.last_tid)>>
  IN /\ invoke_queue' = invoke_queue \o older \o <<Report(i)>>
     /\ shadow_words' = [last_tid |-> i, synced |-> FALSE]
     /\ UNCHANGED <<promised, syncs, written>>

(* What sync_state sends the client: the result for its last w.set, at     *)
(* every synchronisation anew, then an answer to each waiting g.*, in the  *)
(* order of the grammars' names.                                           *)
SyncAnswers(waiting) ==
  LET words == IF shadow_words.last_tid = 0 THEN <<>> ELSE <<Result(shadow_words.last_tid)>>
  IN  {words \o [k \in DOMAIN order |-> Answer(order[k])] : order \in SetToSeqs(waiting)}

(* shadow_grammars, as far as it is the client's. *)
WaitingGrammars == {j \in promised : Kind[j] = "grammar"}

(* set_shadow_grammar: an update of the same grammar that waits is skipped;*)
(* outside a pause the new one waits, in a pause all are synchronised.     *)
SetGrammar(i) ==
  \E older \in {<<>>} \cup {<<j>> : j \in WaitingGrammars} :
    LET skipped == [k \in DOMAIN older |-> Answer(older[k])]
        waiting == (WaitingGrammars \ ToSet(older)) \cup {i}
    IN  /\ \/ /\ invoke_queue' = invoke_queue \o skipped \o <<Report(i)>>
              /\ promised' = (promised \ ToSet(older)) \cup {i}
              /\ UNCHANGED <<shadow_words, syncs>>
           \/ /\ syncs < MaxSyncs
              /\ \E answers \in SyncAnswers(waiting) :
                   invoke_queue' = invoke_queue \o skipped \o answers \o <<Report(i)>>
              /\ promised' = promised \ WaitingGrammars
              /\ shadow_words' = [shadow_words EXCEPT !.synced = TRUE]
              /\ syncs' = syncs + 1
        /\ UNCHANGED written

(* A mimic that Dragon has taken: its answer comes with Dragon's report.   *)
Mimic(i) ==
  /\ promised' = promised \cup {i}
  /\ invoke_queue' = Append(invoke_queue, Report(i))
  /\ UNCHANGED <<shadow_words, syncs, written>>

(* handle_message: w.set, g.* and mimic that are taken have no reply; their*)
(* answers come later, unless a g.* is synchronised by its handler.        *)
HandleCommand(i, kind) ==
  /\ UNCHANGED authed
  /\ \/ kind \in {"auth", "broken", "command"} /\ ReplyNow(i, kind)
     \/ kind = "words" /\ SetWords(i)
     \/ kind = "grammar" /\ SetGrammar(i)
     \/ kind = "mimic" /\ Mimic(i)

(* What a body asks for.  A body that is none of those sent is no document.*)
KindOf(i, body) ==
  IF i \in Tid /\ body = Bytes(Start[i] + HeaderSize, Start[i + 1]) THEN Kind[i] ELSE "broken"

(* handleMessage on the body that has arrived. *)
Handle(i, body) ==
  /\ handled' = Append(handled, [tid |-> i, body |-> body])
  /\ IF authed THEN HandleCommand(i, KindOf(i, body)) ELSE HandleAuth(i, KindOf(i, body))

(* Fault: a body is waited for that has no bytes. *)
HandleMessage_NotEmpty ==
  LET length == received_header.length IN
  /\ parsing
  /\ received_header # NoHeader
  /\ Len(recv_buffer) >= length /\ recv_buffer # <<>>
  /\ Handle(received_header.tid, SubSeq(recv_buffer, 1, length))
  /\ recv_buffer' = SubSeq(recv_buffer, length + 1, Len(recv_buffer))
  /\ received_header' = NoHeader
  /\ UNCHANGED <<open, arrived, parsing>>

(* Fault: one message is taken from each piece of data. *)
HandleMessage_Once ==
  LET length == received_header.length IN
  /\ parsing
  /\ received_header # NoHeader
  /\ Len(recv_buffer) >= length
  /\ Handle(received_header.tid, SubSeq(recv_buffer, 1, length))
  /\ recv_buffer' = SubSeq(recv_buffer, length + 1, Len(recv_buffer))
  /\ received_header' = NoHeader
  /\ parsing' = FALSE
  /\ UNCHANGED <<open, arrived>>

HandleMessage ==
  LET length == received_header.length IN
  /\ parsing
  /\ received_header # NoHeader
  /\ Len(recv_buffer) >= length
  /\ Handle(received_header.tid, SubSeq(recv_buffer, 1, length))
  /\ recv_buffer' = SubSeq(recv_buffer, length + 1, Len(recv_buffer))
  /\ received_header' = NoHeader
  /\ UNCHANGED <<open, arrived, parsing>>

(* The loop ends where the rest is too short. *)
Break ==
  /\ parsing
  /\ IF received_header = NoHeader THEN Len(recv_buffer) < HeaderSize
     ELSE Len(recv_buffer) < received_header.length
  /\ parsing' = FALSE
  /\ UNCHANGED <<open, arrived, recv_buffer, received_header, authed, handled, answer_vars>>

(* A function queued by UvServer::publish or send: it writes to a client   *)
(* that is still there.                                                    *)
RunQueue ==
  /\ ~parsing
  /\ invoke_queue # <<>>
  /\ written' = IF open THEN Append(written, Head(invoke_queue)) ELSE written
  /\ invoke_queue' = Tail(invoke_queue)
  /\ UNCHANGED <<reader_vars, promise_vars>>

(* The CloseEvent: no function finds the client any more, and its words    *)
(* are to be removed.                                                      *)
Close ==
  /\ open /\ ~parsing
  /\ open' = FALSE
  /\ shadow_words' = IF shadow_words = NoWords THEN NoWords
                     ELSE [shadow_words EXCEPT !.synced = FALSE]
  /\ UNCHANGED <<arrived, recv_buffer, received_header, parsing, authed, handled,
                 promised, syncs, invoke_queue, written>>

----------------------------------------------------------------------------
(* What others do to the promises of a client that is there. *)

(* sync_state: a pause begins, or in one another client leaves or updates  *)
(* a grammar.                                                              *)
Synchronise ==
  /\ open /\ ~parsing
  /\ syncs < MaxSyncs
  /\ \E answers \in SyncAnswers(WaitingGrammars) : invoke_queue' = invoke_queue \o answers
  /\ promised' = promised \ WaitingGrammars
  /\ shadow_words' = [shadow_words EXCEPT !.synced = TRUE]
  /\ syncs' = syncs + 1
  /\ UNCHANGED <<reader_vars, written>>

(* Another client replaces a waiting update: it is skipped, or forgotten   *)
(* where that client has left.                                             *)
Replace(i) ==
  /\ open /\ ~parsing
  /\ i \in WaitingGrammars
  /\ promised' = promised \ {i}
  /\ invoke_queue' \in {invoke_queue, Append(invoke_queue, Answer(i))}
  /\ UNCHANGED <<reader_vars, shadow_words, syncs, written>>

(* draconity_mimic_done, on Dragon's thread: any mimic that waits may be   *)
(* the one that is answered, and none need ever be.                        *)
MimicDone(i) ==
  /\ open
  /\ i \in promised
  /\ Kind[i] = "mimic"
  /\ promised' = promised \ {i}
  /\ invoke_queue' = Append(invoke_queue, Answer(i))
  /\ UNCHANGED <<reader_vars, shadow_words, syncs, written>>

----------------------------------------------------------------------------

Next ==
  \/ Data \/ ReadHeader \/ HandleMessage \/ Break \/ RunQueue \/ Close
  \/ Synchronise \/ \E i \in Tid : Replace(i) \/ MimicDone(i)

Spec == Init /\ [][Next]_vars

(* The loop of onData goes on and the Uv loop runs what is queued.  That a *)
(* promise is ever kept is not assumed: no pause need come, Dragon need    *)
(* not report, and an update may be forgotten.                             *)
FairSpec ==
  /\ Spec
  /\ WF_vars(ReadHeader \/ HandleMessage \/ Break)
  /\ WF_vars(RunQueue)

----------------------------------------------------------------------------

(* However the stream is cut up on its way, handleMessage gets the         *)
(* messages that were sent, whole, in order, each under its own tid.       *)
FramesAsSent ==
  /\ Len(handled) <= Frames
  /\ \A i \in DOMAIN handled :
       handled[i] = [tid |-> i, body |-> Bytes(Start[i] + HeaderSize, Start[i + 1])]

(* When onData returns, every message that has arrived has been handled:   *)
(* none waits in the buffer for bytes of the next one.                     *)
NothingHeldBack ==
  ~parsing => \A i \in Tid : Start[i + 1] <= arrived => i <= Len(handled)

(* A message reaches the commands only if one before it has presented the  *)
(* secret: else it is answered and leaves no trace.                        *)
SecretFirst ==
  \A i \in promised \cup {invoke_queue[k].tid : k \in DOMAIN invoke_queue}
              \cup ({shadow_words.last_tid} \ {0}) :
    \E j \in 1 .. i - 1 : Kind[j] = "auth"

(* What is written is in the order of the requests: handlers' replies, and *)
(* reports of commands, never a report before the reply to its command.    *)
(* Promised answers may come at any time: replies overtake them.           *)
RepliesInOrder ==
  \A k, l \in DOMAIN written :
    k < l =>
      /\ written[k].what = written[l].what /\ written[k].what \in {"reply", "report"}
           => written[k].tid < written[l].tid
      /\ written[k].what = "report" /\ written[l].what = "reply"
           => written[k].tid # written[l].tid

(* All that is sent to the client, written or on its way, and the answers  *)
(* to request i in it.                                                     *)
Sent == written \o invoke_queue

AnswersTo(i) == {k \in DOMAIN Sent : Sent[k].tid = i /\ Sent[k].what # "report"}

(* A request is answered once, by its handler or later, and not while its  *)
(* answer is still promised.  Only the result of a w.set may come again;   *)
(* one that was skipped has no result, and once a later one is answered no *)
(* earlier one is heard of.                                                *)
AnswersAsPromised ==
  /\ \A i \in promised : AnswersTo(i) = {}
  /\ \A i \in Tid : \A k, l \in AnswersTo(i) : k # l => Sent[k] = Result(i) /\ Sent[l] = Result(i)
  /\ \A k, l \in DOMAIN Sent :
       k < l /\ {Sent[k].what, Sent[l].what} \subseteq {"skipped", "result"}
         => Sent[k].tid <= Sent[l].tid

(* Every message that has arrived whole is replied to or, where the answer *)
(* is promised for later, reported as taken, unless the client leaves.     *)
EveryMessageHeard ==
  \A i \in Tid :
    Start[i + 1] <= arrived
      ~> (~open \/ \E k \in DOMAIN written : written[k] \in {Reply(i), Report(i)})
=============================================================================
