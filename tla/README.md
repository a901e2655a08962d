# A verification project for Draconity

Draconity is a library that is loaded into Dragon (a speech recogniser) and
lets other programs, its *clients*, install grammars and words in Dragon, have
phrases sent to them and mimic speech. Clients connect over TCP or a pipe and
speak BSON in frames; Dragon calls Draconity back on its own threads. Paths
below are those of the repository: the code is under `src/`.

## 1. The system

### Threads

* **Dragon's threads** run the callbacks Draconity registers: the pause callback
  `draconity_paused`, `draconity_mimic_done`, `draconity_attrib_changed`, the
  phrase callbacks of `phrase.cpp` and the hooked engine functions of `shim.cpp`.
* **The Uv thread** runs one libuv loop (`UvServer::run`): connections, messages,
  the pause timer, and the functions that other threads, or itself, hand to it
  with `UvServer::invoke`. It runs one handler at a time to its end.

Nearly all state belongs to the Uv thread; what crosses over is the invoke queue
(one mutex, one async handle), `mimic_queue` (its own mutex), `ready`, and, with
no lock on the reading side, `grammars`.

### Components, their state and operations

| component | state | operations | what makes it correct |
|---|---|---|---|
| Connections (`transport/server.cpp`, `transport/client.h`) | `clients`, `authed`, `client_nonce` | accept, authenticate, close | ids are never reused; nothing but authentication before authentication |
| Invoke queue (`transport/server.cpp`) | `lock`, `invoke_queue`, the async handle | `invoke`, `drain_invoke_queue` | FIFO, every call run once and in the end, no deadlock when a function invokes |
| Pause handshake (`draconity.cpp` 561-609) | `pause_token`, `pause_clients`, `pause_timer` | a pause is reported, queued, handled; `unpause`; disconnection; timer | Dragon always runs again, not before everybody asked has answered, left or timed out; never a stale token |
| Shadow vocabulary (`draconity.cpp` 388-521, 545-559) | `shadow_words`, `loaded_words` | `w.set`, disconnection, `sync_words` | Dragon has the union of what the clients want; answers say so |
| Shadow grammars (`draconity.cpp` 98-386, 531-543) | `grammars`, `shadow_grammars` | `g.set`, `g.unload`, disconnection, `sync_grammars` | the record is what Dragon has; answers are true, final and not forgotten; a leaver's grammars go |
| Mimic (`server.cpp` 406-456, 560-578) | `mimic_queue` | `mimic`, the mimic-done callback | every request gets its own answer |
| Engine life cycle (`shim.cpp`, `server.cpp` 494-558) | `engine`, `ready`, `micstate`, `readyLock` | hooks, `engine_acquire`, `draconity_ready`, attribute changes, `ready`, `mic.set_state` | the engine that is known calls back; ready is announced once and first; nobody is stuck |
| Framing (`client.h` 29-138) | `recv_buffer`, `received_header`, `authed` | `onData`, `handleMessage`, `writeMessage` | any split of the byte stream gives the same messages, at once; each is answered or noted, and answers keep to what was promised |
| Phrases (`phrase.cpp`, `get_grammar`) | none of its own; reads `grammars` without a lock | begin, hypothesis, end | a phrase goes to the client that owns the grammar, in order |
| Code hooks (`code_hook.cpp`, `abstract_platform.cpp`, `shim.cpp` 206-296) | the engine library's code and pages, `original`, `active` | `draconity_install`, `CodeHook::setup`, `protectRW`, `protectRX` | no hook harms a function; what Dragon calls is executable, whatever the system refuses to other hooks |
| Clocks, configuration | | start-up | arithmetic |

### How they interact

A client's `w.set` and `g.set` only change the *shadow state*. It is pushed into
Dragon (`sync_state`) when Dragon pauses between two utterances, on every `g.*`
command during that pause, and when a client disconnects during it. A pause is
reported on Dragon's thread with a token, travels through the invoke queue,
synchronises, and is published to all clients; Dragon is resumed when the last
client that was asked sends the token back or leaves, or when the timer fires.

### What is hard about it

The step between the report of a pause and its handling; clients that come, go
and fall silent during a pause; the three places that resume; updates of the same
grammar by two clients; a client that leaves with an update waiting; partial
failures of the engine in the middle of a synchronisation, and what each client is
then told; coalesced wake-ups of the loop; the report of a mimic racing the
command that started it; callbacks that look a grammar up by its address while
the table changes; several threads that find the engine at once; a byte stream cut
anywhere; patching code that lies on two pages. `PROJECT.json` lists every such hazard at its line, with
the properties that cover it or a note that says why none does.

## 2. The modules

    Clients ── Words ────┐
       │  └─── Grammars ─┼── Draconity ── MCDraconity (TLC)
       │  └─── Pause ────┘      │   └──── DraconityProofs ── GrammarProofs   (TLAPS)
       │                        └ refines PauseContract and GrammarTable
       ├─── Mimic ── MCMimic, MimicProofs
       └─── Phrases ── MCPhrases, PhrasesProofs
                 └ refines GrammarTable
    UvServer ── MCUvServer, UvServerProofs
       └ refines UvChannel
    Framing ── MCFraming, FramingProofs
    Engine ── MCEngine, EngineProofs
    Hooks ── MCHooks, HooksProofs

**Clients** is the connection table. It joins a connection to `clients` when it is
accepted, before it has authenticated, as the code does. `MaxClients` bounds the
connections of one behaviour; ids count up and are never given out again.

**Words** is the vocabulary half of the shadow state. `shadow_words` has an entry
for every possible client; one without an entry in the code's map is the entry
whose `last_tid` is `NoTid`. The engine's calls (external) appear as the set of
words it refuses to add or to delete in one synchronisation (`WordOutcome`), which
TLC chooses freely among the kinds `WordFaults` allows. `wset` records the last
answer each request got.

**Grammars** is the grammar half. A Grammar object is a record of what the code
keeps (`blob`, `rules`, `lists`, `enabled`, and whose request it last
synchronised); `dragon_grammars` is what Dragon has loaded behind that object's
handle, and `stray_grammars` the names that are loaded behind a handle nobody
keeps any more. `SyncName` follows `sync_grammar`, `load_grammar`, `sync_rules`,
`set_list` and `remove_grammar` in their order, on one record of everything they
touch; which engine calls fail is again chosen freely (`CallOutcome`), among the
kinds in `GrammarFaults`. `SyncGrammars` does this for every name: names do not
influence each other, so the order of the code's unordered map is immaterial.
A request's contents are the constants `WRequest` and `GRequest`, so that the
state carries transaction ids only.

**Pause** holds the handshake's state, the functions in the invoke queue that are
part of it (the pause itself and the publication of the token; other queued
functions only deliver messages and change nothing modelled here), and Dragon's
side of it: one pause at a time, numbered with tokens other than 0, ignoring a
`Resume` with another token than the one it waits for. `pause_token` starts as any
member of `Uninit`, because the constructor does not set it; every run admits junk
there. `owing` is a history variable: who was asked in the last pause and has neither
answered nor left.

**Draconity** composes the four: one action per handler of the Uv thread and one
for Dragon's pause callback. A handler is one step, since the Uv thread runs it to
its end and no other thread touches that state. Each action is the whole handler:
`RunPause` synchronises, counts the clients, starts the timer and queues the
publication; `Disconnect` forgets the connection, clears its state, synchronises
if Dragon is paused and answers for it.

**PauseContract** says what the handshake promises in three variables (is Dragon
running, has it reported a pause, or is it held; who is connected; who is waited
for). `Draconity!Contract` is the refinement.

**GrammarTable** says what Dragon's callbacks may count on: who owns which grammar, and
which of them Dragon knows, changes only while the table is open; what is owned is known;
and, if Dragon does what it is told, nothing else is known. `Draconity!GrammarContract`
and `Phrases!GrammarContract` are the refinements. In Draconity the table is open while
Dragon is held, and, before the first pause, while `pause_token` has not been set
(`Leftover`): a `g.set` is then synchronised while Dragon runs. It is the joint between
the two models: `Draconity` computes the table from requests, synchronisations and
failures, and `Phrases` has a table of its own that changes in every way `GrammarTable`
and the reuse of addresses admit while Dragon is held, one grammar at a time. What
phrases do in the time of a leftover token is therefore not claimed.

**UvServer** is `invoke` and `drain_invoke_queue` at the grain of single operations
on the mutex, the queue and the async handle. The async handle (libuv, external) is
a flag the loop clears before it runs the handler. **UvChannel** is what it
implements: the FIFO that `Pause!invoke_queue` is in the composed model. `Pause`
takes the functions off that queue one at a time; `UvServer` moves a batch and runs
it. The refinement `waiting <- functions \o invoke_queue` shows that this is the
same queue.

**Mimic** has the command as two steps, the engine call and the queueing, because
Dragon's thread can report in between. `Slips` says what is admitted: `"race"`,
that it does; `"freed"`, that `draconity_mimic_done` finds anything at all when it
reads, through a reference, the queue entry it has just popped. The run admits
neither, so its properties are about the order of the queue and not about these two.

**Phrases** is what Dragon hears on its way to a client. A callback is two steps:
the search of the table (`get_grammar`), after which the thread holds a
`shared_ptr`, and the reading of the owner and queueing of the message
(`Publish`). Two threads make callbacks, one for beginnings and ends, one for
hypotheses (`PhraseHypothesisCallbackThread`, `shim.cpp` 46). The Uv thread changes
the table only while Dragon is held, which is what `GrammarTable` says of Draconity; here
it loads, hands over and removes any grammar for any client that has been there (a
grammar that was waiting may be loaded for one that has left), so this
module does not depend on the details of Grammars. Dragon holds recognition only
between phrases, but a hypothesis on its own thread may still be under way: such a
callback is *disturbed*, its unlocked walk of the table may find anything (a data
race), and no property is claimed for it except the order. A `Key` is an address and
may be given to a new object once the old one is gone and nobody holds it.

**Framing** is one connection. A byte is represented by its position in what the
client sends, so a message is right exactly if it is made of the right positions;
bytes arrive in pieces of any length (`Data`), and `onData` takes headers and bodies
off the buffer one step at a time (`ReadHeader`, `HandleMessage`, `Break`), each step
with all that the handler does. What is written comes at once (a handler's reply) or
by way of the invoke queue (an answer that comes later, the report of a command to
everybody). What a body asks for is one of six kinds, since nothing else of it matters
here; an empty body is no BSON document. Of a `w.set` the client's `last_tid` and
`synced` are kept: it is told once that it was skipped, or its result at every
synchronisation until another takes its place (`SetWords`, `SyncAnswers`). A `g.*`
waits for a synchronisation and may be skipped, or forgotten, for another client's
(`SetGrammar`, `Replace`); a mimic waits for a report of Dragon's that need not come
(`MimicDone`). When the synchronisations happen is left open; `MaxSyncs` bounds them.

**Engine** has one step for each access to what the threads share: the test and the
setting of `draconity->engine`, the registration, `ready` before and under
`readyLock`. Calls begin in Dragon's hooked functions (`Create`, `Use`), in its
attribute callback, or on the Uv thread with a client's `ready` or `mic.set_state`,
whose engine call goes through a hook too, with a null engine if there is none yet.
`told` is a history of the status messages with those that are lost because the
network thread has not created the server. Two threads between the test and the
setting of `engine`, and a null engine set by a command, are among its behaviours:
callbacks are then registered more than once, or for nothing.

**Hooks** is the start-up: `draconity_install`, and `CodeHook::setup` in the order in
which it touches code and pages. The engine library is given by constants: where each
function begins, how long it is, and where its instructions begin (`Entry`, `Size`,
`Length`; `HooksAssumption` says that functions are runs of whole instructions and do not
overlap). It lies at any offset in a page, with any of the hooked symbols missing. Memory
is a byte per address that says what is there: the original byte or a byte of a jump.
The loop of `dis_code_size` is one action per instruction (`Decode`); bytes torn by an
earlier jump decode to anything. `Keep` copies what it found to the trampoline. The
system may refuse what it is asked: memory for the trampoline (`NoMemory`, which ends
Dragon at NULL), making it executable (its `runs`), making pages writable or executable
again (`Protect`); the code looks at none of it, and `refused` is a history variable that
says which hooks it befell. Both platforms are there; they differ
in the pages they protect and in whether a missing library is reported. On the Mac
`applyHooks` follows the order of the library's symbols and on Windows that of the
list, so hooks are set up in any order.

Definitions under a comment that begins with *Fault:* are not part of any
specification. They are the ways of getting the definition after them wrong that
the properties are tried on.

## 3. What is checked

A state of the models is small, so the bounds are chosen for which cases occur,
and the instances are explored completely.

| run | instance | states | what it shows |
|---|---|---|---|
| `pause` | 3 connections, 3 pauses, `pause_token` starts as 0 or junk; no words or grammars | 22 thousand | the handshake: safety, refinement and liveness |
| `words` | 2 connections, 1 pause, `pause_token` 0 or junk, 2 overlapping vocabularies, 1 grammar request, any addition may fail | 546 thousand | vocabulary, grammars and pauses together |
| `grammars` | 2 connections, 1 pause, 1 grammar, 3 requests (load, reload with the same rules, update in place), `pause_token` 0 or junk; loads, registrations, rules and lists may fail | 1.48 million | the grammar half, and that it keeps to `GrammarTable` |
| `invoke` | 2 Dragon threads and the Uv thread, 2 calls each | 178 thousand | queue, wake-ups, refinement, liveness, no deadlock |
| `mimic` | 2 connections, 2 requests each | 3 thousand | answers to mimics |
| `phrases` | 2 connections, 2 grammars, 2 addresses, 2 callbacks | 783 thousand | lookups by address against the changing table |
| `framing` | 9 messages of 0 to 2 bytes, headers of 2 bytes, 2 synchronisations | 150 thousand | any split of the stream, replies and answers |
| `engine` | 2 Dragon threads and the Uv thread, 2 engines, 3 calls | 331 thousand | registration, readiness, `readyLock` |
| `hooks` | 4 functions, pages of 4 bytes, jumps of 3, both platforms, every offset, any refusal | 228 thousand | patching, page protection, start-up order |

*Why these bounds are enough.* Three connections give one that has answered, one
that has left and one that is still waited for; three pauses give a late answer to
the first during the third. One pause is enough where only synchronisation matters:
every `g.*` command and every disconnection during it synchronises again, so the
second and third synchronisation meet what the first has loaded. Two clients and two
requests each give an update that replaces the client's own, one that replaces
another client's, and a client that leaves with either waiting. Two Dragon threads
and two calls give a call that comes before, during and after a drain. Two callbacks
are one on each of Dragon's threads, or a beginning and an end on one; two addresses
and two names let a key be freed and given again to the other grammar while a
callback is under way. The nine messages hold one that comes before the secret, an empty one, the
secret, a command, two `w.set` and two `g.set` by turns and a mimic, and arrive in every
split of their bytes; with two synchronisations a `w.set` is skipped, or has its result
twice, or a later one its own. Three calls on three threads are all that can stand between test and
setting, or at `readyLock`, together. The functions in `hooks` have instructions that
end before, at and behind the end of the jump, one of them is shorter than a jump,
and with pages of four bytes every way of lying on one page or two occurs. In `invoke`
deadlock is checked; the other models stop when the bounds are used up or nobody has
anything to do, and say `CHECK_DEADLOCK FALSE`.

The properties, by what they guard:

* *What Draconity knows of Dragon's pause is right* at every step between the two
  threads: `NoStaleToken`, `ImplementsContract`.
* *Waiting for the right clients*: `WaitingOnSomeone` (with the timer running, exactly
  while a token is in force), `WaitsForOwing`, `NoEarlyResume`.
* *Dragon runs again*: `DragonResumes`, so no pause is lost on its way either.
* *The engine is only touched while it is held*: `GuardedFromFirstPause`: from the first
  pause on, and before it only while the token is leftover memory; *and
  nothing waits then*: `NoGrammarWaitsWhilePaused`.
* *What callbacks look up is what Dragon calls for*: `ImplementsTable`.
* *Record and engine agree*: `SyncedWordsLoaded`, `VocabularyIsUnion`,
  `GrammarMirrors`, `LeaversGrammarsGo`; `OnlyErrorsLeaveStray`: what Dragon has and
  Draconity has forgotten comes of an update answered with an error, or whose client
  has left, and of nothing else.
* *Answers are true, final and not forgotten*: `SuccessMeansInForce`,
  `WordAnswerIsFinal`, `GrammarAnswerIsFinal`, `PendingWordsWait`,
  `OnlyOwnersLeaveForgets`, `MimicsAnswered`.
* *The queue*: `NoLostWakeup`, `ImplementsFairChannel` (first in first out, and every call
  run in the end); `QueueMatchesDragon` for mimics.
* *Phrases reach their owner*: `KeysAreLive` (no key is that of an object that is gone,
  or of one made later at its address), `PhraseReachesOwner`, `PhrasesInOrder`,
  `PhrasesArrive`.
* *Messages are cut where they were put together*: `FramesAsSent`, `NothingHeldBack`;
  *and answered as promised*: `SecretFirst`, `EveryMessageHeard` (each has a reply or,
  where its answer is to come, a report), `RepliesInOrder` (replies overtake promised
  answers, and only those) and `AnswersAsPromised`: one answer to each request, if any,
  but for the results of a `w.set`, which come again at each synchronisation, never after
  those of a later one and never once it was skipped. That a promised answer comes is not
  claimed: it does not always (`OnlyOwnersLeaveForgets`, and the mimic below).
* *One engine, ready once*: `ReadyOnce`, `SpeakerChangeAfterReady`, `CallsReturn`, and
  `EngineCallsBack`: whoever raced to set the engine, the one that is known in the end has
  Draconity's callbacks. That they are registered once is not so, nor claimed.
* *Hooks do no harm*: `CallsSafe`, of every moment and not only between two hooks: it
  excepts the one at work, since nothing holds Dragon's threads meanwhile, and those the
  system refused something; `OriginalsIntact` (of functions with room for the
  jump, which `setup` does not ask), and `FaultOnlyAcrossPages`: with nothing refused,
  patching fails on the Mac when the jump lies on two pages, and never otherwise.

*Fairness.* `Draconity!FairSpec` assumes that the Uv loop goes on running what is
queued (`WF` of `RunQueue`) and that a running timer fires (`WF` of `TimerFires`);
libuv does both as long as handlers return. Nothing is assumed of clients.
`UvServer!FairSpec` assumes that each thread goes on with what it has begun. Weak
fairness is enough for the mutex although `std::mutex` is not fair, because each
thread calls `invoke` finitely often, so the mutex is at last free for good unless it
is taken. `Mimic!FairSpec` assumes that the handler returns and that Dragon finishes
every mimic it accepted. `Phrases!FairSpec` assumes that a begin or an end that is being reported goes
on (hypotheses may get stuck) and that the Uv loop runs what is queued; `Framing!FairSpec` that the loop of
`onData` goes on and that the queue is run, and nothing of what is promised; `Engine!FairSpec` that each thread goes on.
There too calls are bounded, so weak fairness is enough for the mutex.

### Disagreements with the code's own comments

Three runs are expected to find a violation; `PROJECT.json` quotes the comment each
contradicts.

* `leaver_loaded`: a grammar that was asked for and never loaded is loaded after its
  client has gone.
* `uninit_token`: before the first pause a `g.set` goes straight into Dragon while it
  runs, if the constructor finds something other than 0 in `pause_token`.
  `GuardedFromFirstPause` shows that this is the only case.
* `failed_word_success`: a `w.set` that was answered with an error is answered with
  success at the next synchronisation, under the same transaction id.
  `WordAnswerIsFinal` shows that the other answers are not taken back.

Others follow from a constant of the models, without a run of their own. Each is the
case that a property excepts, or that the passing runs or the assumption of a theorem leave
out; the run named is the one to look at, or whose configuration to change.

* A client that leaves overwrites the update another client has waiting for its grammar
  (`draconity.cpp` 320), which is then never answered, against `server.cpp` 335.
  `OnlyOwnersLeaveForgets` (run `grammars`) shows that this is the only way a request is
  forgotten, and excepts it.
* A grammar whose callbacks could not be registered stays loaded behind a handle nobody
  keeps, against `draconity.cpp` 373. `"register"` is among the failures of run
  `grammars`; `OnlyErrorsLeaveStray` shows how far it goes.
* The result of the unload before a reload is ignored, and the record of the old
  grammar's rules is then taken for the new one's. With `"unload"` in `GrammarFaults`
  `SuccessMeansInForce` does not hold.
* A mimic that Dragon reports before the command has queued it is never answered,
  against `server.cpp` 455. With `"race"` in `Slips` (run `mimic`) `MimicsAnswered` does
  not hold; with `"freed"` the popped entry of `mimic_queue`, which
  `draconity_mimic_done` reads through a reference, may be anything, and the answer
  go to anybody.
* A grammar that Dragon would not unload is removed all the same, and its callbacks go
  on with the address of an object that is gone. With `"unload"` in `TableFaults` (run
  `phrases`) `KeysAreLive` does not hold, nor `PhraseReachesOwner` once the address is
  used again.

Three more are visible in the text and modelled or left out as they are: the microphone
state is told when it equals the last one, so that after the first only repetitions are
(`Engine!TellMic`, `server.cpp` 535); `DwTimeOutIncomplete` is set from `timeout` and not
from `timeout_incomplete` (`shim.cpp` 22); the comment on `dr_monotonic_offset`
(`dr_time.c` 74) has the difference the other way round than the code.

## 4. What is proved

TLAPS proves the following for every value of the constants that satisfies the named
assumptions: any number of clients, words, grammars, requests, pauses, threads,
messages and calls, and any set of engine failures unless it is said. Every invariant
and action property the passing runs check is proved. So are some that no run lists:
`PauseNotLost`, `MutualExclusion` and `ImplementsChannel`, which a listed property
implies on the instance (`DragonResumes`, `ImplementsFairChannel`), `RunInCallOrder`,
and `ReadyLockHeld`, `OnlyJumps` and the types, which are parts of an inductive invariant.

**DraconityProofs: the pause.** `PauseInv` is inductive: the types, `PauseNotLost`, `NoStaleToken`,
`WaitingOnSomeone`, `WaitsForOwing` and the part these need to be inductive,
`QueueOK`: at most one pause is queued, and it is the one Dragon waits in and Draconity
has not noticed. Without it a second queued pause could overwrite the token in force,
or an old one be handled after its resume. From `PauseInv` follow those four,
`NoEarlyResume` and the refinement `ImplementsContract`. Without a leftover in
`pause_token` a token other than 0 means that Dragon is held, so no handler touches words
or grammars in Dragon while it runs (`RunningUntouched`); and a leftover, once gone, does
not come back, nor outlives a pause (`LeftoverStep`). From these two
`GuardedFromFirstPause`, and half of `ImplementsTable` below. The proofs
need that leftover memory is not mistaken for a token (`PauseAssumption`) and nothing
of words and grammars: a synchronisation does not touch the handshake.

**DraconityProofs: the vocabulary.** `WordsInv` is inductive: types, `SyncedWordsLoaded`, that clients
that have left or never asked want nothing. From it `SyncedWordsLoaded` for any
failures, and `VocabularyIsUnion` if deletions do not fail
(`"delete" \notin WordFaults`), by way of `VocabularyWanted`: once all are
synchronised, nothing is loaded that nobody wants.

`AnswersInv` relates the answer to each `w.set` to the client's entry: the last one waits
until it is synchronised, and is answered from then on; what is skipped is never the last.
From it `PendingWordsWait` and `WordAnswerIsFinal`.

**GrammarProofs.** `GrammarsInv` is inductive: types; `ObjectsKept`, that a grammar that is
in the table between two handlers is enabled and belongs to the request that was last
synchronised for it; `ObjectsMirror`, that it is what Dragon has loaded, if unloading does
not fail; `NamesClean`, that nothing is loaded for a name that is not in the table, and
nothing is stray, if registering does not fail either; `ObjectsBacked`, that what is in the
table is known to Dragon whatever fails; and `Waiting`, that an update that
waits is pending and not answered. The step is proved on `SyncName` alone, because names do
not influence each other, and then lifted to `SyncGrammars` and to the handlers. From it:
`GrammarMirrors` and `SuccessMeansInForce` (`"unload" \notin GrammarFaults`),
`OnlyErrorsLeaveStray` (the same; registrations may fail), `GrammarAnswerIsFinal`,
`LeaversGrammarsGo`,
`NoGrammarWaitsWhilePaused`, `OnlyOwnersLeaveForgets`, the refinement `ImplementsTable`
(a step while the table is closed changes nothing, a step while it is open
is a change of the table after which what is owned is known, whatever `pause_token` starts
as and whatever fails), and the types of the whole
composition. The assumptions on failures are necessary: see the list in section 3.

**UvServerProofs.** `IInv` is inductive: types, `MutualExclusion`, `NoLostWakeup`, that
the batch is empty until a drain takes the queue (`UvOK`), and that the calls in the
channel are numbered below those their thread is still to push (`Fresh`), from which no
call is ever queued twice. From it follows `ImplementsChannel`: push is the channel's
`Invoke`, running a function is its `Run`, and moving the batch is a stutter because the
batch is empty before and the queue after. From `Fresh` also follows `RunInCallOrder`:
what has been run, is in the batch or is queued (`History`) has the calls of each thread
in ascending order, so they run in the order the thread made them, none twice. `Phrases`
and `Framing`, whose queue is one sequence, take this for granted.

**MimicProofs.** `IInv`: types, and that the queue is Dragon's own if no report overtakes
the queueing (`"race" \notin Slips`).

**PhrasesProofs.** `TypeInv` (types, and what is known at each place of a callback) and
`Quiet` (no beginning or end is under way while Dragon is held, so none is ever
disturbed) need nothing of Dragon's unloading. Nor does `Backed`, that what is in the
table is registered, which with the types gives `ImplementsTable`. With `TableFaults =
{}` (every unload and every registration takes) come `KeysAreLive`, and from it
`HoldsMeant`: a callback that the table has not changed under holds the grammar Dragon
meant. That is why `PhraseReachesOwner` is an invariant: the owner is read last, but
nobody can have changed it. `PhrasesInOrder` needs no such assumption; it rests on
`Ordered`: what is written is older than what is queued, which is older than what is
being made.

**FramingProofs.** `FrameInv`: the number of bytes used is always a message boundary, plus a
header if one is held, and the buffer is the rest of what has arrived (`Aligned`); when the
loop ends, the rest is too short (`Drained`). From it `FramesAsSent` and `NothingHeldBack`,
for any stream and split. `SentInv` then follows what is written and queued for each
message handled: `Told`, what there is of each request and in which order; `LastWords`,
that all that is said of the last `w.set` are results, none before it is synchronised. It gives `SecretFirst`, `RepliesInOrder` and `AnswersAsPromised`.

**EngineProofs.** `IInv`: types, `ReadyLockHeld`, `ReadyNoted` (between the announcement and
the unlock, `ready` is what the history says), `ReadyOnce`, `SpeakerChangeAfterReady` and
`EngineCallsBack`, which together are inductive.

**HooksProofs.** `HooksInv`: types; `Protected`, that pages no hook at work or refused
something has asked for are executable, and those of a hook that was refused nothing are
what it asked last; `Running`, the same of trampolines;
`OnlyJumps`, that a byte is what it was or that of the one jump that lies over it;
`Stored`, that what is set up has its original; `Crashed`, where patching can fail;
and `KeptOK`, that what has been decoded of a function, and what its trampoline holds, are
whole instructions of it. The last needs that the functions hooked have room for the jump:
then no jump reaches another function (`Apart`), so a function that is not hooked yet is
decoded as it was (`Untouched`, `DecodedWhole`), and the bytes decoded grow by one whole
instruction at a time. The Mac's pages are proved to be all of the jump's when it lies on one
page (`MacPages`), from which follows `FaultOnlyAcrossPages`. `Protected`, `Running` and `OnlyJumps` give
`CallsSafe`, `KeptOK` gives `OriginalsIntact`, for any library, page and jump size.

Only model-checked: liveness (`DragonResumes`, `ImplementsFairChannel`, `MimicsAnswered`,
`PhrasesArrive`, `EveryMessageHeard`, `CallsReturn`), which is out
of this prover's reach.

## 5. What is not modelled, and what is taken for granted

* Dragon reports one pause at a time, with new tokens other than 0, and ignores a
  `Resume` with the wrong one; it finishes mimics in the order it accepted them; an
  engine call that returns 0 took effect and one that fails did not.
* A client uses a transaction id once. (With ids used again an answer could not be
  attributed, by the client either.)
* Dragon makes a callback for a grammar only while it is loaded and Dragon runs; it
  reports beginnings and ends on one thread. It reports the microphone on one thread; on
  what other threads it calls the hooked functions is left open.
* An engine that is registered with a null pointer takes no effect; the code does not
  look at it further.
* The Zydis decoder finds the instructions that are there (external).
* Not modelled, because they change no state: `w.list` and `status`; logging. Because they
  are data no state depends on: BSON, the contents of phrases (`phrase_to_bson`,
  `result_to_bson`), the layout of lists handed to the engine (`set_list`), the engine's
  parameters, clocks (`dr_time.c`), configuration, which is read once.
* Not modelled, because nothing uses them: the hooks for foreign rules (`shim.cpp` 97-146,
  `set_dragon_enabled`), `CodeHook::revert`.
* Third party: libuv, uvw, libbson, cpptoml; the async handle is modelled as external.
* In `Hooks` the system grants or refuses the pages of one request together, and a page
  that could not be protected stays as it was. What Dragon's threads meet in a hook at
  work (the jump before `*original` is stored, `code_hook.cpp` 56-58, or a page that is
  not executable) would fail, and nothing in the code prevents it: `CallsSafe` says that
  nothing else does.

## 6. The plan

Done, in this order because the pause handshake carries everything else: `Clients`,
`Pause`, `Words`, `Grammars`, `Draconity` with `PauseContract`; `UvServer` with
`UvChannel`; `Mimic`; then `Phrases`, `Framing`, `Engine` and `Hooks`; the proofs of
section 4; `GrammarTable`, which joins `Phrases` to `Draconity`.

What could be added:

1. The other direction of that joint: that every table `GrammarTable` admits is one the
   loads, hand-overs and removals of `Phrases` reach. It takes an induction over the names
   that change in one synchronisation.
2. A server that is created late, composed with the pause handshake: a pause reported
   before that dereferences a null pointer (`server.cpp` 580-582).
3. The packing of lists (`set_list`) against a reference decoder.
