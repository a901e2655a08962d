------------------------------ MODULE UvServer ------------------------------
(***************************************************************************)
(* UvServer::invoke and UvServer::drain_invoke_queue: how Dragon's threads *)
(* and the Uv thread itself hand functions to the Uv thread.  One step is  *)
(* one operation on the mutex, the queue or the async handle.  The async   *)
(* handle (libuv, external) is a flag: any number of send() calls before   *)
(* the loop looks at it make one AsyncEvent.                               *)
(***************************************************************************)
EXTENDS Integers, Sequences

CONSTANTS
  Dragon,     \* Dragon's threads
  Uv,         \* the thread that runs the loop
  Free,       \* the mutex is not held
  MaxCalls    \* bound: calls of invoke by each thread

Thread == Dragon \cup {Uv}

ASSUME UvServerAssumption ==
  /\ Uv \notin Dragon
  /\ Free \notin Dragon \cup {Uv}
  /\ MaxCalls \in Nat

VARIABLES
  lock,           \* UvServer::lock: the thread that holds it
  invoke_queue,   \* UvServer::invoke_queue
  async,          \* external: a send() the loop has not yet reacted to
  functions,      \* drain_invoke_queue's local batch
  pc,             \* [Thread -> where the thread is in invoke]
  uv,             \* where the Uv thread is in the loop and in drain_invoke_queue
  calls,          \* [Thread -> number of calls of invoke it has begun]
  ran             \* history: the calls run, in order

vars == <<lock, invoke_queue, async, functions, pc, uv, calls, ran>>

Call == Thread \X (1 .. MaxCalls)

TypeOK ==
  /\ lock \in Thread \cup {Free}
  /\ invoke_queue \in Seq(Call)
  /\ async \in BOOLEAN
  /\ functions \in Seq(Call)
  /\ pc \in [Thread -> {"out", "lock", "push", "unlock", "send"}]
  /\ uv \in {"loop", "lock", "move", "unlock", "run"}
  /\ calls \in [Thread -> 0 .. MaxCalls]
  /\ ran \in Seq(Call)

Init ==
  /\ lock = Free
  /\ invoke_queue = <<>>
  /\ async = FALSE
  /\ functions = <<>>
  /\ pc = [t \in Thread |-> "out"]
  /\ uv = "loop"
  /\ calls = [t \in Thread |-> 0]
  /\ ran = <<>>

----------------------------------------------------------------------------
(* UvServer::invoke.  The Uv thread calls it from a handler of the loop or *)
(* from a function drain_invoke_queue runs, never in between.              *)

Enter(t) ==
  /\ pc[t] = "out"
  /\ t = Uv => uv \in {"loop", "run"}
  /\ calls[t] < MaxCalls
  /\ calls' = [calls EXCEPT ![t] = @ + 1]
  /\ pc' = [pc EXCEPT ![t] = "lock"]
  /\ UNCHANGED <<lock, invoke_queue, async, functions, uv, ran>>

Lock(t) ==
  /\ pc[t] = "lock"
  /\ lock = Free
  /\ lock' = t
  /\ pc' = [pc EXCEPT ![t] = "push"]
  /\ UNCHANGED <<invoke_queue, async, functions, uv, calls, ran>>

Push(t) ==
  /\ pc[t] = "push"
  /\ invoke_queue' = Append(invoke_queue, <<t, calls[t]>>)
  /\ pc' = [pc EXCEPT ![t] = "unlock"]
  /\ UNCHANGED <<lock, async, functions, uv, calls, ran>>

Unlock(t) ==
  /\ pc[t] = "unlock"
  /\ lock' = Free
  /\ pc' = [pc EXCEPT ![t] = "send"]
  /\ UNCHANGED <<invoke_queue, async, functions, uv, calls, ran>>

(* Fault: the loop is woken only if it is not running functions already. *)
Send_WhenIdle(t) ==
  /\ pc[t] = "send"
  /\ async' = (async \/ uv = "loop")
  /\ pc' = [pc EXCEPT ![t] = "out"]
  /\ UNCHANGED <<lock, invoke_queue, functions, uv, calls, ran>>

Send(t) ==
  /\ pc[t] = "send"
  /\ async' = TRUE
  /\ pc' = [pc EXCEPT ![t] = "out"]
  /\ UNCHANGED <<lock, invoke_queue, functions, uv, calls, ran>>

Invoking(t) == Lock(t) \/ Push(t) \/ Unlock(t) \/ Send(t)

----------------------------------------------------------------------------
(* The loop and drain_invoke_queue. *)

(* The loop clears the flag before it runs the AsyncEvent handler.  It is  *)
(* in no handler then.                                                     *)
Wake ==
  /\ uv = "loop"
  /\ pc[Uv] = "out"
  /\ async
  /\ async' = FALSE
  /\ uv' = "lock"
  /\ UNCHANGED <<lock, invoke_queue, functions, pc, calls, ran>>

DrainLock ==
  /\ uv = "lock"
  /\ lock = Free
  /\ lock' = Uv
  /\ uv' = "move"
  /\ UNCHANGED <<invoke_queue, async, functions, pc, calls, ran>>

DrainMove ==
  /\ uv = "move"
  /\ functions' = invoke_queue
  /\ invoke_queue' = <<>>
  /\ uv' = "unlock"
  /\ UNCHANGED <<lock, async, pc, calls, ran>>

DrainUnlock ==
  /\ uv = "unlock"
  /\ lock' = Free
  /\ uv' = "run"
  /\ UNCHANGED <<invoke_queue, async, functions, pc, calls, ran>>

(* Fault: the batch is run newest first. *)
RunFunction_Last ==
  /\ uv = "run"
  /\ pc[Uv] = "out"
  /\ functions # <<>>
  /\ ran' = Append(ran, functions[Len(functions)])
  /\ functions' = SubSeq(functions, 1, Len(functions) - 1)
  /\ UNCHANGED <<lock, invoke_queue, async, pc, uv, calls>>

(* The next function of the batch runs; what it invokes is an Enter(Uv)    *)
(* before the one after it.                                                *)
RunFunction ==
  /\ uv = "run"
  /\ pc[Uv] = "out"
  /\ functions # <<>>
  /\ ran' = Append(ran, Head(functions))
  /\ functions' = Tail(functions)
  /\ UNCHANGED <<lock, invoke_queue, async, pc, uv, calls>>

DrainReturn ==
  /\ uv = "run"
  /\ pc[Uv] = "out"
  /\ functions = <<>>
  /\ uv' = "loop"
  /\ UNCHANGED <<lock, invoke_queue, async, functions, pc, calls, ran>>

Loop == Wake \/ DrainLock \/ DrainMove \/ DrainUnlock \/ RunFunction \/ DrainReturn

(* The bound on calls is reached and the loop has no event left to handle. *)
Finished ==
  /\ \A t \in Thread : pc[t] = "out" /\ calls[t] = MaxCalls
  /\ uv = "loop"
  /\ ~async
  /\ UNCHANGED vars

Next == Loop \/ Finished \/ \E t \in Thread : Enter(t) \/ Invoking(t)

Spec == Init /\ [][Next]_vars

(* Every thread goes on with what it has begun.  Weak fairness is enough   *)
(* for the mutex because each thread calls invoke finitely often.          *)
FairSpec ==
  /\ Spec
  /\ WF_vars(Loop)
  /\ \A t \in Thread : WF_vars(Invoking(t))

----------------------------------------------------------------------------

(* The thread that holds the mutex is the one inside a critical section:   *)
(* queue and batch are never touched by two threads at once, and a thread  *)
(* never waits for a mutex it holds itself.                                *)
MutualExclusion ==
  /\ \A t \in Dragon : pc[t] \in {"push", "unlock"} <=> lock = t
  /\ (pc[Uv] \in {"push", "unlock"} \/ uv \in {"move", "unlock"}) <=> lock = Uv

(* No wake-up is lost: a call in the queue has a send() to come, a send()  *)
(* the loop has still to see, or a drain that has still to take the queue. *)
NoLostWakeup ==
  invoke_queue # <<>> =>
     \/ async
     \/ uv \in {"lock", "move"}
     \/ \E t \in Thread : pc[t] \in {"unlock", "send"}

(* invoke and drain_invoke_queue make a first-in first-out channel: a call *)
(* that was queued is run once, after all that were queued before it, also *)
(* when it is queued by a function that is being run.                      *)
Channel == INSTANCE UvChannel WITH waiting <- functions \o invoke_queue

ImplementsChannel == Channel!Spec

(* Every call is run in the end, however sends and drains overlap. *)
ImplementsFairChannel == Channel!FairSpec
=============================================================================
