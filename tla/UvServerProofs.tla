--------------------------- MODULE UvServerProofs ---------------------------
(***************************************************************************)
(* The invoke queue for any number of threads and calls: no two threads    *)
(* touch it at once, no wake-up is lost, it is a first-in first-out        *)
(* channel, and the calls of a thread are run in the order it made them.   *)
(***************************************************************************)
EXTENDS UvServer, TLAPS

(* The Uv thread is in invoke only when it runs a handler or a function,   *)
(* and has a batch only while it drains.                                   *)
UvOK ==
  /\ pc[Uv] # "out" => uv \in {"loop", "run"}
  /\ uv \in {"loop", "lock", "move"} => functions = <<>>

(* A call that is in the channel or has been run was numbered before any   *)
(* that its thread is about to push.                                       *)
Numbered(s) ==
  \A i \in DOMAIN s :
    /\ s[i][2] <= calls[s[i][1]]
    /\ pc[s[i][1]] \in {"lock", "push"} => s[i][2] < calls[s[i][1]]

Fresh == Numbered(functions) /\ Numbered(invoke_queue) /\ Numbered(ran)

(* A thread inside invoke has begun a call. *)
CallsOK == \A t \in Thread : pc[t] # "out" => calls[t] \in 1 .. MaxCalls

IInv ==
  /\ TypeOK
  /\ MutualExclusion
  /\ NoLostWakeup
  /\ UvOK
  /\ CallsOK
  /\ Fresh

----------------------------------------------------------------------------

(* What Append does to a sequence of calls. *)
LEMMA AppendCall ==
  ASSUME NEW s \in Seq(Call), NEW e \in Call
  PROVE  /\ Append(s, e) \in Seq(Call)
         /\ DOMAIN Append(s, e) = 1 .. Len(s) + 1
         /\ DOMAIN s = 1 .. Len(s)
         /\ Len(s) \in Nat
         /\ \A i \in 1 .. Len(s) : Append(s, e)[i] = s[i]
         /\ Append(s, e)[Len(s) + 1] = e
         /\ Append(s, e) # <<>>
  OBVIOUS

(* What Head and Tail of a sequence of calls are. *)
LEMMA TailCall ==
  ASSUME NEW s \in Seq(Call), s # <<>>
  PROVE  /\ Tail(s) \in Seq(Call)
         /\ Head(s) = s[1]
         /\ Head(s) \in Call
         /\ Len(s) \in Nat \ {0}
         /\ DOMAIN s = 1 .. Len(s)
         /\ DOMAIN Tail(s) = 1 .. Len(s) - 1
         /\ \A i \in 1 .. Len(s) - 1 : Tail(s)[i] = s[i + 1]
  OBVIOUS

(* Appending to, or taking from, the two halves of the channel. *)
LEMMA ConcatAppend ==
  ASSUME NEW s \in Seq(Call), NEW q \in Seq(Call), NEW e \in Call
  PROVE  s \o Append(q, e) = Append(s \o q, e)
  OBVIOUS

(* Taking the oldest call of the channel takes it from the batch. *)
LEMMA ConcatTail ==
  ASSUME NEW s \in Seq(Call), NEW q \in Seq(Call), s # <<>>
  PROVE  /\ s \o q # <<>>
         /\ Head(s \o q) = Head(s)
         /\ Tail(s \o q) = Tail(s) \o q
  OBVIOUS

(* Moving the queue into an empty batch leaves the channel as it is. *)
LEMMA ConcatEmpty ==
  ASSUME NEW q \in Seq(Call)
  PROVE  <<>> \o q = q /\ q \o <<>> = q /\ <<>> \in Seq(Call)
  OBVIOUS

(* Whatever is in the channel is in the batch or in the queue. *)
LEMMA ConcatDomain ==
  ASSUME NEW s \in Seq(Call), NEW q \in Seq(Call)
  PROVE  \A i \in DOMAIN (s \o q) :
           \/ i \in DOMAIN s /\ (s \o q)[i] = s[i]
           \/ i - Len(s) \in DOMAIN q /\ (s \o q)[i] = q[i - Len(s)]
  OBVIOUS

----------------------------------------------------------------------------
(* Type correctness. *)

(* The initial state has the right types. *)
LEMMA TypeInit == Init => TypeOK
<1> SUFFICES ASSUME Init PROVE TypeOK
  OBVIOUS
<1> USE DEF Init
<1>1. <<>> \in Seq(Call)
  OBVIOUS
<1>2. calls \in [Thread -> 0 .. MaxCalls]
  BY UvServerAssumption
<1>3. pc \in [Thread -> {"out", "lock", "push", "unlock", "send"}]
  OBVIOUS
<1> QED
  BY <1>1, <1>2, <1>3 DEF TypeOK

(* Every operation on the mutex, the queue or the async handle keeps them. *)
LEMMA TypeStep == TypeOK /\ CallsOK /\ [Next]_vars => TypeOK'
<1> SUFFICES ASSUME TypeOK, CallsOK, [Next]_vars PROVE TypeOK'
  OBVIOUS
<1> USE UvServerAssumption DEF TypeOK
<1>1. ASSUME NEW t \in Thread, Enter(t) PROVE TypeOK'
  BY <1>1 DEF Enter
<1>2. ASSUME NEW t \in Thread, Lock(t) PROVE TypeOK'
  BY <1>2 DEF Lock
<1>3. ASSUME NEW t \in Thread, Push(t) PROVE TypeOK'
  <2>1. <<t, calls[t]>> \in Call
    BY <1>3 DEF Push, CallsOK, Call
  <2>2. invoke_queue' \in Seq(Call)
    BY <1>3, <2>1, AppendCall DEF Push
  <2> QED
    BY <1>3, <2>2 DEF Push
<1>4. ASSUME NEW t \in Thread, Unlock(t) PROVE TypeOK'
  BY <1>4 DEF Unlock
<1>5. ASSUME NEW t \in Thread, Send(t) PROVE TypeOK'
  BY <1>5 DEF Send
<1>6. CASE Wake \/ DrainLock \/ DrainUnlock \/ DrainReturn \/ UNCHANGED vars
  BY <1>6 DEF Wake, DrainLock, DrainUnlock, DrainReturn, vars, Thread
<1>7. CASE DrainMove
  BY <1>7, ConcatEmpty DEF DrainMove
<1>8. CASE RunFunction
  <2>1. functions' \in Seq(Call) /\ ran' \in Seq(Call)
    BY <1>8, TailCall, AppendCall DEF RunFunction
  <2> QED
    BY <1>8, <2>1 DEF RunFunction
<1> QED
  BY <1>1, <1>2, <1>3, <1>4, <1>5, <1>6, <1>7, <1>8 DEF Next, Loop, Finished, Invoking

----------------------------------------------------------------------------
(* The mutex and the wake-ups. *)

(* Initially nobody holds the mutex and there is nothing to be woken for. *)
LEMMA InvInit == Init => MutualExclusion /\ NoLostWakeup /\ UvOK /\ CallsOK
  BY UvServerAssumption
  DEF Init, MutualExclusion, NoLostWakeup, UvOK, CallsOK, Thread

(* Mutual exclusion and the wake-up survive every step: a thread that has  *)
(* queued a call has its send() to come, and a drain that clears the flag has *)
(* the queue still to take.                                                *)
LEMMA InvStep ==
  TypeOK /\ MutualExclusion /\ NoLostWakeup /\ UvOK /\ CallsOK /\ [Next]_vars
    => MutualExclusion' /\ NoLostWakeup' /\ UvOK' /\ CallsOK'
<1> SUFFICES ASSUME TypeOK, MutualExclusion, NoLostWakeup, UvOK, CallsOK, [Next]_vars
             PROVE  MutualExclusion' /\ NoLostWakeup' /\ UvOK' /\ CallsOK'
  OBVIOUS
<1> USE UvServerAssumption DEF TypeOK, MutualExclusion, NoLostWakeup, UvOK, CallsOK, Thread
<1>1. ASSUME NEW t \in Thread, Enter(t)
      PROVE  MutualExclusion' /\ NoLostWakeup' /\ UvOK' /\ CallsOK'
  BY <1>1 DEF Enter
<1>2. ASSUME NEW t \in Thread, Lock(t)
      PROVE  MutualExclusion' /\ NoLostWakeup' /\ UvOK' /\ CallsOK'
  BY <1>2 DEF Lock
<1>3. ASSUME NEW t \in Thread, Push(t)
      PROVE  MutualExclusion' /\ NoLostWakeup' /\ UvOK' /\ CallsOK'
  BY <1>3 DEF Push
<1>4. ASSUME NEW t \in Thread, Unlock(t)
      PROVE  MutualExclusion' /\ NoLostWakeup' /\ UvOK' /\ CallsOK'
  BY <1>4 DEF Unlock
<1>5. ASSUME NEW t \in Thread, Send(t)
      PROVE  MutualExclusion' /\ NoLostWakeup' /\ UvOK' /\ CallsOK'
  BY <1>5 DEF Send
<1>6. CASE Wake \/ DrainLock \/ DrainMove
  BY <1>6 DEF Wake, DrainLock, DrainMove
<1>7. CASE DrainUnlock \/ RunFunction \/ DrainReturn \/ UNCHANGED vars
  BY <1>7 DEF DrainUnlock, RunFunction, DrainReturn, vars
<1> QED
  BY <1>1, <1>2, <1>3, <1>4, <1>5, <1>6, <1>7 DEF Next, Loop, Finished, Invoking

----------------------------------------------------------------------------
(* Calls are told apart by their numbers. *)

(* A thread's number never falls, and rises before it begins another call. *)
LEMMA Advance ==
  ASSUME TypeOK, [Next]_vars, NEW t \in Thread
  PROVE  /\ calls'[t] >= calls[t]
         /\ pc'[t] \in {"lock", "push"} => \/ pc[t] \in {"lock", "push"}
                                           \/ calls'[t] > calls[t]
<1> USE UvServerAssumption DEF TypeOK
<1>1. calls[t] \in Nat
  OBVIOUS
<1>2. ASSUME NEW u \in Thread, Enter(u)
      PROVE  /\ calls'[t] >= calls[t]
             /\ pc'[t] \in {"lock", "push"} => \/ pc[t] \in {"lock", "push"}
                                               \/ calls'[t] > calls[t]
  BY <1>1, <1>2 DEF Enter
<1>3. ASSUME NEW u \in Thread, Invoking(u)
      PROVE  /\ calls' = calls
             /\ pc'[t] \in {"lock", "push"} => pc[t] \in {"lock", "push"}
  BY <1>3 DEF Invoking, Lock, Push, Unlock, Send
<1>4. CASE Loop \/ UNCHANGED vars
  BY <1>1, <1>4 DEF Loop, Wake, DrainLock, DrainMove, DrainUnlock, RunFunction, DrainReturn, vars
<1> QED
  BY <1>1, <1>2, <1>3, <1>4 DEF Next, Finished

(* So entries that were numbered stay so wherever a step moves them. *)
LEMMA NumberedMoves ==
  ASSUME TypeOK, TypeOK', [Next]_vars, NEW s \in Seq(Call), Numbered(s),
         NEW f \in Call, \E j \in DOMAIN s : f = s[j]
  PROVE  /\ f[2] <= calls'[f[1]]
         /\ pc'[f[1]] \in {"lock", "push"} => f[2] < calls'[f[1]]
<1>1. f[1] \in Thread /\ f[2] \in Nat
  BY DEF Call
<1>2. calls[f[1]] \in Nat /\ calls'[f[1]] \in Nat
  BY <1>1, UvServerAssumption DEF TypeOK
<1>3. /\ f[2] <= calls[f[1]]
      /\ pc[f[1]] \in {"lock", "push"} => f[2] < calls[f[1]]
  BY DEF Numbered
<1>4. /\ calls'[f[1]] >= calls[f[1]]
      /\ pc'[f[1]] \in {"lock", "push"} => \/ pc[f[1]] \in {"lock", "push"}
                                           \/ calls'[f[1]] > calls[f[1]]
  BY <1>1, Advance
<1> QED
  BY <1>1, <1>2, <1>3, <1>4

(* Initially no call has been numbered. *)
LEMMA FreshInit == Init => Fresh
  BY DEF Init, Fresh, Numbered

(* The numbers of the calls in the channel stay below those to be pushed. *)
LEMMA FreshStep ==
  ASSUME TypeOK, TypeOK', CallsOK, Fresh, [Next]_vars
  PROVE  Fresh'
<1> DEFINE Old(f) == \/ \E j \in DOMAIN functions : f = functions[j]
                     \/ \E j \in DOMAIN invoke_queue : f = invoke_queue[j]
                     \/ \E j \in DOMAIN ran : f = ran[j]
           Good(f) == /\ f[2] <= calls'[f[1]]
                      /\ pc'[f[1]] \in {"lock", "push"} => f[2] < calls'[f[1]]
<1>1. \A f \in Call : Old(f) => Good(f)
  <2> SUFFICES ASSUME NEW f \in Call, Old(f) PROVE Good(f)
    OBVIOUS
  <2>1. CASE \E j \in DOMAIN functions : f = functions[j]
    BY <2>1, NumberedMoves DEF TypeOK, Fresh
  <2>2. CASE \E j \in DOMAIN invoke_queue : f = invoke_queue[j]
    BY <2>2, NumberedMoves DEF TypeOK, Fresh
  <2>3. CASE \E j \in DOMAIN ran : f = ran[j]
    BY <2>3, NumberedMoves DEF TypeOK, Fresh
  <2> QED
    BY <2>1, <2>2, <2>3
<1>2. SUFFICES /\ \A i \in DOMAIN functions' : Good(functions'[i])
               /\ \A i \in DOMAIN invoke_queue' : Good(invoke_queue'[i])
               /\ \A i \in DOMAIN ran' : Good(ran'[i])
  BY DEF Fresh, Numbered
<1>3. /\ \A i \in DOMAIN functions : functions[i] \in Call
      /\ \A i \in DOMAIN invoke_queue : invoke_queue[i] \in Call
      /\ \A i \in DOMAIN ran : ran[i] \in Call
  BY DEF TypeOK
<1>4. CASE UNCHANGED <<functions, invoke_queue, ran>>
  BY <1>1, <1>3, <1>4
<1>5. ASSUME NEW t \in Thread, Push(t)
      PROVE  \A i \in DOMAIN invoke_queue' : Good(invoke_queue'[i])
  <2>1. <<t, calls[t]>> \in Call
    BY <1>5 DEF Push, CallsOK, Call
  <2>2. Good(<<t, calls[t]>>)
    BY <1>5, UvServerAssumption DEF Push, TypeOK
  <2>3. /\ invoke_queue \in Seq(Call)
        /\ invoke_queue' = Append(invoke_queue, <<t, calls[t]>>)
    BY <1>5 DEF Push, TypeOK
  <2> SUFFICES ASSUME NEW i \in DOMAIN invoke_queue' PROVE Good(invoke_queue'[i])
    OBVIOUS
  <2>4. CASE i = Len(invoke_queue) + 1
    BY <2>1, <2>2, <2>3, <2>4, AppendCall
  <2>5. CASE i # Len(invoke_queue) + 1
    <3>1. i \in DOMAIN invoke_queue /\ invoke_queue'[i] = invoke_queue[i]
      BY <2>1, <2>3, <2>5, AppendCall
    <3> QED
      BY <1>1, <1>3, <3>1
  <2> QED
    BY <2>4, <2>5
<1>6. CASE DrainMove
  BY <1>1, <1>3, <1>6 DEF DrainMove
<1>7. CASE RunFunction
  <2>1. /\ functions \in Seq(Call) /\ functions # <<>> /\ ran \in Seq(Call)
        /\ functions' = Tail(functions)
        /\ ran' = Append(ran, Head(functions))
        /\ invoke_queue' = invoke_queue
    BY <1>7 DEF RunFunction, TypeOK
  <2>2. \A i \in DOMAIN functions' : Good(functions'[i])
    <3> SUFFICES ASSUME NEW i \in DOMAIN functions' PROVE Good(functions'[i])
      OBVIOUS
    <3>1. i + 1 \in DOMAIN functions /\ functions'[i] = functions[i + 1]
      BY <2>1, TailCall
    <3> QED
      BY <1>1, <1>3, <3>1
  <2>3. \A i \in DOMAIN ran' : Good(ran'[i])
    <3> SUFFICES ASSUME NEW i \in DOMAIN ran' PROVE Good(ran'[i])
      OBVIOUS
    <3>1. 1 \in DOMAIN functions /\ Head(functions) = functions[1] /\ Head(functions) \in Call
      BY <2>1, TailCall
    <3>2. \/ i = Len(ran) + 1 /\ ran'[i] = functions[1]
          \/ i \in DOMAIN ran /\ ran'[i] = ran[i]
      BY <2>1, <3>1, AppendCall
    <3> QED
      BY <1>1, <1>3, <3>1, <3>2
  <2> QED
    BY <1>1, <1>3, <2>1, <2>2, <2>3
<1>8. ASSUME NEW t \in Thread, Push(t)
      PROVE  /\ \A i \in DOMAIN functions' : Good(functions'[i])
             /\ \A i \in DOMAIN invoke_queue' : Good(invoke_queue'[i])
             /\ \A i \in DOMAIN ran' : Good(ran'[i])
  <2>1. functions' = functions /\ ran' = ran
    BY <1>8 DEF Push
  <2> QED
    BY <1>1, <1>3, <1>5, <1>8, <2>1
<1>9. ASSUME NEW t \in Thread, Enter(t) \/ Lock(t) \/ Unlock(t) \/ Send(t)
      PROVE  UNCHANGED <<functions, invoke_queue, ran>>
  BY <1>9 DEF Enter, Lock, Unlock, Send
<1>10. CASE Wake \/ DrainLock \/ DrainUnlock \/ DrainReturn \/ UNCHANGED vars
  BY <1>4, <1>10 DEF Wake, DrainLock, DrainUnlock, DrainReturn, vars
<1> HIDE DEF Good, Old
<1> QED
  BY <1>4, <1>6, <1>7, <1>8, <1>9, <1>10 DEF Next, Loop, Finished, Invoking

----------------------------------------------------------------------------
(* The invoke queue implements the channel. *)

(* The complete invariant holds in every behaviour. *)
THEOREM Invariant == Spec => []IInv
<1>1. Init => IInv
  BY TypeInit, InvInit, FreshInit DEF IInv
<1>2. IInv /\ [Next]_vars => IInv'
  BY TypeStep, InvStep, FreshStep DEF IInv
<1> QED
  BY <1>1, <1>2, PTL DEF Spec

(* Types, for any number of threads and calls. *)
THEOREM TypeCorrect == Spec => []TypeOK
  BY Invariant, PTL DEF IInv

(* Only the thread that holds the mutex touches the queue. *)
THEOREM MutualExclusionHolds == Spec => []MutualExclusion
  BY Invariant, PTL DEF IInv

(* No wake-up is lost. *)
THEOREM NoLostWakeupHolds == Spec => []NoLostWakeup
  BY Invariant, PTL DEF IInv

(* A call about to be queued is neither queued nor run already. *)
LEMMA NewCall ==
  ASSUME IInv, NEW t \in Thread, Push(t)
  PROVE  /\ \A i \in DOMAIN (functions \o invoke_queue) :
              (functions \o invoke_queue)[i] # <<t, calls[t]>>
         /\ \A i \in DOMAIN ran : ran[i] # <<t, calls[t]>>
<1>1. functions \in Seq(Call) /\ invoke_queue \in Seq(Call) /\ ran \in Seq(Call)
  BY DEF IInv, TypeOK
<1>2. calls[t] \in Nat /\ pc[t] = "push"
  BY UvServerAssumption DEF IInv, TypeOK, Push
<1>3. ASSUME NEW s \in Seq(Call), Numbered(s), NEW i \in DOMAIN s
      PROVE  s[i] # <<t, calls[t]>>
  BY <1>2, <1>3 DEF Numbered
<1>4. /\ \A i \in DOMAIN functions : functions[i] # <<t, calls[t]>>
      /\ \A i \in DOMAIN invoke_queue : invoke_queue[i] # <<t, calls[t]>>
      /\ \A i \in DOMAIN ran : ran[i] # <<t, calls[t]>>
  BY <1>1, <1>3 DEF IInv, Fresh
<1> QED
  BY <1>1, <1>4, ConcatDomain

(* Every step of the invoke queue is a step of the channel or leaves it    *)
(* alone.                                                                  *)
LEMMA ChannelStep ==
  ASSUME IInv, [Next]_vars
  PROVE  [Channel!Next]_(Channel!vars)
<1> USE DEF Channel!vars
<1>1. functions \in Seq(Call) /\ invoke_queue \in Seq(Call)
  BY DEF IInv, TypeOK
<1>2. ASSUME NEW t \in Thread, Push(t) PROVE [Channel!Next]_(Channel!vars)
  <2>1. <<t, calls[t]>> \in Call
    BY <1>2 DEF Push, IInv, CallsOK, Call
  <2>2. functions' \o invoke_queue' = Append(functions \o invoke_queue, <<t, calls[t]>>)
    BY <1>1, <1>2, <2>1, ConcatAppend DEF Push
  <2>3. Channel!Invoke(<<t, calls[t]>>)
    BY <1>2, <2>2, NewCall DEF Channel!Invoke, Push
  <2> QED
    BY <2>1, <2>3 DEF Channel!Next
<1>3. CASE DrainMove
  <2>1. functions = <<>>
    BY <1>3 DEF DrainMove, IInv, UvOK
  <2> QED
    BY <1>1, <1>3, <2>1, ConcatEmpty DEF DrainMove
<1>4. CASE RunFunction
  <2>1. /\ functions # <<>>
        /\ functions' = Tail(functions)
        /\ invoke_queue' = invoke_queue
        /\ ran' = Append(ran, Head(functions))
    BY <1>4 DEF RunFunction
  <2>2. Channel!Run
    BY <1>1, <2>1, ConcatTail DEF Channel!Run
  <2> QED
    BY <2>2 DEF Channel!Next
<1>5. ASSUME NEW t \in Thread, Enter(t) \/ Lock(t) \/ Unlock(t) \/ Send(t)
      PROVE  UNCHANGED Channel!vars
  BY <1>5 DEF Enter, Lock, Unlock, Send
<1>6. CASE Wake \/ DrainLock \/ DrainUnlock \/ DrainReturn \/ UNCHANGED vars
  BY <1>6 DEF Wake, DrainLock, DrainUnlock, DrainReturn, vars
<1> QED
  BY <1>2, <1>3, <1>4, <1>5, <1>6 DEF Next, Loop, Finished, Invoking

(* invoke and drain_invoke_queue are a first-in first-out channel that     *)
(* runs no call twice, for any number of threads and calls.                *)
THEOREM ImplementsChannelHolds == Spec => ImplementsChannel
<1>1. Init => Channel!Init
  BY ConcatEmpty DEF Init, Channel!Init
<1>2. IInv /\ [Next]_vars => [Channel!Next]_(Channel!vars)
  BY ChannelStep
<1> QED
  BY <1>1, <1>2, Invariant, PTL DEF Spec, ImplementsChannel, Channel!Spec

----------------------------------------------------------------------------
(* The order of the calls of one thread. *)

(* The calls of each thread stand in the order of their numbers.           *)
Ascending(s) ==
  \A i, j \in DOMAIN s : i < j /\ s[i][1] = s[j][1] => s[i][2] < s[j][2]

(* What has been run, is in the batch or is queued, oldest first.          *)
History == ran \o (functions \o invoke_queue)

(* The Uv thread runs the calls of a thread in the order in which the      *)
(* thread made them, none twice: what phrase_publish and draconity_send    *)
(* rely on for two messages from one thread.                               *)
RunInCallOrder == Ascending(ran)

(* The first of two sequences that ascend together does so by itself. *)
LEMMA ConcatAscending ==
  ASSUME NEW s \in Seq(Call), NEW q \in Seq(Call), Ascending(s \o q)
  PROVE  Ascending(s)
<1>1. \A i \in DOMAIN s : i \in DOMAIN (s \o q) /\ (s \o q)[i] = s[i]
  OBVIOUS
<1>2. DOMAIN s \subseteq Int
  OBVIOUS
<1> QED
  BY <1>1, <1>2 DEF Ascending

(* A call numbered above all its thread has queued keeps the order. *)
LEMMA AppendAscending ==
  ASSUME NEW s \in Seq(Call), Ascending(s), NEW e \in Call,
         \A i \in DOMAIN s : s[i][1] = e[1] => s[i][2] < e[2]
  PROVE  Ascending(Append(s, e))
<1> SUFFICES ASSUME NEW i \in DOMAIN Append(s, e), NEW j \in DOMAIN Append(s, e),
                    i < j, Append(s, e)[i][1] = Append(s, e)[j][1]
             PROVE  Append(s, e)[i][2] < Append(s, e)[j][2]
  BY DEF Ascending
<1>1. i \in 1 .. Len(s) /\ Append(s, e)[i] = s[i] /\ i \in DOMAIN s
  BY AppendCall
<1>2. CASE j = Len(s) + 1
  BY <1>1, <1>2, AppendCall
<1>3. CASE j # Len(s) + 1
  <2>1. j \in DOMAIN s /\ Append(s, e)[j] = s[j]
    BY <1>3, AppendCall
  <2> QED
    BY <1>1, <2>1 DEF Ascending
<1> QED
  BY <1>2, <1>3

(* Running the oldest call of a channel moves it from the channel to what  *)
(* has been run.                                                           *)
LEMMA ConcatMove ==
  ASSUME NEW r \in Seq(Call), NEW s \in Seq(Call), s # <<>>
  PROVE  Append(r, Head(s)) \o Tail(s) = r \o s
  OBVIOUS

(* Joining sequences of calls is associative. *)
LEMMA ConcatAssociates ==
  ASSUME NEW r \in Seq(Call), NEW s \in Seq(Call), NEW e \in Call
  PROVE  /\ r \o s \in Seq(Call)
         /\ r \o Append(s, e) = Append(r \o s, e)
  OBVIOUS

(* A call that is pushed is numbered above those its thread made before.   *)
LEMMA PushAscending ==
  ASSUME IInv, Ascending(History), NEW t \in Thread, Push(t)
  PROVE  Ascending(History')
<1> DEFINE e == <<t, calls[t]>>
<1>1. functions \in Seq(Call) /\ invoke_queue \in Seq(Call) /\ ran \in Seq(Call)
  BY DEF IInv, TypeOK
<1>2. e \in Call /\ e[1] = t /\ e[2] = calls[t] /\ pc[t] = "push"
  BY DEF Push, IInv, CallsOK, Call
<1>3. History \in Seq(Call) /\ History' = Append(History, e)
  <2>1. functions \o invoke_queue \in Seq(Call)
    BY <1>1, <1>2, ConcatAssociates
  <2>2. functions \o Append(invoke_queue, e) = Append(functions \o invoke_queue, e)
    BY <1>1, <1>2, ConcatAppend
  <2>3. History' = ran \o (functions \o Append(invoke_queue, e))
    BY DEF History, Push
  <2> HIDE DEF e
  <2>4. ran \o Append(functions \o invoke_queue, e) = Append(ran \o (functions \o invoke_queue), e)
    BY <1>1, <1>2, <2>1, ConcatAssociates
  <2>5. ran \o (functions \o invoke_queue) \in Seq(Call)
    BY <1>1, <1>2, <2>1, ConcatAssociates
  <2> QED
    BY <2>2, <2>3, <2>4, <2>5 DEF History
<1>4. ASSUME NEW s \in Seq(Call), Numbered(s), NEW i \in DOMAIN s, s[i][1] = e[1]
      PROVE  s[i][2] < e[2]
  BY <1>2, <1>4 DEF Numbered
<1>5. ASSUME NEW i \in DOMAIN History, History[i][1] = e[1]
      PROVE  History[i][2] < e[2]
  <2>1. functions \o invoke_queue \in Seq(Call)
    BY <1>1, <1>2, ConcatAssociates
  <2> DEFINE waiting == functions \o invoke_queue
  <2>2. \/ \E k \in DOMAIN ran : History[i] = ran[k]
        \/ \E k \in DOMAIN functions : History[i] = functions[k]
        \/ \E k \in DOMAIN invoke_queue : History[i] = invoke_queue[k]
    <3>1. \A k \in DOMAIN waiting :
            \/ \E n \in DOMAIN functions : waiting[k] = functions[n]
            \/ \E n \in DOMAIN invoke_queue : waiting[k] = invoke_queue[n]
      BY <1>1, ConcatDomain
    <3> HIDE DEF waiting
    <3>2. \/ \E k \in DOMAIN ran : (ran \o waiting)[i] = ran[k]
          \/ \E k \in DOMAIN waiting : (ran \o waiting)[i] = waiting[k]
      <4>1. i \in DOMAIN (ran \o waiting) /\ waiting \in Seq(Call)
        BY <2>1 DEF History, waiting
      <4> QED
        BY <1>1, <4>1, ConcatDomain
    <3>3. History = ran \o waiting
      BY DEF History, waiting
    <3> QED
      BY <3>1, <3>2, <3>3
  <2> QED
    BY <1>1, <1>4, <1>5, <2>2 DEF IInv, Fresh
<1> HIDE DEF e
<1> QED
  BY <1>2, <1>3, <1>5, AppendAscending

(* Draining moves calls along the history and leaves their order alone.    *)
LEMMA HistoryStep ==
  ASSUME IInv, Ascending(History), [Next]_vars
  PROVE  Ascending(History')
<1>1. functions \in Seq(Call) /\ invoke_queue \in Seq(Call) /\ ran \in Seq(Call)
  BY DEF IInv, TypeOK
<1>2. CASE DrainMove
  <2>1. functions = <<>>
    BY <1>2 DEF DrainMove, IInv, UvOK
  <2>2. History' = History
    BY <1>1, <1>2, <2>1, ConcatEmpty DEF DrainMove, History
  <2> QED
    BY <2>2
<1>3. CASE RunFunction
  <2>1. functions \o invoke_queue \in Seq(Call)
    BY <1>1
  <2>2. Head(functions \o invoke_queue) = Head(functions)
        /\ Tail(functions \o invoke_queue) = Tail(functions) \o invoke_queue
        /\ functions \o invoke_queue # <<>>
    BY <1>1, <1>3, ConcatTail DEF RunFunction
  <2>3. History' = Append(ran, Head(functions)) \o (Tail(functions) \o invoke_queue)
    BY <1>3 DEF RunFunction, History
  <2>4. History' = History
    BY <1>1, <2>1, <2>2, <2>3, ConcatMove DEF History
  <2> QED
    BY <2>4
<1>4. ASSUME NEW t \in Thread, Enter(t) \/ Lock(t) \/ Unlock(t) \/ Send(t)
      PROVE  UNCHANGED <<functions, invoke_queue, ran>>
  BY <1>4 DEF Enter, Lock, Unlock, Send
<1>5. CASE Wake \/ DrainLock \/ DrainUnlock \/ DrainReturn \/ UNCHANGED vars
  BY <1>5 DEF Wake, DrainLock, DrainUnlock, DrainReturn, vars, History
<1>6. ASSUME UNCHANGED <<functions, invoke_queue, ran>> PROVE Ascending(History')
  BY <1>6 DEF History
<1> QED
  BY <1>2, <1>3, <1>4, <1>5, <1>6, PushAscending DEF Next, Loop, Finished, Invoking

(* The calls of one thread are run in the order it made them, none twice,  *)
(* whichever drain takes them.                                             *)
THEOREM RunInCallOrderHolds == Spec => []RunInCallOrder
<1>1. Init => Ascending(History)
  BY ConcatEmpty DEF Init, History, Ascending
<1>2. IInv /\ Ascending(History) /\ [Next]_vars => Ascending(History)'
  BY HistoryStep
<1>3. IInv /\ Ascending(History) => RunInCallOrder
  <2> SUFFICES ASSUME IInv, Ascending(History) PROVE Ascending(ran)
    BY DEF RunInCallOrder
  <2>1. /\ ran \in Seq(Call) /\ functions \in Seq(Call) /\ invoke_queue \in Seq(Call)
        /\ functions \o invoke_queue \in Seq(Call)
    BY DEF IInv, TypeOK
  <2> QED
    BY <2>1, ConcatAscending DEF History
<1> QED
  BY <1>1, <1>2, <1>3, Invariant, PTL DEF Spec
=============================================================================
