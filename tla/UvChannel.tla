----------------------------- MODULE UvChannel -----------------------------
(***************************************************************************)
(* What UvServer::invoke promises: a first-in first-out channel of calls   *)
(* from any thread to the Uv thread, each of which is run exactly once and *)
(* in the end.  Pause!invoke_queue is this channel.                        *)
(***************************************************************************)
EXTENDS Sequences

CONSTANT Call   \* everything that may be invoked, each once

VARIABLES
  waiting,   \* calls invoked and not yet run, oldest first
  ran        \* calls run, in order

vars == <<waiting, ran>>

Init ==
  /\ waiting = <<>>
  /\ ran = <<>>

Invoke(f) ==
  /\ \A i \in DOMAIN waiting : waiting[i] # f
  /\ \A i \in DOMAIN ran : ran[i] # f
  /\ waiting' = Append(waiting, f)
  /\ UNCHANGED ran

Run ==
  /\ waiting # <<>>
  /\ ran' = Append(ran, Head(waiting))
  /\ waiting' = Tail(waiting)

Next == Run \/ \E f \in Call : Invoke(f)

Spec == Init /\ [][Next]_vars

FairSpec == Spec /\ WF_vars(Run)
=============================================================================
