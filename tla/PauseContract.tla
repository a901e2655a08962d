--------------------------- MODULE PauseContract ---------------------------
(***************************************************************************)
(* What the pause handshake promises: when Dragon reports a pause, every   *)
(* connected client is asked, and Dragon runs again when they have all     *)
(* released it or left, or after a while.  Whom to ask is decided in the   *)
(* same step in which the pause is noticed, so a client that connects      *)
(* later does not prolong the pause.                                       *)
(***************************************************************************)
CONSTANT Client

VARIABLES
  phase,     \* "running", "reported" (nobody asked yet) or "held"
  present,   \* the connected clients
  waiting    \* the clients Dragon is held for

vars == <<phase, present, waiting>>

Init ==
  /\ phase = "running"
  /\ present = {}
  /\ waiting = {}

Report ==
  /\ phase = "running"
  /\ phase' = "reported"
  /\ UNCHANGED <<present, waiting>>

Notice ==
  /\ phase = "reported"
  /\ waiting' = present
  /\ phase' = IF present = {} THEN "running" ELSE "held"
  /\ UNCHANGED present

(* Client c is no longer waited for; with the last one Dragon runs again. *)
Release(c) ==
  /\ waiting' = waiting \ {c}
  /\ phase' = IF phase = "held" /\ waiting \subseteq {c} THEN "running" ELSE phase

Answer(c) ==
  /\ c \in waiting
  /\ Release(c)
  /\ UNCHANGED present

Timeout ==
  /\ phase = "held"
  /\ phase' = "running"
  /\ waiting' = {}
  /\ UNCHANGED present

Join(c) ==
  /\ c \notin present
  /\ present' = present \cup {c}
  /\ UNCHANGED <<phase, waiting>>

Leave(c) ==
  /\ c \in present
  /\ present' = present \ {c}
  /\ Release(c)

Next ==
  \/ Report \/ Notice \/ Timeout
  \/ \E c \in Client : Answer(c) \/ Join(c) \/ Leave(c)

Spec == Init /\ [][Next]_vars
=============================================================================
