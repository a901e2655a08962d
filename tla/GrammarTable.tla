---------------------------- MODULE GrammarTable ----------------------------
(***************************************************************************)
(* What the callbacks of Dragon may count on: the table of grammars, who   *)
(* owns them and which of them Dragon knows, changes only while it is      *)
(* open, and a grammar that is owned is known.  In Draconity it is open    *)
(* while Dragon is held at a pause, and before the first pause as long as  *)
(* pause_token has not been set.  Phrases, which has a table of its own,   *)
(* is about any table that is open only while Dragon is held.              *)
(***************************************************************************)
CONSTANTS
  Name,      \* grammar names
  Client,
  Nothing,   \* no client
  Clean      \* does Dragon unload and register whatever it is told to

VARIABLES
  open,    \* may the table change
  owner,   \* [Name -> the client the grammar belongs to]
  known    \* names Dragon has loaded and may call back for

vars == <<open, owner, known>>

Owned(table) == {n \in Name : table[n] # Nothing}

Init ==
  /\ open \in BOOLEAN
  /\ owner = [n \in Name |-> Nothing]
  /\ known = {}

Open ==
  /\ ~open
  /\ open' = TRUE
  /\ UNCHANGED <<owner, known>>

Close ==
  /\ open
  /\ open' = FALSE
  /\ UNCHANGED <<owner, known>>

(* Grammars are loaded, handed over and removed, any number in one step;   *)
(* the same step may close the table.                                      *)
Change ==
  /\ open
  /\ open' \in BOOLEAN
  /\ owner' \in [Name -> Client \cup {Nothing}]
  /\ known' \subseteq Name
  /\ Owned(owner') \subseteq known'
  /\ Clean => known' = Owned(owner')

Next == Open \/ Close \/ Change

Spec == Init /\ [][Next]_vars
=============================================================================
