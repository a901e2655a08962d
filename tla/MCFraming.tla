----------------------------- MODULE MCFraming -----------------------------
(* Small instances of Framing for TLC. *)
EXTENDS Framing

(* A w.set before the secret, an empty message, the secret, a command,     *)
(* g.set and w.set twice by turns, and a mimic.                            *)
MCLength == <<1, 0, 1, 1, 1, 2, 1, 1, 1>>
MCKind   == <<"words", "broken", "auth", "command", "grammar", "words", "grammar", "words", "mimic">>

MCStart ==
  [i \in 1 .. Frames + 1 |-> (i - 1) * HeaderSize + SumFunctionOnSet(MCLength, 1 .. i - 1)]
=============================================================================
