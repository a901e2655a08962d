---------------------------- MODULE MCDraconity ----------------------------
(* Small instances of Draconity for TLC. *)
EXTENDS Draconity, TLC

CONSTANTS t1, t2, t3, w1, w2, g, b1, b2, r, l, x, y

NoRequest == [t \in {} |-> Nothing]

(* Two overlapping vocabularies. *)
TwoVocabularies == (t1 :> {w1, w2}) @@ (t2 :> {w2})

Set(blob, rules, list) ==
  [op |-> "set", name |-> g, blob |-> blob, rules |-> rules, lists |-> [k \in {l} |-> list]]

(* A grammar, another blob with the same rules, and an update in place. *)
OneGrammar == (t1 :> Set(b1, {r}, x))
Reload     == OneGrammar @@ (t2 :> Set(b2, {r}, y))
Update     == Reload @@ (t3 :> Set(b2, {}, x))
=============================================================================
