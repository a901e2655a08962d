----------------------------- MODULE MCPhrases -----------------------------
(* Small instances of Phrases for TLC. *)
EXTENDS Phrases
=============================================================================
