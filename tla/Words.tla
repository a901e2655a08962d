------------------------------- MODULE Words -------------------------------
(***************************************************************************)
(* The vocabulary half of the shadow state: what each client wants         *)
(* (shadow_words), what Dragon has loaded (loaded_words) and what each     *)
(* "w.set" request has been told.  The operations take the shadow table    *)
(* they work on as a parameter, because one Uv-thread handler may change   *)
(* the table and then synchronise it in the same step.                     *)
(***************************************************************************)
EXTENDS Clients

CONSTANTS
  Word,        \* words clients may ask for
  WTid,        \* transaction ids of "w.set" requests; a client uses each once
  WRequest,    \* the words each of those requests asks for
  NoTid,       \* no transaction
  WordFaults   \* the Dragon calls that may fail: subset of {"add", "delete"}

ASSUME WordsAssumption ==
  /\ NoTid \notin WTid
  /\ WRequest \in [WTid -> SUBSET Word]
  /\ WordFaults \subseteq {"add", "delete"}

VARIABLES
  shadow_words,   \* [ClientId -> WordState]
  loaded_words,   \* words Dragon has accepted and not yet deleted
  wset            \* [ClientId -> [WTid -> last status sent for that request]]

words_vars == <<shadow_words, loaded_words, wset>>

WordState == [words : SUBSET Word, last_tid : WTid \cup {NoTid}, synced : BOOLEAN]

(* A client without an entry in the unordered_map shadow_words. *)
NoWordState == [words |-> {}, last_tid |-> NoTid, synced |-> TRUE]

WStatus == {"unsent", "pending", "skipped", "success", "error"}

WordsTypeOK ==
  /\ shadow_words \in [ClientId -> WordState]
  /\ loaded_words \subseteq Word
  /\ wset \in [ClientId -> [WTid -> WStatus]]

WordsInit ==
  /\ shadow_words = [c \in ClientId |-> NoWordState]
  /\ loaded_words = {}
  /\ wset = [c \in ClientId |-> [t \in WTid |-> "unsent"]]

(* The outcomes of the engine calls of one synchronisation: the words      *)
(* ValidateWord / AddTemporaryWord refuses and those DeleteWord refuses.   *)
WordOutcome ==
  [add    : IF "add" \in WordFaults THEN SUBSET Word ELSE {{}},
   delete : IF "delete" \in WordFaults THEN SUBSET Word ELSE {{}}]

----------------------------------------------------------------------------

(* Fault: the update that is replaced is forgotten without a word. *)
SkippedWords_Silent(c, t) == [wset EXCEPT ![c][t] = "pending"]

(* Fault: whatever is replaced is reported as skipped, synchronised or not. *)
SkippedWords_Always(c, t) ==
  [wset EXCEPT ![c] = [u \in WTid |->
     IF u = t THEN "pending"
     ELSE IF u = shadow_words[c].last_tid THEN "skipped" ELSE @[u]]]

(* set_shadow_words: an update that was never synchronised is skipped. *)
SkippedWords(c, t) ==
  LET old == shadow_words[c]
  IN  [wset EXCEPT ![c] = [u \in WTid |->
         IF u = t THEN "pending"
         ELSE IF ~old.synced /\ u = old.last_tid THEN "skipped"
         ELSE @[u]]]

(* set_shadow_words: the table with the words of request t of client c. *)
ShadowWords(c, t) ==
  [shadow_words EXCEPT ![c] = [words |-> WRequest[t],
                               last_tid |-> t, synced |-> FALSE]]

(* The word half of clear_client_state: the table it leaves behind. *)
ClearedWords(c) ==
  IF shadow_words[c].last_tid = NoTid
  THEN shadow_words
  ELSE [shadow_words EXCEPT ![c].words = {}, ![c].synced = FALSE]

(* Fault: only the clients with an unsynchronised update are considered. *)
AllShadowWords_Unsynced(sw) ==
  UNION {sw[c].words : c \in {d \in ClientId : ~sw[d].synced}}

(* sync_words: the union of all clients' words. *)
AllShadowWords(sw) == UNION {sw[c].words : c \in ClientId}

(* set_words: the words Dragon fails to add or to delete. *)
WordErrors(sw, out) ==
  ((AllShadowWords(sw) \ loaded_words) \cap out.add)
    \cup ((loaded_words \ AllShadowWords(sw)) \cap out.delete)

(* set_words, add_word, remove_word: what Dragon has loaded afterwards. *)
LoadedAfter(sw, out) ==
  (loaded_words \cup (AllShadowWords(sw) \ out.add))
    \ (loaded_words \ (AllShadowWords(sw) \cup out.delete))

(* Fault: a word that failed to load stays in the shadow state. *)
WithoutFailures_Kept(sw, out) ==
  [c \in ClientId |-> [sw[c] EXCEPT !.synced = TRUE]]

(* handle_word_failures: failed words are dropped from every client. *)
WithoutFailures(sw, out) ==
  [c \in ClientId |-> [sw[c] EXCEPT !.words = @ \ WordErrors(sw, out),
                                    !.synced = TRUE]]

(* send_wset_response: every client with an entry is told, each time; the  *)
(* reply to a connection that is not in `present` goes nowhere.            *)
WordReplies(sw, out, present) ==
  [c \in ClientId |-> [t \in WTid |->
     IF c \in present /\ t = sw[c].last_tid
     THEN IF sw[c].words \cap WordErrors(sw, out) = {} THEN "success" ELSE "error"
     ELSE wset[c][t]]]

(* Draconity::sync_words on the table sw, while `present` are connected. *)
SyncWords(sw, present) ==
  \E out \in WordOutcome :
    /\ loaded_words' = LoadedAfter(sw, out)
    /\ shadow_words' = WithoutFailures(sw, out)
    /\ wset' = WordReplies(sw, out, present)
=============================================================================
