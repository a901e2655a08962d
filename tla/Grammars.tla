------------------------------ MODULE Grammars ------------------------------
(***************************************************************************)
(* The grammar half of the shadow state: the updates clients have asked    *)
(* for (shadow_grammars), the Grammar objects Draconity keeps (grammars),  *)
(* what Dragon itself holds, and what each "g.set" / "g.unload" request    *)
(* has been told.  Dragon's side (dragon_grammars, stray_grammars) is the  *)
(* external engine as the DSX calls leave it.                              *)
(***************************************************************************)
EXTENDS Clients

CONSTANTS
  Name,           \* grammar names
  Blob,           \* compiled grammars
  Rule,           \* rules a grammar may have active
  ListName,       \* lists a grammar may have
  Content,        \* what a list may hold
  GTid,           \* transaction ids of "g.*" requests; a client uses each once
  GRequest,       \* what each of those requests asks for
  Nothing,        \* no blob, no list, no client, no transaction
  GrammarFaults   \* the kinds of Dragon call that may fail

GrammarRequest ==
  [op : {"set", "unload"}, name : Name, blob : Blob, rules : SUBSET Rule,
   lists : [ListName -> Content \cup {Nothing}]]

ASSUME GrammarsAssumption ==
  /\ Nothing \notin Blob \cup Content \cup GTid \cup ClientId
  /\ GRequest \in [GTid -> GrammarRequest]
  /\ GrammarFaults \subseteq {"unload", "load", "register", "rule", "list"}

VARIABLES
  grammars,          \* [Name -> the Grammar object under that name]
  shadow_grammars,   \* [Name -> the update waiting for the next sync]
  dragon_grammars,   \* [Name -> what Dragon holds behind the object's handle]
  stray_grammars,    \* names loaded in Dragon behind a handle nobody keeps
  gset               \* [ClientId -> [GTid -> last status sent]]

grammars_vars == <<grammars, shadow_grammars, dragon_grammars, stray_grammars, gset>>

NoLists == [l \in ListName |-> Nothing]

(* A Grammar object.  A name that is not in `grammars` is a fresh object: *)
(* sync_grammars makes one before it looks at it.                         *)
Grammar ==
  [blob : Blob \cup {Nothing}, rules : SUBSET Rule,
   lists : [ListName -> Content \cup {Nothing}], enabled : BOOLEAN,
   client : ClientId \cup {Nothing}, tid : GTid \cup {Nothing}]

Absent ==
  [blob |-> Nothing, rules |-> {}, lists |-> NoLists, enabled |-> FALSE,
   client |-> Nothing, tid |-> Nothing]

(* What Dragon has loaded, and what it holds for a name it does not know. *)
Loaded ==
  [blob : Blob \cup {Nothing}, rules : SUBSET Rule,
   lists : [ListName -> Content \cup {Nothing}]]

NotLoaded == [blob |-> Nothing, rules |-> {}, lists |-> NoLists]

(* A GrammarState of shadow_grammars: whose request it is.  The unload     *)
(* that clear_client_state queues belongs to no request: its tid is never  *)
(* set.                                                                    *)
Shadow ==
  [op : {"none", "set", "unload"}, client : ClientId \cup {Nothing},
   tid : GTid \cup {Nothing}]

NoShadow == [op |-> "none", client |-> Nothing, tid |-> Nothing]

GStatus == {"unsent", "pending", "skipped", "success", "error"}

GrammarsTypeOK ==
  /\ grammars \in [Name -> Grammar]
  /\ shadow_grammars \in [Name -> Shadow]
  /\ dragon_grammars \in [Name -> Loaded]
  /\ stray_grammars \subseteq Name
  /\ gset \in [ClientId -> [GTid -> GStatus]]

GrammarsInit ==
  /\ grammars = [n \in Name |-> Absent]
  /\ shadow_grammars = [n \in Name |-> NoShadow]
  /\ dragon_grammars = [n \in Name |-> NotLoaded]
  /\ stray_grammars = {}
  /\ gset = [c \in ClientId |-> [t \in GTid |-> "unsent"]]

(* The results of the DSX calls of one synchronisation of one grammar: did *)
(* the unload before a reload work, how far did the load get, which rules  *)
(* and lists were refused (after a load that failed none is tried), did    *)
(* the unload of a removal work.                                           *)
CallOutcome ==
  LET Works(fault) == IF fault \in GrammarFaults THEN BOOLEAN ELSE {TRUE}
      Refused(fault, S) == IF fault \in GrammarFaults THEN SUBSET S ELSE {{}}
      Outcome == [reload : Works("unload"),
                  load   : {"ok"} \cup (GrammarFaults \cap {"load", "register"}),
                  rules  : Refused("rule", Rule),
                  lists  : Refused("list", ListName),
                  remove : Works("unload")]
  IN  {out \in Outcome : out.load # "ok" => out.rules = {} /\ out.lists = {}}

----------------------------------------------------------------------------
(* The synchronisation of one grammar, on a record of everything it        *)
(* touches: the object g, Dragon's side d, whether a handle was lost, and  *)
(* whether an error was recorded.                                          *)

(* unload_grammar: on failure nothing is cleared. *)
UnloadGrammar(st, works) ==
  IF works
  THEN [st EXCEPT !.g = [Absent EXCEPT !.client = st.g.client, !.tid = st.g.tid],
                  !.d = NotLoaded]
  ELSE st

(* load_grammar: a new handle replaces the old one; the object is enabled  *)
(* once all callbacks are registered.                                      *)
LoadGrammar(st, blob, result) ==
  IF result = "load"
  THEN [st EXCEPT !.failed = TRUE]
  ELSE [st EXCEPT !.d = [NotLoaded EXCEPT !.blob = blob],
                  !.stray = @ \/ st.d # NotLoaded,
                  !.g.blob = blob,
                  !.g.enabled = @ \/ result = "ok",
                  !.failed = (result # "ok")]

(* Fault: rules that are no longer wanted are left active. *)
SyncRules_NoDeactivate(st, wanted, refused) ==
  LET enable == wanted \ st.g.rules
  IN  [st EXCEPT !.g.rules = @ \cup (enable \ refused),
                 !.d.rules = @ \cup (enable \ refused),
                 !.failed = @ \/ enable \cap refused # {}]

(* sync_rules, activate_rule, deactivate_rule. *)
SyncRules(st, wanted, refused) ==
  LET enable  == wanted \ st.g.rules
      disable == st.g.rules \ wanted
      Apply(rules) == (rules \cup (enable \ refused)) \ (disable \ refused)
  IN  [st EXCEPT !.g.rules = Apply(@),
                 !.d.rules = Apply(@),
                 !.failed = @ \/ (enable \cup disable) \cap refused # {}]

(* The list loop of sync_grammar, and set_list: lists the request does not *)
(* mention stay as they are.                                               *)
SyncLists(st, wanted, refused) ==
  LET changed == {l \in ListName : wanted[l] # Nothing /\ wanted[l] # st.g.lists[l]}
      Apply(lists) == [l \in ListName |->
                         IF l \in changed \ refused THEN wanted[l] ELSE lists[l]]
  IN  [st EXCEPT !.g.lists = Apply(@),
                 !.d.lists = Apply(@),
                 !.failed = @ \/ changed \cap refused # {}]

(* Fault: a changed blob is loaded over the old one. *)
ReplaceBlob_NoUnload(st, blob, out) ==
  IF st.g.blob = blob THEN st ELSE LoadGrammar(st, blob, out.load)

(* sync_grammar: a different blob means a reload. *)
ReplaceBlob(st, blob, out) ==
  LET cleared == IF st.g.enabled THEN UnloadGrammar(st, out.reload) ELSE st
  IN  IF st.g.blob = blob THEN st ELSE LoadGrammar(cleared, blob, out.load)

(* sync_grammar for request t of client c. *)
SyncGrammar(st, c, t, out) ==
  LET want   == GRequest[t]
      loaded == ReplaceBlob(st, want.blob, out)
      ruled  == SyncRules(loaded, want.rules, out.rules)
      listed == SyncLists(ruled, want.lists, out.lists)
  IN  IF loaded.failed
      THEN loaded
      ELSE [listed EXCEPT !.g.client = c, !.g.tid = t]

(* Fault: the object is erased and Dragon is not told. *)
RemoveGrammar_KeepLoaded(st, works) ==
  [st EXCEPT !.g = Absent, !.d = NotLoaded, !.stray = @ \/ st.d # NotLoaded]

(* remove_grammar: only an enabled grammar is unloaded; either way the     *)
(* object, and with it the handle, is gone.                                *)
RemoveGrammar(st, works) ==
  LET gone == IF st.g.enabled THEN UnloadGrammar(st, works) ELSE st
  IN  [gone EXCEPT !.g = Absent, !.d = NotLoaded, !.stray = @ \/ gone.d # NotLoaded]

(* Fault: a grammar that failed is kept for the user to fix it. *)
SyncName_KeepFailed(st, shadow, out) ==
  CASE shadow.op = "none"   -> st
    [] shadow.op = "unload" -> RemoveGrammar(st, out.remove)
    [] shadow.op = "set"    -> SyncGrammar(st, shadow.client, shadow.tid, out)

(* The body of sync_grammars' loop. *)
SyncName(st, shadow, out) ==
  LET synced == SyncGrammar(st, shadow.client, shadow.tid, out)
  IN  CASE shadow.op = "none"   -> st
        [] shadow.op = "unload" -> RemoveGrammar(st, out.remove)
        [] shadow.op = "set"    -> IF synced.failed
                                   THEN RemoveGrammar(synced, out.remove)
                                   ELSE synced

----------------------------------------------------------------------------
(* The operations on the whole table. *)

(* Fault: an update that is replaced is forgotten without a word. *)
SkippedGrammar_Silent(c, t) == [gset EXCEPT ![c][t] = "pending"]

(* Fault: the owner of the loaded grammar is told, not whoever waits. *)
SkippedGrammar_Owner(c, t) ==
  LET old == grammars[GRequest[t].name]
  IN  [d \in ClientId |-> [u \in GTid |->
         IF d = c /\ u = t THEN "pending"
         ELSE IF d = old.client /\ u = old.tid THEN "skipped"
         ELSE gset[d][u]]]

(* set_shadow_grammar: a waiting update of that name is skipped. *)
SkippedGrammar(c, t) ==
  LET old == shadow_grammars[GRequest[t].name]
      Skipped(d, u) == /\ old.op # "none"
                       /\ d = old.client
                       /\ u = old.tid
                       /\ d \in clients
  IN  [d \in ClientId |-> [u \in GTid |->
         IF d = c /\ u = t THEN "pending"
         ELSE IF Skipped(d, u) THEN "skipped"
         ELSE gset[d][u]]]

(* set_shadow_grammar: the table with request t of client c waiting. *)
ShadowGrammars(c, t) ==
  [shadow_grammars EXCEPT ![GRequest[t].name] =
     [op |-> GRequest[t].op, client |-> c, tid |-> t]]

(* Fault: the departing client's grammars are left alone. *)
ClearedGrammars_Kept(c) == shadow_grammars

(* The grammar half of clear_client_state: the table it leaves behind. *)
ClearedGrammars(c) ==
  [n \in Name |->
     IF grammars[n].client = c
     THEN [op |-> "unload", client |-> c, tid |-> Nothing]
     ELSE shadow_grammars[n]]

(* Draconity::sync_grammars on the table sg, with answers so far `told`,   *)
(* while `present` are connected.                                          *)
SyncGrammars(sg, told, present) ==
  \E out \in [Name -> CallOutcome] :
    LET before == [n \in Name |->
                     [g |-> grammars[n], d |-> dragon_grammars[n],
                      stray |-> n \in stray_grammars, failed |-> FALSE]]
        after == [n \in Name |-> SyncName(before[n], sg[n], out[n])]
        Answered(n, c, t) == sg[n].op # "none" /\ sg[n].client = c /\ sg[n].tid = t
        Status(c, t) ==
          IF c \in present /\ \E n \in Name : Answered(n, c, t)
          THEN IF \E n \in Name : Answered(n, c, t) /\ after[n].failed
               THEN "error" ELSE "success"
          ELSE told[c][t]
    IN  /\ grammars' = [n \in Name |-> after[n].g]
        /\ dragon_grammars' = [n \in Name |-> after[n].d]
        /\ stray_grammars' = {n \in Name : after[n].stray}
        /\ shadow_grammars' = [n \in Name |-> NoShadow]
        /\ gset' = [c \in ClientId |-> [t \in GTid |-> Status(c, t)]]
=============================================================================
