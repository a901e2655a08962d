---------------------------- MODULE GrammarProofs ----------------------------
(***************************************************************************)
(* The grammars of Draconity, for any clients, names, requests and sets of *)
(* Dragon calls that may fail: first what the synchronisation of one       *)
(* grammar does to the object and to Dragon, then what holds of the whole  *)
(* table.                                                                  *)
(***************************************************************************)
EXTENDS DraconityProofs

(* Everything the synchronisation of one grammar touches. *)
State == [g : Grammar, d : Loaded, stray : BOOLEAN, failed : BOOLEAN]

(* Dragon has what the object says. *)
Mirrors(st) ==
  st.d.blob = st.g.blob /\ st.d.rules = st.g.rules /\ st.d.lists = st.g.lists

(* Dragon has something loaded for an object that has a blob. *)
Backed(st) == st.g.blob # Nothing => st.d.blob # Nothing

LEMMA Empty ==
  /\ Absent \in Grammar /\ NotLoaded \in Loaded /\ NoLists \in [ListName -> Content \cup {Nothing}]
  /\ Absent.blob = Nothing /\ Absent.rules = {} /\ Absent.lists = NoLists
  /\ ~Absent.enabled /\ Absent.client = Nothing /\ Absent.tid = Nothing
  /\ NotLoaded.blob = Nothing /\ NotLoaded.rules = {} /\ NotLoaded.lists = NoLists
  BY DEF Absent, Grammar, NotLoaded, Loaded, NoLists

(* Records of the same fields are the same. *)
LEMMA LoadedEqual ==
  ASSUME NEW d \in Loaded, NEW e \in Loaded, d.blob = e.blob, d.rules = e.rules, d.lists = e.lists
  PROVE  d = e
  BY DEF Loaded

(* How Dragon's calls may end. *)
LEMMA Outcomes ==
  ASSUME NEW out \in CallOutcome
  PROVE  /\ out.reload \in BOOLEAN /\ out.remove \in BOOLEAN
         /\ "unload" \notin GrammarFaults => out.reload /\ out.remove
         /\ out.load \in {"ok", "load", "register"}
         /\ "register" \notin GrammarFaults => out.load # "register"
  BY DEF CallOutcome

(* unload_grammar *)
LEMMA Unloaded ==
  ASSUME NEW st \in State, NEW works \in BOOLEAN, NEW r, r = UnloadGrammar(st, works)
  PROVE  /\ r \in State
         /\ r.stray = st.stray /\ r.failed = st.failed
         /\ ~works => r = st
         /\ works => /\ r.d = NotLoaded /\ r.g.blob = Nothing /\ r.g.rules = {}
                     /\ r.g.lists = NoLists /\ ~r.g.enabled
<1>1. CASE ~works
  BY <1>1 DEF UnloadGrammar
<1>2. CASE works
  <2> DEFINE g == [Absent EXCEPT !.client = st.g.client, !.tid = st.g.tid]
  <2>1. st.g \in Grammar /\ st.g.client \in ClientId \cup {Nothing} /\ st.g.tid \in GTid \cup {Nothing}
    BY DEF State, Grammar
  <2>2. g \in Grammar /\ g.blob = Nothing /\ g.rules = {} /\ g.lists = NoLists /\ ~g.enabled
    <3>1. /\ g.blob = Nothing /\ g.rules = {} /\ g.lists = NoLists /\ ~g.enabled
          /\ g.client = st.g.client /\ g.tid = st.g.tid
      BY DEF Absent
    <3>2. g \in Grammar
      BY <2>1, Empty DEF Grammar
    <3> QED
      BY <3>1, <3>2
  <2> HIDE DEF g
  <2>3. r = [st EXCEPT !.g = g, !.d = NotLoaded]
    BY <1>2 DEF UnloadGrammar, g
  <2>4. r.g = g /\ r.d = NotLoaded /\ r.stray = st.stray /\ r.failed = st.failed
    BY <2>3 DEF State
  <2>5. r \in State
    BY <2>2, <2>3, Empty DEF State
  <2> QED
    BY <1>2, <2>2, <2>4, <2>5
<1> QED
  BY <1>1, <1>2

(* load_grammar *)
LEMMA LoadedGrammar ==
  ASSUME NEW st \in State, NEW blob \in Blob, NEW result \in {"ok", "load", "register"},
         NEW r, r = LoadGrammar(st, blob, result)
  PROVE  /\ r \in State
         /\ r.failed <=> result # "ok"
         /\ result = "load" => r.g = st.g /\ r.d = st.d /\ r.stray = st.stray
         /\ result # "load" =>
              /\ r.g.blob = blob /\ r.g.rules = st.g.rules /\ r.g.lists = st.g.lists
              /\ r.d.blob = blob /\ r.d.rules = {} /\ r.d.lists = NoLists
              /\ r.stray <=> st.stray \/ st.d # NotLoaded
              /\ result = "ok" => r.g.enabled
<1>1. CASE result = "load"
  BY <1>1 DEF LoadGrammar, State
<1>2. CASE result # "load"
  <2> DEFINE d == [NotLoaded EXCEPT !.blob = blob]
             stray == st.stray \/ st.d # NotLoaded
             enabled == st.g.enabled \/ result = "ok"
             failed == (result # "ok")
             g == [st.g EXCEPT !.blob = blob, !.enabled = enabled]
  <2>1. d \in Loaded /\ d.blob = blob /\ d.rules = {} /\ d.lists = NoLists
    BY Empty DEF NotLoaded, Loaded
  <2>2. st.g \in Grammar /\ st.d \in Loaded /\ stray \in BOOLEAN /\ enabled \in BOOLEAN /\ failed \in BOOLEAN
    BY DEF State
  <2>3. (result = "ok" => enabled) /\ (failed <=> result # "ok") /\ (stray <=> st.stray \/ st.d # NotLoaded)
    OBVIOUS
  <2>4. r = [st EXCEPT !.d = d, !.stray = stray, !.g.blob = blob, !.g.enabled = enabled,
                       !.failed = failed]
    BY <1>2 DEF LoadGrammar
  <2> HIDE DEF d, stray, enabled, failed
  <2>5. g \in Grammar /\ g.blob = blob /\ g.rules = st.g.rules /\ g.lists = st.g.lists
        /\ g.enabled = enabled
    BY <2>2 DEF Grammar
  <2>6. r = [st EXCEPT !.d = d, !.stray = stray, !.g = g, !.failed = failed]
    BY <2>2, <2>4 DEF State, Grammar
  <2> HIDE DEF g
  <2>7. r \in State /\ r.d = d /\ r.stray = stray /\ r.g = g /\ r.failed = failed
    BY <2>1, <2>2, <2>5, <2>6 DEF State
  <2> QED
    BY <1>2, <2>1, <2>3, <2>5, <2>7
<1> QED
  BY <1>1, <1>2

(* sync_rules *)
LEMMA RulesSynced ==
  ASSUME NEW st \in State, NEW wanted \in SUBSET Rule, NEW refused \in SUBSET Rule,
         NEW r, r = SyncRules(st, wanted, refused)
  PROVE  /\ r \in State /\ r.stray = st.stray
         /\ r.g.blob = st.g.blob /\ r.g.lists = st.g.lists /\ r.g.enabled = st.g.enabled
         /\ r.d.blob = st.d.blob /\ r.d.lists = st.d.lists
         /\ st.d.rules = st.g.rules => r.d.rules = r.g.rules
         /\ ~r.failed => ~st.failed /\ r.g.rules = wanted
<1> DEFINE enable == wanted \ st.g.rules
           disable == st.g.rules \ wanted
           Apply(rules) == (rules \cup (enable \ refused)) \ (disable \ refused)
           G == Apply(st.g.rules)
           D == Apply(st.d.rules)
           bad == (enable \cup disable) \cap refused # {}
           F == st.failed \/ bad
           g == [st.g EXCEPT !.rules = G]
           d == [st.d EXCEPT !.rules = D]
<1>1. st.g \in Grammar /\ st.d \in Loaded /\ st.failed \in BOOLEAN
      /\ st.g.rules \in SUBSET Rule /\ st.d.rules \in SUBSET Rule
  BY DEF State, Grammar, Loaded
<1>2. G \in SUBSET Rule /\ D \in SUBSET Rule /\ F \in BOOLEAN
  BY <1>1
<1>3. st.d.rules = st.g.rules => D = G
  OBVIOUS
<1>4. ~bad => G = wanted
  OBVIOUS
<1>5. r = [st EXCEPT !.g.rules = G, !.d.rules = D, !.failed = F]
  BY DEF SyncRules
<1>6. ~F => ~st.failed /\ G = wanted
  BY <1>4
<1> HIDE DEF G, D, F
<1>7. g \in Grammar /\ g.rules = G /\ g.blob = st.g.blob /\ g.lists = st.g.lists /\ g.enabled = st.g.enabled
  BY <1>1, <1>2 DEF Grammar
<1>8. d \in Loaded /\ d.rules = D /\ d.blob = st.d.blob /\ d.lists = st.d.lists
  BY <1>1, <1>2 DEF Loaded
<1>9. r = [st EXCEPT !.g = g, !.d = d, !.failed = F]
  BY <1>1, <1>5 DEF State, Grammar, Loaded
<1> HIDE DEF g, d
<1>10. r \in State /\ r.stray = st.stray /\ r.g = g /\ r.d = d /\ r.failed = F
  BY <1>2, <1>7, <1>8, <1>9 DEF State
<1> QED
  BY <1>3, <1>6, <1>7, <1>8, <1>10

(* The list loop of sync_grammar *)
LEMMA ListsSynced ==
  ASSUME NEW st \in State, NEW wanted \in [ListName -> Content \cup {Nothing}],
         NEW refused \in SUBSET ListName,
         NEW r, r = SyncLists(st, wanted, refused)
  PROVE  /\ r \in State /\ r.stray = st.stray
         /\ r.g.blob = st.g.blob /\ r.g.rules = st.g.rules /\ r.g.enabled = st.g.enabled
         /\ r.d.blob = st.d.blob /\ r.d.rules = st.d.rules
         /\ st.d.lists = st.g.lists => r.d.lists = r.g.lists
         /\ ~r.failed => /\ ~st.failed
                         /\ \A l \in ListName : wanted[l] # Nothing => r.g.lists[l] = wanted[l]
<1> DEFINE changed == {l \in ListName : wanted[l] # Nothing /\ wanted[l] # st.g.lists[l]}
           Apply(lists) == [l \in ListName |->
                              IF l \in changed \ refused THEN wanted[l] ELSE lists[l]]
           G == Apply(st.g.lists)
           D == Apply(st.d.lists)
           bad == changed \cap refused # {}
           F == st.failed \/ bad
           g == [st.g EXCEPT !.lists = G]
           d == [st.d EXCEPT !.lists = D]
<1>1. st.g \in Grammar /\ st.d \in Loaded /\ st.failed \in BOOLEAN
      /\ st.g.lists \in [ListName -> Content \cup {Nothing}]
      /\ st.d.lists \in [ListName -> Content \cup {Nothing}]
  BY DEF State, Grammar, Loaded
<1>2. /\ G \in [ListName -> Content \cup {Nothing}]
      /\ D \in [ListName -> Content \cup {Nothing}]
      /\ F \in BOOLEAN
  BY <1>1
<1>3. st.d.lists = st.g.lists => D = G
  OBVIOUS
<1>4. ASSUME ~bad, NEW l \in ListName, wanted[l] # Nothing
      PROVE  G[l] = wanted[l]
  BY <1>4
<1>5. r = [st EXCEPT !.g.lists = G, !.d.lists = D, !.failed = F]
  BY DEF SyncLists
<1>6. ~F => ~st.failed /\ \A l \in ListName : wanted[l] # Nothing => G[l] = wanted[l]
  BY <1>4
<1> HIDE DEF G, D, F
<1>7. g \in Grammar /\ g.lists = G /\ g.blob = st.g.blob /\ g.rules = st.g.rules /\ g.enabled = st.g.enabled
  BY <1>1, <1>2 DEF Grammar
<1>8. d \in Loaded /\ d.lists = D /\ d.blob = st.d.blob /\ d.rules = st.d.rules
  BY <1>1, <1>2 DEF Loaded
<1>9. r = [st EXCEPT !.g = g, !.d = d, !.failed = F]
  BY <1>1, <1>5 DEF State, Grammar, Loaded
<1> HIDE DEF g, d
<1>10. r \in State /\ r.stray = st.stray /\ r.g = g /\ r.d = d /\ r.failed = F
  BY <1>2, <1>7, <1>8, <1>9 DEF State
<1> QED
  BY <1>3, <1>6, <1>7, <1>8, <1>10

(* How far a failed load may have got: nothing is loaded behind an object  *)
(* that is not enabled, unless a callback could not be registered.         *)
Clean(st) == ~st.stray /\ (st.g.enabled \/ st.d = NotLoaded)

(* The reload of sync_grammar, on an object that is absent or enabled. *)
LEMMA BlobReplaced ==
  ASSUME NEW st \in State, ~st.failed, st.g.enabled \/ st.g = Absent,
         NEW blob \in Blob, NEW out \in CallOutcome,
         NEW r, r = ReplaceBlob(st, blob, out)
  PROVE  /\ r \in State
         /\ ~r.failed => r.g.blob = blob /\ r.g.enabled
         /\ Backed(st) => Backed(r)
         /\ "unload" \notin GrammarFaults /\ Mirrors(st) =>
              /\ Mirrors(r) /\ r.stray = st.stray
              /\ "register" \notin GrammarFaults /\ ~st.stray => Clean(r)
<1> DEFINE cleared == IF st.g.enabled THEN UnloadGrammar(st, out.reload) ELSE st
           loaded == LoadGrammar(cleared, blob, out.load)
<1>1. CASE st.g.blob = blob
  <2>1. r = st
    BY <1>1 DEF ReplaceBlob
  <2>2. st.g.enabled
    BY <1>1, Empty, GrammarsAssumption
  <2> QED
    BY <1>1, <2>1, <2>2 DEF Clean
<1>2. CASE st.g.blob # blob
  <2>1. r = loaded
    BY <1>2 DEF ReplaceBlob
  <2>2. /\ cleared \in State /\ cleared.stray = st.stray /\ ~cleared.failed
        /\ Backed(st) => Backed(cleared)
        /\ "unload" \notin GrammarFaults /\ Mirrors(st) =>
              Mirrors(cleared) /\ cleared.d = NotLoaded
    <3>1. CASE st.g.enabled
      <4>1. out.reload \in BOOLEAN /\ ("unload" \notin GrammarFaults => out.reload)
        BY Outcomes
      <4>2. cleared = UnloadGrammar(st, out.reload)
        BY <3>1
      <4> HIDE DEF cleared
      <4>3. /\ cleared \in State
            /\ cleared.stray = st.stray /\ cleared.failed = st.failed
            /\ ~out.reload => cleared = st
            /\ out.reload => /\ cleared.d = NotLoaded /\ cleared.g.blob = Nothing
                             /\ cleared.g.rules = {} /\ cleared.g.lists = NoLists
        BY <4>1, <4>2, Unloaded
      <4> QED
        BY <4>1, <4>3, Empty DEF Mirrors, Backed
    <3>2. CASE st.g = Absent /\ ~st.g.enabled
      <4>1. st.d \in Loaded
        BY DEF State
      <4>2. Mirrors(st) => st.d = NotLoaded
        BY <3>2, <4>1, Empty, LoadedEqual DEF Mirrors
      <4> QED
        BY <3>2, <4>2
    <3> QED
      BY <3>1, <3>2
  <2> HIDE DEF cleared
  <2>3. out.load \in {"ok", "load", "register"}
    BY Outcomes
  <2>4. /\ r \in State
        /\ r.failed <=> out.load # "ok"
        /\ out.load = "load" => r.g = cleared.g /\ r.d = cleared.d /\ r.stray = cleared.stray
        /\ out.load # "load" =>
             /\ r.g.blob = blob /\ r.g.rules = cleared.g.rules /\ r.g.lists = cleared.g.lists
             /\ r.d.blob = blob /\ r.d.rules = {} /\ r.d.lists = NoLists
             /\ r.stray <=> cleared.stray \/ cleared.d # NotLoaded
             /\ out.load = "ok" => r.g.enabled
    <3>1. ASSUME NEW s \in State, NEW result \in {"ok", "load", "register"},
                 r = LoadGrammar(s, blob, result)
          PROVE  /\ r \in State
                 /\ r.failed <=> result # "ok"
                 /\ result = "load" => r.g = s.g /\ r.d = s.d /\ r.stray = s.stray
                 /\ result # "load" =>
                      /\ r.g.blob = blob /\ r.g.rules = s.g.rules /\ r.g.lists = s.g.lists
                      /\ r.d.blob = blob /\ r.d.rules = {} /\ r.d.lists = NoLists
                      /\ r.stray <=> s.stray \/ s.d # NotLoaded
                      /\ result = "ok" => r.g.enabled
      BY <3>1, LoadedGrammar, SMTT(30)
    <3> DEFINE result == out.load
    <3>2. result \in {"ok", "load", "register"} /\ r = LoadGrammar(cleared, blob, result)
      BY <2>1, <2>3
    <3> HIDE DEF result
    <3>3. /\ r \in State
          /\ r.failed <=> result # "ok"
          /\ result = "load" => r.g = cleared.g /\ r.d = cleared.d /\ r.stray = cleared.stray
          /\ result # "load" =>
               /\ r.g.blob = blob /\ r.g.rules = cleared.g.rules /\ r.g.lists = cleared.g.lists
               /\ r.d.blob = blob /\ r.d.rules = {} /\ r.d.lists = NoLists
               /\ r.stray <=> cleared.stray \/ cleared.d # NotLoaded
               /\ result = "ok" => r.g.enabled
      <4>1. cleared \in State
        BY <2>2
      <4> QED
        BY ONLY <4>1, <3>1, <3>2, Zenon
    <3> QED
      BY <3>3 DEF result
  <2>5. ASSUME "unload" \notin GrammarFaults, Mirrors(st)
        PROVE  /\ Mirrors(r) /\ r.stray = st.stray
               /\ "register" \notin GrammarFaults /\ ~st.stray => Clean(r)
    <3>1. Mirrors(cleared) /\ cleared.d = NotLoaded
      BY <2>2, <2>5
    <3>2. cleared.g.rules = {} /\ cleared.g.lists = NoLists
      BY <3>1, Empty DEF Mirrors
    <3>3. "register" \notin GrammarFaults => out.load # "register"
      BY Outcomes
    <3> QED
      BY <2>2, <2>3, <2>4, <3>1, <3>2, <3>3 DEF Mirrors, Clean
  <2>6. Backed(st) => Backed(r)
    BY <2>2, <2>3, <2>4, GrammarsAssumption DEF Backed
  <2> QED
    BY <2>3, <2>4, <2>5, <2>6
<1> QED
  BY <1>1, <1>2

(* Request t asks that the grammar name be loaded. *)
Asks(t, name) == t \in GTid /\ GRequest[t].op = "set" /\ GRequest[t].name = name

(* The object holds what request t asked for. *)
Serves(g, t) ==
  /\ g.blob = GRequest[t].blob
  /\ g.rules = GRequest[t].rules
  /\ \A l \in ListName : GRequest[t].lists[l] # Nothing => g.lists[l] = GRequest[t].lists[l]

(* A kept object is enabled, has an owner and holds what it asked for. *)
Kept(g, name) == g.enabled /\ g.client \in ClientId /\ Asks(g.tid, name) /\ Serves(g, g.tid)

LEMMA Requests ==
  ASSUME NEW t \in GTid
  PROVE  /\ GRequest[t].op \in {"set", "unload"} /\ GRequest[t].name \in Name
         /\ GRequest[t].blob \in Blob
         /\ GRequest[t].rules \in SUBSET Rule
         /\ GRequest[t].lists \in [ListName -> Content \cup {Nothing}]
  BY GrammarsAssumption DEF GrammarRequest

(* sync_grammar *)
LEMMA GrammarSynced ==
  ASSUME NEW st \in State, ~st.failed, st.g.enabled \/ st.g = Absent,
         NEW c \in ClientId, NEW name, NEW t, Asks(t, name), NEW out \in CallOutcome,
         NEW r, r = SyncGrammar(st, c, t, out)
  PROVE  /\ r \in State
         /\ ~r.failed => Kept(r.g, name) /\ r.g.client = c /\ r.g.tid = t
         /\ Backed(st) => Backed(r)
         /\ "unload" \notin GrammarFaults /\ Mirrors(st) =>
              /\ Mirrors(r) /\ r.stray = st.stray
              /\ "register" \notin GrammarFaults /\ ~st.stray => Clean(r)
<1> DEFINE want == GRequest[t]
           loaded == ReplaceBlob(st, want.blob, out)
           ruled == SyncRules(loaded, want.rules, out.rules)
           listed == SyncLists(ruled, want.lists, out.lists)
           g == [listed.g EXCEPT !.client = c, !.tid = t]
<1>1. /\ want.blob \in Blob /\ want.rules \in SUBSET Rule
      /\ want.lists \in [ListName -> Content \cup {Nothing}] /\ t \in GTid
  BY Requests DEF Asks
<1>2. out.rules \in SUBSET Rule /\ out.lists \in SUBSET ListName
  BY DEF CallOutcome
<1>3. r = IF loaded.failed THEN loaded ELSE [listed EXCEPT !.g.client = c, !.g.tid = t]
  BY DEF SyncGrammar
<1> HIDE DEF want
<1>4. /\ loaded \in State
      /\ ~loaded.failed => loaded.g.blob = want.blob /\ loaded.g.enabled
      /\ Backed(st) => Backed(loaded)
      /\ "unload" \notin GrammarFaults /\ Mirrors(st) =>
           /\ Mirrors(loaded) /\ loaded.stray = st.stray
           /\ "register" \notin GrammarFaults /\ ~st.stray => Clean(loaded)
  <2>1. want.blob \in Blob
    BY <1>1
  <2> DEFINE blob == want.blob
  <2> HIDE DEF blob
  <2>2. blob \in Blob /\ loaded = ReplaceBlob(st, blob, out)
    BY <2>1 DEF blob
  <2> HIDE DEF loaded
  <2>3. /\ loaded \in State
        /\ ~loaded.failed => loaded.g.blob = blob /\ loaded.g.enabled
        /\ Backed(st) => Backed(loaded)
        /\ "unload" \notin GrammarFaults /\ Mirrors(st) =>
             /\ Mirrors(loaded) /\ loaded.stray = st.stray
             /\ "register" \notin GrammarFaults /\ ~st.stray => Clean(loaded)
    BY <2>2, BlobReplaced
  <2> QED
    BY <2>3 DEF blob
<1> HIDE DEF loaded
<1>5. /\ ruled \in State /\ ruled.stray = loaded.stray
      /\ ruled.g.blob = loaded.g.blob /\ ruled.g.enabled = loaded.g.enabled
      /\ ruled.d.blob = loaded.d.blob
      /\ Mirrors(loaded) => Mirrors(ruled)
      /\ ~ruled.failed => ~loaded.failed /\ ruled.g.rules = want.rules
  BY <1>1, <1>2, <1>4, RulesSynced DEF Mirrors
<1> HIDE DEF ruled
<1>6. /\ listed \in State /\ listed.stray = ruled.stray
      /\ listed.g.blob = ruled.g.blob /\ listed.g.enabled = ruled.g.enabled
      /\ listed.g.rules = ruled.g.rules /\ listed.d.blob = ruled.d.blob
      /\ Mirrors(ruled) => Mirrors(listed)
      /\ ~listed.failed =>
           /\ ~ruled.failed
           /\ \A l \in ListName : want.lists[l] # Nothing => listed.g.lists[l] = want.lists[l]
  BY <1>1, <1>2, <1>5, ListsSynced DEF Mirrors
<1> HIDE DEF listed
<1>7. CASE loaded.failed
  BY <1>3, <1>4, <1>7
<1>8. CASE ~loaded.failed
  <2>1. r = [listed EXCEPT !.g = g]
    BY <1>3, <1>6, <1>8 DEF State, Grammar
  <2>2. /\ g \in Grammar /\ g.blob = listed.g.blob /\ g.rules = listed.g.rules
        /\ g.lists = listed.g.lists /\ g.enabled = listed.g.enabled
        /\ g.client = c /\ g.tid = t
    BY <1>1, <1>6 DEF State, Grammar
  <2> HIDE DEF g
  <2>3. r \in State /\ r.g = g /\ r.d = listed.d /\ r.stray = listed.stray /\ r.failed = listed.failed
    BY <1>6, <2>1, <2>2 DEF State
  <2>4. ~r.failed => Kept(r.g, name) /\ r.g.client = c /\ r.g.tid = t
    BY <1>4, <1>5, <1>6, <1>8, <2>2, <2>3 DEF Kept, Serves, want
  <2>5. Mirrors(loaded) => Mirrors(r)
    BY <1>5, <1>6, <2>2, <2>3 DEF Mirrors
  <2>6. Clean(loaded) => Clean(r)
    BY <1>4, <1>5, <1>6, <1>8, <2>2, <2>3 DEF Clean
  <2>7. Backed(loaded) => Backed(r)
    BY <1>5, <1>6, <2>2, <2>3 DEF Backed
  <2> QED
    BY <1>4, <1>5, <1>6, <2>3, <2>4, <2>5, <2>6, <2>7
<1> QED
  BY <1>7, <1>8

(* remove_grammar *)
LEMMA GrammarRemoved ==
  ASSUME NEW st \in State, NEW works \in BOOLEAN, "unload" \notin GrammarFaults => works,
         NEW r, r = RemoveGrammar(st, works)
  PROVE  /\ r \in State /\ r.g = Absent /\ r.failed = st.failed
         /\ Mirrors(r) /\ Backed(r)
         /\ "unload" \notin GrammarFaults /\ Clean(st) => Clean(r)
         /\ "unload" \notin GrammarFaults /\ (st.g.enabled \/ st.d = NotLoaded) => r.stray = st.stray
<1> DEFINE gone == IF st.g.enabled THEN UnloadGrammar(st, works) ELSE st
           stray == gone.stray \/ gone.d # NotLoaded
<1>1. /\ gone \in State /\ gone.failed = st.failed /\ gone.stray = st.stray
      /\ works /\ st.g.enabled => gone.d = NotLoaded
      /\ ~st.g.enabled => gone.d = st.d
  <2>1. CASE ~st.g.enabled
    BY <2>1
  <2>2. CASE st.g.enabled
    BY <2>2, Unloaded
  <2> QED
    BY <2>1, <2>2
<1>2. r = [gone EXCEPT !.g = Absent, !.d = NotLoaded, !.stray = stray]
  BY DEF RemoveGrammar
<1> HIDE DEF gone
<1>3. stray \in BOOLEAN /\ (stray <=> gone.stray \/ gone.d # NotLoaded)
  BY <1>1 DEF State
<1> HIDE DEF stray
<1>4. r \in State /\ r.g = Absent /\ r.d = NotLoaded /\ r.stray = stray /\ r.failed = gone.failed
  BY <1>1, <1>2, <1>3, Empty DEF State
<1> QED
  BY <1>1, <1>3, <1>4, Empty DEF Mirrors, Clean, Backed

(* The body of sync_grammars' loop *)
LEMMA NameSynced ==
  ASSUME NEW st \in State, ~st.failed, NEW name, st.g = Absent \/ Kept(st.g, name),
         NEW s \in Shadow, s.op = "set" => s.client \in ClientId /\ Asks(s.tid, name),
         NEW out \in CallOutcome, NEW r, r = SyncName(st, s, out)
  PROVE  /\ r \in State
         /\ r.g = Absent \/ Kept(r.g, name)
         /\ Backed(st) => Backed(r)
         /\ "unload" \notin GrammarFaults /\ Mirrors(st) => Mirrors(r)
         /\ {"unload", "register"} \cap GrammarFaults = {} /\ Mirrors(st) /\ Clean(st) => Clean(r)
         /\ s.op = "none" => r.g = st.g
         /\ s.op = "unload" => r.g = Absent
         /\ s.op = "set" /\ r.g # Absent => r.g.client = s.client /\ r.g.tid = s.tid
         /\ "unload" \notin GrammarFaults /\ Mirrors(st) /\ r.stray /\ ~st.stray
              => s.op = "set" /\ r.failed /\ r.g = Absent
<1> DEFINE synced == SyncGrammar(st, s.client, s.tid, out)
<1>1. /\ out.remove \in BOOLEAN /\ ("unload" \notin GrammarFaults => out.remove)
  BY Outcomes
<1>2. CASE s.op = "none"
  BY <1>2 DEF SyncName
<1>3. CASE s.op = "unload"
  <2>1. r = RemoveGrammar(st, out.remove)
    BY <1>3 DEF SyncName
  <2>2. Mirrors(st) => st.g.enabled \/ st.d = NotLoaded
    BY Empty, LoadedEqual DEF Mirrors, Kept, State
  <2> QED
    BY <1>1, <1>3, <2>1, <2>2, GrammarRemoved
<1>4. CASE s.op = "set"
  <2>1. r = IF synced.failed THEN RemoveGrammar(synced, out.remove) ELSE synced
    BY <1>4 DEF SyncName
  <2>2. s.client \in ClientId /\ Asks(s.tid, name) /\ (st.g.enabled \/ st.g = Absent)
    BY <1>4 DEF Kept
  <2>3. /\ synced \in State
        /\ ~synced.failed => /\ Kept(synced.g, name)
                             /\ synced.g.client = s.client /\ synced.g.tid = s.tid
        /\ Backed(st) => Backed(synced)
        /\ "unload" \notin GrammarFaults /\ Mirrors(st) =>
             /\ Mirrors(synced) /\ synced.stray = st.stray
             /\ "register" \notin GrammarFaults /\ ~st.stray => Clean(synced)
    BY <2>2, GrammarSynced
  <2> HIDE DEF synced
  <2>4. Clean(st) => ~st.stray
    BY DEF Clean
  <2>5. CASE synced.failed
    <3>1. r = RemoveGrammar(synced, out.remove)
      BY <2>1, <2>5
    <3>2. /\ r \in State /\ r.g = Absent /\ r.failed /\ Mirrors(r) /\ Backed(r)
          /\ "unload" \notin GrammarFaults /\ Clean(synced) => Clean(r)
      BY <1>1, <2>3, <2>5, <3>1, GrammarRemoved
    <3> QED
      BY <1>4, <2>3, <2>4, <3>2
  <2>6. CASE ~synced.failed
    BY <1>4, <2>1, <2>3, <2>4, <2>6
  <2> QED
    BY <2>5, <2>6
<1>5. s.op \in {"none", "set", "unload"}
  BY DEF Shadow
<1> QED
  BY <1>2, <1>3, <1>4, <1>5

----------------------------------------------------------------------------
(* The whole table. *)

(* What is known of the grammar n. *)
At(n) == [g |-> grammars[n], d |-> dragon_grammars[n], stray |-> n \in stray_grammars,
          failed |-> FALSE]

ObjectsKept == \A n \in Name : grammars[n] = Absent \/ Kept(grammars[n], n)

ObjectsBacked == \A n \in Name : Backed(At(n))

ObjectsMirror == "unload" \notin GrammarFaults => \A n \in Name : Mirrors(At(n))

NamesClean == {"unload", "register"} \cap GrammarFaults = {} => \A n \in Name : Clean(At(n))

Shadows == [Name -> Shadow]

Statuses == [ClientId -> [GTid -> GStatus]]

(* Updates are loads some client asked for, or unloads; the request behind *)
(* one, if any, waits for its answer.                                      *)
Waiting(sg, answers) == \A n \in Name :
  /\ sg[n].op = "set" => sg[n].client \in ClientId /\ Asks(sg[n].tid, n)
  /\ sg[n].op # "none" /\ sg[n].tid \in GTid =>
       /\ sg[n].client \in ClientId
       /\ GRequest[sg[n].tid].name = n
       /\ answers[sg[n].client][sg[n].tid] = "pending"

GrammarsInv ==
  /\ GrammarsTypeOK
  /\ ObjectsKept
  /\ ObjectsBacked
  /\ ObjectsMirror
  /\ NamesClean
  /\ Waiting(shadow_grammars, gset)

LEMMA NoShadowWaits ==
  ASSUME NEW answers
  PROVE  /\ NoShadow \in Shadow /\ NoShadow.op = "none"
         /\ [n \in Name |-> NoShadow] \in Shadows
         /\ Waiting([n \in Name |-> NoShadow], answers)
  BY DEF NoShadow, Shadow, Shadows, Waiting

(* The fields of the record of one grammar. *)
LEMMA AtFields ==
  ASSUME GrammarsTypeOK, NEW n \in Name
  PROVE  /\ At(n) \in State /\ ~At(n).failed
         /\ At(n).g = grammars[n] /\ At(n).d = dragon_grammars[n]
         /\ At(n).stray = (n \in stray_grammars)
  BY DEF At, State, GrammarsTypeOK

(* Initially nothing is loaded and nothing waits. *)
LEMMA GrammarsInvInit == Init => GrammarsInv
<1> SUFFICES ASSUME Init PROVE GrammarsInv
  OBVIOUS
<1>1. /\ grammars = [n \in Name |-> Absent] /\ shadow_grammars = [n \in Name |-> NoShadow]
      /\ dragon_grammars = [n \in Name |-> NotLoaded] /\ stray_grammars = {}
      /\ gset = [c \in ClientId |-> [t \in GTid |-> "unsent"]]
  BY DEF Init, GrammarsInit
<1>2. gset \in Statuses
  BY <1>1 DEF Statuses, GStatus
<1>3. GrammarsTypeOK
  BY <1>1, <1>2, Empty, NoShadowWaits DEF GrammarsTypeOK, Statuses
<1>4. ObjectsKept
  BY <1>1 DEF ObjectsKept
<1>5. \A n \in Name : Mirrors(At(n)) /\ Backed(At(n)) /\ Clean(At(n))
  BY <1>1, <1>3, AtFields, Empty DEF Mirrors, Backed, Clean
<1>6. Waiting(shadow_grammars, gset)
  BY <1>1, NoShadowWaits
<1> QED
  BY <1>3, <1>4, <1>5, <1>6 DEF GrammarsInv, ObjectsBacked, ObjectsMirror, NamesClean

(* Draconity::sync_grammars keeps the invariant, leaves no update behind   *)
(* and answers only requests that wait.                                    *)
LEMMA TableSynced ==
  ASSUME GrammarsInv, NEW sg \in Shadows, NEW answers \in Statuses, Waiting(sg, answers),
         NEW present, SyncGrammars(sg, answers, present)
  PROVE  /\ GrammarsInv'
         /\ \A n \in Name : shadow_grammars'[n].op = "none"
         /\ \A c \in ClientId, t \in GTid :
              answers[c][t] # "pending" => gset'[c][t] = answers[c][t]
<1> DEFINE before == [n \in Name |->
                        [g |-> grammars[n], d |-> dragon_grammars[n],
                         stray |-> n \in stray_grammars, failed |-> FALSE]]
           Answered(n, c, t) == sg[n].op # "none" /\ sg[n].client = c /\ sg[n].tid = t
<1>1. PICK out \in [Name -> CallOutcome] :
        LET after == [n \in Name |-> SyncName(before[n], sg[n], out[n])]
            Status(c, t) ==
              IF c \in present /\ \E n \in Name : Answered(n, c, t)
              THEN IF \E n \in Name : Answered(n, c, t) /\ after[n].failed
                   THEN "error" ELSE "success"
              ELSE answers[c][t]
        IN  /\ grammars' = [n \in Name |-> after[n].g]
            /\ dragon_grammars' = [n \in Name |-> after[n].d]
            /\ stray_grammars' = {n \in Name : after[n].stray}
            /\ shadow_grammars' = [n \in Name |-> NoShadow]
            /\ gset' = [c \in ClientId |-> [t \in GTid |-> Status(c, t)]]
  BY Zenon DEF SyncGrammars
<1> DEFINE after == [n \in Name |-> SyncName(before[n], sg[n], out[n])]
           Status(c, t) ==
              IF c \in present /\ \E n \in Name : Answered(n, c, t)
              THEN IF \E n \in Name : Answered(n, c, t) /\ after[n].failed
                   THEN "error" ELSE "success"
              ELSE answers[c][t]
<1>2. /\ grammars' = [n \in Name |-> after[n].g]
      /\ dragon_grammars' = [n \in Name |-> after[n].d]
      /\ stray_grammars' = {n \in Name : after[n].stray}
      /\ shadow_grammars' = [n \in Name |-> NoShadow]
      /\ gset' = [c \in ClientId |-> [t \in GTid |-> Status(c, t)]]
  BY <1>1
<1>3. ASSUME NEW n \in Name
      PROVE  /\ after[n] \in State
             /\ after[n].g = Absent \/ Kept(after[n].g, n)
             /\ Backed(after[n])
             /\ "unload" \notin GrammarFaults => Mirrors(after[n])
             /\ {"unload", "register"} \cap GrammarFaults = {} => Clean(after[n])
  <2> DEFINE o == out[n]
             s == sg[n]
             r == after[n]
  <2>1. after[n] = SyncName(At(n), s, o)
    BY DEF At
  <2>2. o \in CallOutcome /\ s \in Shadow /\ (s.op = "set" => s.client \in ClientId /\ Asks(s.tid, n))
    BY DEF Shadows, Waiting
  <2>3. /\ At(n) \in State /\ ~At(n).failed
        /\ At(n).g = Absent \/ Kept(At(n).g, n)
        /\ Backed(At(n))
        /\ "unload" \notin GrammarFaults => Mirrors(At(n))
        /\ {"unload", "register"} \cap GrammarFaults = {} => Clean(At(n))
    BY AtFields DEF GrammarsInv, ObjectsKept, ObjectsBacked, ObjectsMirror, NamesClean
  <2> DEFINE st == At(n)
  <2> HIDE DEF o, s, st, after
  <2>4. /\ st \in State /\ ~st.failed
        /\ st.g = Absent \/ Kept(st.g, n)
        /\ Backed(st)
        /\ "unload" \notin GrammarFaults => Mirrors(st)
        /\ {"unload", "register"} \cap GrammarFaults = {} => Clean(st)
        /\ r = SyncName(st, s, o)
    BY <2>1, <2>3 DEF st
  <2> HIDE DEF r
  <2>5. /\ r \in State
        /\ r.g = Absent \/ Kept(r.g, n)
        /\ Backed(r)
        /\ "unload" \notin GrammarFaults => Mirrors(r)
        /\ {"unload", "register"} \cap GrammarFaults = {} => Clean(r)
    BY <2>2, <2>4, NameSynced
  <2> QED
    BY <2>5 DEF r
<1> HIDE DEF after, before
<1>4. gset' \in Statuses
  BY <1>2 DEF Statuses, GStatus
<1>5. GrammarsTypeOK'
  BY <1>2, <1>3, <1>4, NoShadowWaits DEF GrammarsTypeOK, Statuses, Shadows, State
<1>6. ASSUME NEW n \in Name
      PROVE  /\ At(n)'.g = after[n].g /\ At(n)'.d = after[n].d
             /\ At(n)'.stray <=> after[n].stray
             /\ grammars'[n] = after[n].g
  BY <1>2, <1>3 DEF At, State
<1>7. ObjectsKept'
  BY <1>3, <1>6 DEF ObjectsKept
<1>8. ObjectsBacked' /\ ObjectsMirror' /\ NamesClean'
  BY <1>3, <1>6 DEF ObjectsBacked, ObjectsMirror, NamesClean, Backed, Mirrors, Clean
<1>9. Waiting(shadow_grammars', gset')
  BY <1>2, NoShadowWaits
<1>10. \A n \in Name : shadow_grammars'[n].op = "none"
  BY <1>2, NoShadowWaits
<1>11. ASSUME NEW c \in ClientId, NEW t \in GTid, answers[c][t] # "pending"
       PROVE  gset'[c][t] = answers[c][t]
  <2>1. \A n \in Name : ~Answered(n, c, t)
    BY <1>11 DEF Waiting
  <2> QED
    BY <1>2, <2>1
<1> QED
  BY <1>5, <1>7, <1>8, <1>9, <1>10, <1>11 DEF GrammarsInv

----------------------------------------------------------------------------
(* The handlers. *)

(* An answer a client has been given for good. *)
Final == {"skipped", "success", "error"}

AnswersKept(before, after) ==
  \A c \in ClientId, t \in GTid : before[c][t] \in Final => after[c][t] = before[c][t]

(* The table and the answers set_shadow_grammar leaves. *)
LEMMA RequestedGrammar ==
  ASSUME GrammarsInv, NEW c \in ClientId, NEW t \in GTid, gset[c][t] = "unsent"
  PROVE  /\ ShadowGrammars(c, t) \in Shadows
         /\ SkippedGrammar(c, t) \in Statuses
         /\ Waiting(ShadowGrammars(c, t), SkippedGrammar(c, t))
         /\ AnswersKept(gset, SkippedGrammar(c, t))
<1> DEFINE name == GRequest[t].name
           entry == [op |-> GRequest[t].op, client |-> c, tid |-> t]
           old == shadow_grammars[name]
           sg == ShadowGrammars(c, t)
           answers == SkippedGrammar(c, t)
           Skipped(d, u) == old.op # "none" /\ d = old.client /\ u = old.tid /\ d \in clients
<1>1. name \in Name /\ GRequest[t].op \in {"set", "unload"} /\ shadow_grammars \in Shadows
      /\ gset \in Statuses
  BY Requests DEF GrammarsInv, GrammarsTypeOK, Shadows, Statuses
<1>2. entry \in Shadow /\ entry.op = GRequest[t].op /\ entry.client = c /\ entry.tid = t
  BY <1>1 DEF Shadow
<1>3. sg = [shadow_grammars EXCEPT ![name] = entry]
  BY DEF ShadowGrammars
<1>4. sg \in Shadows /\ sg[name] = entry /\ \A n \in Name \ {name} : sg[n] = shadow_grammars[n]
  BY <1>1, <1>2, <1>3 DEF Shadows
<1>5. answers = [d \in ClientId |-> [u \in GTid |->
                   IF d = c /\ u = t THEN "pending"
                   ELSE IF Skipped(d, u) THEN "skipped"
                   ELSE gset[d][u]]]
  BY DEF SkippedGrammar
<1>6. answers \in Statuses
  BY <1>1, <1>5 DEF Statuses, GStatus
<1>7. ASSUME NEW d \in ClientId, NEW u \in GTid, Skipped(d, u)
      PROVE  gset[d][u] = "pending" /\ GRequest[u].name = name
  BY <1>1, <1>7 DEF GrammarsInv, Waiting
<1>8. AnswersKept(gset, answers)
  <2> SUFFICES ASSUME NEW d \in ClientId, NEW u \in GTid, gset[d][u] \in Final
               PROVE  answers[d][u] = gset[d][u]
    BY DEF AnswersKept
  <2>1. ~(d = c /\ u = t) /\ ~Skipped(d, u)
    BY <1>7 DEF Final
  <2> QED
    BY <1>5, <2>1
<1>9. Waiting(sg, answers)
  <2> SUFFICES ASSUME NEW n \in Name
               PROVE  /\ sg[n].op = "set" => sg[n].client \in ClientId /\ Asks(sg[n].tid, n)
                      /\ sg[n].op # "none" /\ sg[n].tid \in GTid =>
                           /\ sg[n].client \in ClientId
                           /\ GRequest[sg[n].tid].name = n
                           /\ answers[sg[n].client][sg[n].tid] = "pending"
    BY DEF Waiting
  <2>1. CASE n = name
    <3>1. answers[c][t] = "pending"
      BY <1>5
    <3>2. /\ sg[n].op = GRequest[t].op /\ sg[n].client = c /\ sg[n].tid = t
          /\ GRequest[t].name = n
      BY <1>2, <1>4, <2>1
    <3> HIDE DEF sg, answers, entry, name
    <3> QED
      BY <3>1, <3>2 DEF Asks
  <2>2. CASE n # name
    <3>1. /\ sg[n] = shadow_grammars[n]
          /\ sg[n].op = "set" => sg[n].client \in ClientId /\ Asks(sg[n].tid, n)
          /\ sg[n].op # "none" /\ sg[n].tid \in GTid =>
               /\ sg[n].client \in ClientId
               /\ GRequest[sg[n].tid].name = n
               /\ gset[sg[n].client][sg[n].tid] = "pending"
      BY <1>4, <2>2 DEF GrammarsInv, Waiting
    <3>2. ASSUME sg[n].op # "none", sg[n].tid \in GTid
          PROVE  answers[sg[n].client][sg[n].tid] = "pending"
      <4> DEFINE d == sg[n].client
                 u == sg[n].tid
      <4>1. d \in ClientId /\ u \in GTid /\ gset[d][u] = "pending" /\ ~Skipped(d, u)
        BY <1>7, <2>2, <3>1, <3>2
      <4> HIDE DEF d, u
      <4>2. answers[d][u] = "pending"
        BY <1>5, <4>1
      <4> QED
        BY <4>2 DEF d, u
    <3> QED
      BY <3>1, <3>2
  <2> QED
    BY <2>1, <2>2
<1> QED
  BY <1>4, <1>6, <1>8, <1>9

(* The table clear_client_state leaves. *)
LEMMA ClearedGrammarTable ==
  ASSUME GrammarsInv, NEW c \in ClientId
  PROVE  ClearedGrammars(c) \in Shadows /\ Waiting(ClearedGrammars(c), gset)
<1> DEFINE entry == [op |-> "unload", client |-> c, tid |-> Nothing]
           sg == ClearedGrammars(c)
<1>1. entry \in Shadow /\ entry.op = "unload" /\ entry.tid \notin GTid
  BY GrammarsAssumption DEF Shadow
<1>2. \A n \in Name : sg[n] = IF grammars[n].client = c THEN entry ELSE shadow_grammars[n]
  BY DEF ClearedGrammars
<1>3. sg \in Shadows
  BY <1>1 DEF ClearedGrammars, Shadows, GrammarsInv, GrammarsTypeOK
<1> HIDE DEF entry, sg
<1>4. Waiting(sg, gset)
  BY <1>1, <1>2 DEF Waiting, GrammarsInv
<1> QED
  BY <1>3, <1>4 DEF sg

(* A step either leaves the grammars alone, or leaves nothing waiting, or  *)
(* happens while Dragon is not paused and leaves a new table of updates.   *)
Progress ==
  /\ GrammarsInv'
  /\ AnswersKept(gset, gset')
  /\ \/ UNCHANGED shadow_grammars
     \/ \A n \in Name : shadow_grammars'[n].op = "none"
     \/ ~(pause_token > 0 /\ pause_token # 0)

(* A handler that synchronises. *)
LEMMA SyncProgress ==
  ASSUME GrammarsInv, NEW sg \in Shadows, NEW answers \in Statuses, Waiting(sg, answers),
         AnswersKept(gset, answers), NEW present, SyncGrammars(sg, answers, present)
  PROVE  Progress /\ \A n \in Name : shadow_grammars'[n].op = "none"
<1>1. /\ GrammarsInv'
      /\ \A n \in Name : shadow_grammars'[n].op = "none"
      /\ \A c \in ClientId, t \in GTid :
           answers[c][t] # "pending" => gset'[c][t] = answers[c][t]
  BY TableSynced
<1>2. AnswersKept(gset, gset')
  BY <1>1 DEF AnswersKept, Final
<1> QED
  BY <1>1, <1>2 DEF Progress

(* A handler that does not. *)
LEMMA ShadowProgress ==
  ASSUME GrammarsInv, NEW sg \in Shadows, NEW answers \in Statuses, Waiting(sg, answers),
         AnswersKept(gset, answers), shadow_grammars' = sg, gset' = answers,
         UNCHANGED <<grammars, dragon_grammars, stray_grammars>>
  PROVE  GrammarsInv' /\ AnswersKept(gset, gset')
<1>1. GrammarsTypeOK'
  BY DEF GrammarsInv, GrammarsTypeOK, Shadows, Statuses
<1>2. ObjectsKept' /\ ObjectsBacked' /\ ObjectsMirror' /\ NamesClean'
  BY DEF GrammarsInv, ObjectsKept, ObjectsBacked, ObjectsMirror, NamesClean, At
<1> QED
  BY <1>1, <1>2 DEF GrammarsInv

LEMMA GrammarsStep == GrammarsInv /\ [Next]_vars => Progress
<1> SUFFICES ASSUME GrammarsInv, [Next]_vars PROVE Progress
  OBVIOUS
<1>1. shadow_grammars \in Shadows /\ gset \in Statuses /\ AnswersKept(gset, gset)
      /\ Waiting(shadow_grammars, gset)
  BY DEF GrammarsInv, GrammarsTypeOK, Shadows, Statuses, AnswersKept
<1>2. ASSUME UNCHANGED grammars_vars PROVE Progress
  BY <1>1, <1>2, ShadowProgress DEF grammars_vars, Progress
<1>3. CASE Ready \/ Connect \/ Pauses \/ RunPublish \/ TimerFires \/ UNCHANGED vars
  BY <1>2, <1>3 DEF Ready, Connect, Pauses, RunPublish, TimerFires, vars
<1>4. CASE RunPause
  <2>1. SyncGrammars(shadow_grammars, gset, clients)
    BY <1>4 DEF RunPause, SyncState
  <2> QED
    BY <1>1, <2>1, SyncProgress
<1>5. ASSUME NEW c \in ClientId,
             Auth(c) \/ (\E t \in WTid : WSet(c, t)) \/ (\E t \in PauseToken : Unpause(c, t))
      PROVE  Progress
  BY <1>2, <1>5 DEF Auth, WSet, Unpause
<1>6. ASSUME NEW c \in ClientId, NEW t \in GTid, GSet(c, t) PROVE Progress
  <2> DEFINE sg == ShadowGrammars(c, t)
             answers == SkippedGrammar(c, t)
  <2>1. sg \in Shadows /\ answers \in Statuses /\ Waiting(sg, answers) /\ AnswersKept(gset, answers)
    BY <1>6, RequestedGrammar DEF GSet
  <2>2. CASE pause_token # 0
    <3>1. SyncGrammars(sg, answers, clients)
      BY <1>6, <2>2 DEF GSet, SyncState
    <3> HIDE DEF sg, answers
    <3> QED
      BY <2>1, <3>1, SyncProgress
  <2>3. CASE pause_token = 0
    <3>1. shadow_grammars' = sg /\ gset' = answers
          /\ UNCHANGED <<grammars, dragon_grammars, stray_grammars>>
      BY <1>6, <2>3 DEF GSet
    <3> HIDE DEF sg, answers
    <3> QED
      BY <2>1, <2>3, <3>1, ShadowProgress DEF Progress
  <2> QED
    BY <2>2, <2>3
<1>7. ASSUME NEW c \in ClientId, Disconnect(c) PROVE Progress
  <2> DEFINE sg == ClearedGrammars(c)
  <2>1. sg \in Shadows /\ Waiting(sg, gset)
    BY ClearedGrammarTable
  <2>2. CASE pause_token > 0
    <3>1. SyncGrammars(sg, gset, clients \ {c})
      BY <1>7, <2>2 DEF Disconnect, SyncState
    <3> HIDE DEF sg
    <3> QED
      BY <1>1, <2>1, <3>1, SyncProgress
  <2>3. CASE ~(pause_token > 0)
    <3>1. shadow_grammars' = sg /\ gset' = gset
          /\ UNCHANGED <<grammars, dragon_grammars, stray_grammars>>
      BY <1>7, <2>3 DEF Disconnect
    <3> HIDE DEF sg
    <3> QED
      BY <1>1, <2>1, <2>3, <3>1, ShadowProgress DEF Progress
  <2> QED
    BY <2>2, <2>3
<1> QED
  BY <1>3, <1>4, <1>5, <1>6, <1>7 DEF Next, RunQueue

----------------------------------------------------------------------------
(* The theorems. *)

(* What the handlers keep of the grammars, in every behaviour, whatever    *)
(* Dragon refuses.                                                         *)
THEOREM GrammarsInvariant == Spec => []GrammarsInv
<1>1. GrammarsInv /\ [Next]_vars => GrammarsInv'
  BY GrammarsStep DEF Progress
<1> QED
  BY <1>1, GrammarsInvInit, PTL DEF Spec

(* A "g.*" request that has had its answer is never given another.         *)
THEOREM GrammarAnswerIsFinalHolds == Spec => GrammarAnswerIsFinal
<1>1. GrammarsInv /\ [Next]_vars
        => [\A c \in ClientId, t \in GTid :
              gset[c][t] \in {"skipped", "success", "error"} => gset'[c][t] = gset[c][t]]_vars
  BY GrammarsStep DEF Progress, AnswersKept, Final
<1> QED
  BY <1>1, GrammarsInvariant, PTL DEF Spec, GrammarAnswerIsFinal

(* Draconity's record of the grammars is what Dragon has, if Dragon        *)
(* unloads what it is told to.                                             *)
THEOREM GrammarMirrorsHolds ==
  ASSUME "unload" \notin GrammarFaults
  PROVE  Spec => []GrammarMirrors
<1>1. GrammarsInv => GrammarMirrors
  <2> SUFFICES ASSUME GrammarsInv, NEW n \in Name
               PROVE  dragon_grammars[n] = [blob |-> grammars[n].blob, rules |-> grammars[n].rules,
                                            lists |-> grammars[n].lists]
    BY DEF GrammarMirrors
  <2> DEFINE d == dragon_grammars[n]
             g == grammars[n]
  <2>1. d \in Loaded /\ g \in Grammar
    BY DEF GrammarsInv, GrammarsTypeOK
  <2>2. d.blob = g.blob /\ d.rules = g.rules /\ d.lists = g.lists
    BY AtFields DEF GrammarsInv, ObjectsMirror, Mirrors
  <2> HIDE DEF d, g
  <2>3. d = [blob |-> g.blob, rules |-> g.rules, lists |-> g.lists]
    BY <2>1, <2>2 DEF Loaded
  <2> QED
    BY <2>3 DEF d, g
<1> QED
  BY <1>1, GrammarsInvariant, PTL

(* A grammar answered with success is in Dragon as it was asked for, if    *)
(* Dragon unloads what it is told to.                                      *)
THEOREM SuccessMeansInForceHolds ==
  ASSUME "unload" \notin GrammarFaults
  PROVE  Spec => []SuccessMeansInForce
<1>1. GrammarsInv /\ ClientsTypeOK => SuccessMeansInForce
  <2> SUFFICES ASSUME GrammarsInv, ClientsTypeOK, NEW n \in Name, grammars[n].client \in clients
               PROVE  LET t == grammars[n].tid
                          d == dragon_grammars[n]
                      IN  /\ GRequest[t].op = "set"
                          /\ d.blob = GRequest[t].blob
                          /\ d.rules = GRequest[t].rules
                          /\ \A l \in ListName : GRequest[t].lists[l] # Nothing
                                                  => d.lists[l] = GRequest[t].lists[l]
    BY DEF SuccessMeansInForce
  <2>1. grammars[n] # Absent
    BY ClientsAreIds, Empty, GrammarsAssumption
  <2>2. Kept(grammars[n], n)
    BY <2>1 DEF GrammarsInv, ObjectsKept
  <2>3. /\ dragon_grammars[n].blob = grammars[n].blob
        /\ dragon_grammars[n].rules = grammars[n].rules
        /\ dragon_grammars[n].lists = grammars[n].lists
    BY AtFields DEF GrammarsInv, ObjectsMirror, Mirrors
  <2> QED
    BY <2>2, <2>3 DEF Kept, Asks, Serves
<1>2. PauseInv => ClientsTypeOK
  BY DEF PauseInv
<1> QED
  BY <1>1, <1>2, GrammarsInvariant, PauseInvariant, PTL

(* While Dragon is paused no grammar update waits. *)
THEOREM NoGrammarWaitsWhilePausedHolds == Spec => []NoGrammarWaitsWhilePaused
<1>1. Init => NoGrammarWaitsWhilePaused
  BY NoShadowWaits DEF Init, GrammarsInit, NoGrammarWaitsWhilePaused
<1>2. ASSUME GrammarsInv, PauseTypeOK, NoGrammarWaitsWhilePaused, [Next]_vars
      PROVE  NoGrammarWaitsWhilePaused'
  <2>1. pause_token \in Nat
    BY <1>2, PauseAssumption DEF PauseTypeOK, PauseToken
  <2>2. CASE \A n \in Name : shadow_grammars'[n].op = "none"
    BY <2>2 DEF NoGrammarWaitsWhilePaused
  <2>3. CASE RunPause
    <3>1. shadow_grammars \in Shadows /\ gset \in Statuses /\ AnswersKept(gset, gset)
      BY <1>2 DEF GrammarsInv, GrammarsTypeOK, Shadows, Statuses, AnswersKept
    <3>2. Waiting(shadow_grammars, gset) /\ SyncGrammars(shadow_grammars, gset, clients)
      BY <1>2, <2>3 DEF RunPause, SyncState, GrammarsInv
    <3>3. \A n \in Name : shadow_grammars'[n].op = "none"
      BY <1>2, <3>1, <3>2, SyncProgress
    <3> QED
      BY <2>2, <3>3
  <2>4. CASE ~RunPause
    <3>1. pause_token' = pause_token \/ pause_token' = 0
      BY <1>2, <2>4
      DEF Next, RunQueue, Ready, Connect, Pauses, DragonPauses, RunPublish, TimerFires, DoUnpause,
          Auth, WSet, GSet, Unpause, Disconnect, ClientUnpause, vars, pause_vars
    <3>2. Progress
      BY <1>2, GrammarsStep
    <3> QED
      BY <1>2, <2>1, <3>1, <3>2 DEF Progress, NoGrammarWaitsWhilePaused
  <2> QED
    BY <2>3, <2>4
<1>3. PauseInv => PauseTypeOK
  BY DEF PauseInv
<1> QED
  BY <1>1, <1>2, <1>3, GrammarsInvariant, PauseInvariant, PTL DEF Spec

----------------------------------------------------------------------------

ReadyType == ready \in BOOLEAN

(* Everything keeps its type. *)
THEOREM TypeCorrect == Spec => []TypeOK
<1>1. Init => ReadyType
  BY DEF Init, ReadyType
<1>2. ReadyType /\ [Next]_vars => ReadyType'
  BY DEF Next, RunQueue, Ready, Connect, Pauses, RunPause, RunPublish, TimerFires, Auth, WSet,
         GSet, Unpause, Disconnect, vars, ReadyType
<1>3. GrammarsInv /\ WordsInv /\ PauseInv /\ ReadyType => TypeOK
  BY DEF GrammarsInv, WordsInv, PauseInv, TypeOK, ReadyType
<1> QED
  BY <1>1, <1>2, <1>3, GrammarsInvariant, WordsInvariant, PauseInvariant, PTL DEF Spec

(* What a synchronisation makes of the grammars and the answers: nothing   *)
(* of one without an update, no object of one that is unloaded, and one    *)
(* that is set belongs to whoever asked for it, or is gone.  A handle is   *)
(* lost only where an error is reported to whoever asked, if connected;    *)
(* every connected client that waits has an answer, the others have none.  *)
LEMMA TableOutcome ==
  ASSUME GrammarsInv, NEW sg \in Shadows, NEW answers \in Statuses, Waiting(sg, answers),
         NEW present, SyncGrammars(sg, answers, present)
  PROVE  /\ \A n \in Name :
              /\ sg[n].op = "none" => grammars'[n] = grammars[n]
              /\ sg[n].op = "unload" => grammars'[n] = Absent
              /\ sg[n].op = "set" /\ grammars'[n] # Absent =>
                   grammars'[n].client = sg[n].client /\ grammars'[n].tid = sg[n].tid
              /\ "unload" \notin GrammarFaults /\ n \in stray_grammars' \ stray_grammars =>
                   /\ sg[n].op = "set" /\ grammars'[n] = Absent
                   /\ sg[n].client \in present => gset'[sg[n].client][sg[n].tid] = "error"
         /\ \A c \in ClientId, t \in GTid :
              /\ c \notin present => gset'[c][t] = answers[c][t]
              /\ c \in present /\ (\E n \in Name : sg[n].op # "none" /\ sg[n].client = c /\ sg[n].tid = t)
                   => gset'[c][t] # "pending"
<1> DEFINE before == [n \in Name |->
                        [g |-> grammars[n], d |-> dragon_grammars[n],
                         stray |-> n \in stray_grammars, failed |-> FALSE]]
           Answered(n, c, t) == sg[n].op # "none" /\ sg[n].client = c /\ sg[n].tid = t
<1>1. PICK out \in [Name -> CallOutcome] :
        LET after == [n \in Name |-> SyncName(before[n], sg[n], out[n])]
            Status(c, t) ==
              IF c \in present /\ \E n \in Name : Answered(n, c, t)
              THEN IF \E n \in Name : Answered(n, c, t) /\ after[n].failed
                   THEN "error" ELSE "success"
              ELSE answers[c][t]
        IN  /\ grammars' = [n \in Name |-> after[n].g]
            /\ dragon_grammars' = [n \in Name |-> after[n].d]
            /\ stray_grammars' = {n \in Name : after[n].stray}
            /\ shadow_grammars' = [n \in Name |-> NoShadow]
            /\ gset' = [c \in ClientId |-> [t \in GTid |-> Status(c, t)]]
  BY Zenon DEF SyncGrammars
<1> DEFINE after == [n \in Name |-> SyncName(before[n], sg[n], out[n])]
<1>2. /\ grammars' = [n \in Name |-> after[n].g]
      /\ stray_grammars' = {n \in Name : after[n].stray}
      /\ \A c \in ClientId, t \in GTid :
           gset'[c][t] = IF c \in present /\ \E n \in Name : Answered(n, c, t)
                         THEN IF \E n \in Name : Answered(n, c, t) /\ after[n].failed
                              THEN "error" ELSE "success"
                         ELSE answers[c][t]
  BY <1>1
<1>3. ASSUME NEW n \in Name
      PROVE  /\ sg[n].op = "none" => after[n].g = grammars[n]
             /\ sg[n].op = "unload" => after[n].g = Absent
             /\ sg[n].op = "set" /\ after[n].g # Absent =>
                  after[n].g.client = sg[n].client /\ after[n].g.tid = sg[n].tid
             /\ "unload" \notin GrammarFaults /\ after[n].stray /\ n \notin stray_grammars =>
                  sg[n].op = "set" /\ after[n].failed /\ after[n].g = Absent
  <2> DEFINE o == out[n]
             s == sg[n]
             r == after[n]
             st == At(n)
  <2>1. r = SyncName(st, s, o)
    BY DEF At
  <2>2. o \in CallOutcome /\ s \in Shadow /\ (s.op = "set" => s.client \in ClientId /\ Asks(s.tid, n))
    BY DEF Shadows, Waiting
  <2>3. /\ st \in State /\ ~st.failed /\ st.g = grammars[n] /\ st.stray = (n \in stray_grammars)
        /\ st.g = Absent \/ Kept(st.g, n)
        /\ "unload" \notin GrammarFaults => Mirrors(st)
    BY AtFields DEF GrammarsInv, ObjectsKept, ObjectsMirror
  <2> HIDE DEF o, s, st, r, after
  <2>4. /\ s.op = "none" => r.g = st.g
        /\ s.op = "unload" => r.g = Absent
        /\ s.op = "set" /\ r.g # Absent => r.g.client = s.client /\ r.g.tid = s.tid
        /\ "unload" \notin GrammarFaults /\ Mirrors(st) /\ r.stray /\ ~st.stray
             => s.op = "set" /\ r.failed /\ r.g = Absent
    <3>1. ASSUME NEW w \in CallOutcome, NEW x \in Shadow, NEW y \in State, ~y.failed,
                 y.g = Absent \/ Kept(y.g, n),
                 x.op = "set" => x.client \in ClientId /\ Asks(x.tid, n), r = SyncName(y, x, w)
          PROVE  /\ x.op = "none" => r.g = y.g
                 /\ x.op = "unload" => r.g = Absent
                 /\ x.op = "set" /\ r.g # Absent => r.g.client = x.client /\ r.g.tid = x.tid
                 /\ "unload" \notin GrammarFaults /\ Mirrors(y) /\ r.stray /\ ~y.stray
                      => x.op = "set" /\ r.failed /\ r.g = Absent
      BY <3>1, NameSynced
    <3> QED
      BY ONLY <2>1, <2>2, <2>3, <3>1, Zenon
  <2> QED
    BY <2>3, <2>4 DEF r, s
<1> HIDE DEF after, before
<1>4. ASSUME NEW n \in Name, "unload" \notin GrammarFaults, n \in stray_grammars' \ stray_grammars
      PROVE  /\ sg[n].op = "set" /\ grammars'[n] = Absent
             /\ sg[n].client \in present => gset'[sg[n].client][sg[n].tid] = "error"
  <2>1. sg[n].op = "set" /\ after[n].failed /\ after[n].g = Absent
    BY <1>2, <1>3, <1>4
  <2>2. sg[n].client \in ClientId /\ sg[n].tid \in GTid
    BY <2>1 DEF Waiting, Asks
  <2> QED
    BY <1>2, <2>1, <2>2
<1>5. ASSUME NEW n \in Name
      PROVE  grammars'[n] = after[n].g
  BY <1>2
<1>6. ASSUME NEW c \in ClientId, NEW t \in GTid
      PROVE  /\ c \notin present => gset'[c][t] = answers[c][t]
             /\ c \in present /\ (\E n \in Name : Answered(n, c, t)) => gset'[c][t] # "pending"
  BY <1>2
<1> QED
  BY <1>3, <1>4, <1>5, <1>6

(* A handler that synchronises keeps track of the grammars of clients that *)
(* have left.                                                              *)
LEMMA SyncLeavers ==
  ASSUME GrammarsInv, LeaversGrammarsGo, NEW sg \in Shadows, NEW answers \in Statuses,
         Waiting(sg, answers), SyncGrammars(sg, answers, clients'),
         \A n \in Name : sg[n].op = "none" /\ grammars[n].client \in ClientId \ clients' =>
            /\ shadow_grammars[n].op = "none"
            /\ grammars[n].client \notin clients,
         \A c \in ClientId \ clients', t \in GTid : gset[c][t] = "pending" => answers[c][t] = "pending"
  PROVE  LeaversGrammarsGo'
<1> SUFFICES ASSUME NEW n \in Name, grammars'[n].client \in ClientId \ clients'
             PROVE  gset'[grammars'[n].client][grammars'[n].tid] = "pending"
  BY DEF LeaversGrammarsGo
<1> DEFINE c == grammars'[n].client
           t == grammars'[n].tid
<1>1. grammars'[n] # Absent
  BY Empty, GrammarsAssumption
<1>2. GrammarsInv'
  BY TableSynced
<1>3. t \in GTid
  BY <1>1, <1>2 DEF GrammarsInv, ObjectsKept, Kept, Asks
<1>4. answers[c][t] = "pending"
  <2>1. CASE sg[n].op = "none"
    <3>1. grammars'[n] = grammars[n]
      BY <2>1, TableOutcome
    <3>2. shadow_grammars[n].op = "none" /\ c \in ClientId \ clients
      BY <2>1, <3>1
    <3>3. gset[c][t] = "pending"
      BY <3>1, <3>2 DEF LeaversGrammarsGo
    <3> QED
      BY <1>3, <3>3
  <2>2. CASE sg[n].op = "unload"
    BY <1>1, <2>2, TableOutcome
  <2>3. CASE sg[n].op = "set"
    <3>1. c = sg[n].client /\ t = sg[n].tid
      BY <1>1, <2>3, TableOutcome
    <3> QED
      BY <1>3, <2>3, <3>1 DEF Waiting
  <2>4. sg[n].op \in {"none", "set", "unload"}
    BY DEF Shadows, Shadow
  <2> QED
    BY <2>1, <2>2, <2>3, <2>4
<1>5. gset'[c][t] = answers[c][t]
  BY <1>3, TableOutcome
<1> QED
  BY <1>4, <1>5

(* A client's grammars go with it, or were loaded after it left for a      *)
(* request nobody answers.                                                 *)
THEOREM LeaversGrammarsGoHolds == Spec => []LeaversGrammarsGo
<1>1. Init => LeaversGrammarsGo
  BY Empty, GrammarsAssumption DEF Init, GrammarsInit, LeaversGrammarsGo
<1>2. ASSUME GrammarsInv, ClientsTypeOK, LeaversGrammarsGo, [Next]_vars
      PROVE  LeaversGrammarsGo'
  <2>1. shadow_grammars \in Shadows /\ gset \in Statuses /\ Waiting(shadow_grammars, gset)
    BY <1>2 DEF GrammarsInv, GrammarsTypeOK, Shadows, Statuses
  <2>2. ASSUME UNCHANGED grammars_vars, clients \subseteq clients'
        PROVE  LeaversGrammarsGo'
    BY <1>2, <2>2 DEF grammars_vars, LeaversGrammarsGo
  <2>3. CASE \/ Ready \/ Connect \/ Pauses \/ RunPublish \/ TimerFires \/ UNCHANGED vars
             \/ \E c \in ClientId : \/ Auth(c)
                                    \/ \E t \in WTid : WSet(c, t)
                                    \/ \E t \in PauseToken : Unpause(c, t)
    BY <2>2, <2>3
    DEF Ready, Connect, Accept, Pauses, RunPublish, TimerFires, Auth, Authenticate, WSet, Unpause,
        vars, clients_vars, grammars_vars
  <2>4. CASE RunPause
    <3>1. SyncGrammars(shadow_grammars, gset, clients) /\ clients' = clients
      BY <2>4 DEF RunPause, SyncState, clients_vars
    <3> QED
      BY <1>2, <2>1, <3>1, SyncLeavers
  <2>5. ASSUME NEW c \in ClientId, NEW t \in GTid, GSet(c, t) PROVE LeaversGrammarsGo'
    <3> DEFINE sg == ShadowGrammars(c, t)
               answers == SkippedGrammar(c, t)
    <3>1. /\ c \in clients /\ clients' = clients
          /\ sg \in Shadows /\ answers \in Statuses /\ Waiting(sg, answers)
      BY <1>2, <2>5, RequestedGrammar DEF GSet, clients_vars, ClientsTypeOK
    <3>2. \A n \in Name : sg[n].op = "none" => shadow_grammars[n].op = "none"
      BY <1>2, Requests DEF ShadowGrammars, GrammarsInv, GrammarsTypeOK
    <3>3. \A d \in ClientId \ clients, u \in GTid : answers[d][u] = gset[d][u]
      BY <3>1 DEF SkippedGrammar
    <3>4. CASE pause_token # 0
      <4>1. SyncGrammars(sg, answers, clients)
        BY <2>5, <3>4 DEF GSet, SyncState
      <4> HIDE DEF sg, answers
      <4> QED
        BY <1>2, <3>1, <3>2, <3>3, <4>1, SyncLeavers
    <3>5. CASE pause_token = 0
      <4>1. shadow_grammars' = sg /\ gset' = answers /\ grammars' = grammars
        BY <2>5, <3>5 DEF GSet
      <4> HIDE DEF sg, answers
      <4>2. ASSUME NEW n \in Name, grammars[n].client \in ClientId \ clients
            PROVE  grammars[n].tid \in GTid
        BY <1>2, <4>2, Empty, GrammarsAssumption DEF GrammarsInv, ObjectsKept, Kept, Asks
      <4> QED
        BY <1>2, <3>1, <3>2, <3>3, <4>1, <4>2 DEF LeaversGrammarsGo
    <3> QED
      BY <3>4, <3>5
  <2>6. ASSUME NEW c \in ClientId, Disconnect(c) PROVE LeaversGrammarsGo'
    <3> DEFINE sg == ClearedGrammars(c)
    <3>1. sg \in Shadows /\ Waiting(sg, gset)
      BY <1>2, ClearedGrammarTable
    <3>2. clients' = clients \ {c}
      BY <2>6 DEF Disconnect, Forget
    <3>3. \A n \in Name : sg[n].op = "none" =>
             grammars[n].client # c /\ shadow_grammars[n].op = "none"
      BY DEF ClearedGrammars
    <3>4. CASE pause_token > 0
      <4>1. SyncGrammars(sg, gset, clients \ {c})
        BY <2>6, <3>4 DEF Disconnect, SyncState
      <4> HIDE DEF sg
      <4> QED
        BY <1>2, <2>1, <3>1, <3>2, <3>3, <4>1, SyncLeavers
    <3>5. CASE ~(pause_token > 0)
      <4>1. shadow_grammars' = sg /\ gset' = gset /\ grammars' = grammars
        BY <2>6, <3>5 DEF Disconnect
      <4> HIDE DEF sg
      <4> QED
        BY <1>2, <3>2, <3>3, <4>1 DEF LeaversGrammarsGo
    <3> QED
      BY <3>4, <3>5
  <2> QED
    BY <1>2, <2>3, <2>4, <2>5, <2>6 DEF Next, RunQueue
<1>3. PauseInv => ClientsTypeOK
  BY DEF PauseInv
<1> QED
  BY <1>1, <1>2, <1>3, GrammarsInvariant, PauseInvariant, PTL DEF Spec

(* A handler that synchronises loses a handle only with an error.          *)
LEMMA SyncStray ==
  ASSUME "unload" \notin GrammarFaults, GrammarsInv, NEW sg \in Shadows, NEW answers \in Statuses,
         Waiting(sg, answers), AnswersKept(gset, answers), SyncGrammars(sg, answers, clients'),
         \A n \in Name : sg[n].op = "set" /\ sg[n].client \notin clients' => sg[n] = shadow_grammars[n],
         NEW n \in stray_grammars' \ stray_grammars
  PROVE  /\ grammars'[n] = Absent
         /\ \/ \E c \in clients', t \in GTid :
                  GRequest[t].name = n /\ gset[c][t] # "error" /\ gset'[c][t] = "error"
            \/ shadow_grammars[n].op = "set" /\ shadow_grammars[n].client \notin clients'
<1>1. n \in Name
  BY TableSynced DEF GrammarsInv, GrammarsTypeOK
<1>2. /\ sg[n].op = "set" /\ grammars'[n] = Absent
      /\ sg[n].client \in clients' => gset'[sg[n].client][sg[n].tid] = "error"
  BY <1>1, TableOutcome
<1>3. CASE sg[n].client \notin clients'
  BY <1>1, <1>2, <1>3
<1>4. CASE sg[n].client \in clients'
  <2> DEFINE c == sg[n].client
             t == sg[n].tid
  <2>1. c \in ClientId /\ t \in GTid /\ GRequest[t].name = n /\ answers[c][t] = "pending"
    BY <1>1, <1>2 DEF Waiting, Asks
  <2>2. gset[c][t] # "error"
    BY <2>1 DEF AnswersKept, Final
  <2> QED
    BY <1>2, <1>4, <2>1, <2>2
<1> QED
  BY <1>3, <1>4

(* If Dragon unloads what it is told to, a grammar is left in it that      *)
(* Draconity does not know of only where an update fails: with the error   *)
(* the client is sent, or for a client that has left.                      *)
THEOREM OnlyErrorsLeaveStrayHolds ==
  ASSUME "unload" \notin GrammarFaults
  PROVE  Spec => OnlyErrorsLeaveStray
<1>1. ASSUME GrammarsInv, ClientsTypeOK, [Next]_vars, NEW n \in stray_grammars' \ stray_grammars
      PROVE  /\ grammars'[n] = Absent
             /\ \/ \E c \in clients', t \in GTid :
                      GRequest[t].name = n /\ gset[c][t] # "error" /\ gset'[c][t] = "error"
                \/ shadow_grammars[n].op = "set" /\ shadow_grammars[n].client \notin clients'
  <2>1. /\ shadow_grammars \in Shadows /\ gset \in Statuses /\ Waiting(shadow_grammars, gset)
        /\ AnswersKept(gset, gset)
    BY <1>1 DEF GrammarsInv, GrammarsTypeOK, Shadows, Statuses, AnswersKept
  <2>2. CASE RunPause
    <3>1. SyncGrammars(shadow_grammars, gset, clients) /\ clients' = clients
      BY <2>2 DEF RunPause, SyncState, clients_vars
    <3> QED
      BY <1>1, <2>1, <3>1, SyncStray
  <2>3. ASSUME NEW c \in ClientId, NEW t \in GTid, GSet(c, t)
        PROVE  /\ grammars'[n] = Absent
               /\ \/ \E d \in clients', u \in GTid :
                        GRequest[u].name = n /\ gset[d][u] # "error" /\ gset'[d][u] = "error"
                  \/ shadow_grammars[n].op = "set" /\ shadow_grammars[n].client \notin clients'
    <3> DEFINE sg == ShadowGrammars(c, t)
               answers == SkippedGrammar(c, t)
    <3>1. /\ c \in clients /\ clients' = clients
          /\ sg \in Shadows /\ answers \in Statuses /\ Waiting(sg, answers)
          /\ AnswersKept(gset, answers)
      BY <1>1, <2>3, RequestedGrammar DEF GSet, clients_vars, ClientsTypeOK
    <3>2. \A m \in Name : sg[m].client # c => sg[m] = shadow_grammars[m]
      BY <1>1, Requests DEF ShadowGrammars, GrammarsInv, GrammarsTypeOK
    <3>3. SyncGrammars(sg, answers, clients)
      BY <1>1, <2>3 DEF GSet, SyncState
    <3> HIDE DEF sg, answers
    <3> QED
      BY <1>1, <3>1, <3>2, <3>3, SyncStray
  <2>4. ASSUME NEW c \in ClientId, Disconnect(c)
        PROVE  /\ grammars'[n] = Absent
               /\ \/ \E d \in clients', u \in GTid :
                        GRequest[u].name = n /\ gset[d][u] # "error" /\ gset'[d][u] = "error"
                  \/ shadow_grammars[n].op = "set" /\ shadow_grammars[n].client \notin clients'
    <3> DEFINE sg == ClearedGrammars(c)
    <3>1. sg \in Shadows /\ Waiting(sg, gset) /\ clients' = clients \ {c}
      BY <1>1, <2>4, ClearedGrammarTable DEF Disconnect, Forget
    <3>2. \A m \in Name : sg[m].op = "set" => sg[m] = shadow_grammars[m]
      BY DEF ClearedGrammars
    <3>3. SyncGrammars(sg, gset, clients \ {c})
      BY <1>1, <2>4 DEF Disconnect, SyncState
    <3> HIDE DEF sg
    <3> QED
      BY <1>1, <2>1, <3>1, <3>2, <3>3, SyncStray
  <2> QED
    BY <1>1, <2>2, <2>3, <2>4
    DEF Next, RunQueue, Ready, Connect, Pauses, RunPublish, TimerFires, Auth, WSet, Unpause, vars,
        grammars_vars
<1>2. GrammarsInv /\ ClientsTypeOK /\ [Next]_vars
        => [\A n \in stray_grammars' \ stray_grammars :
              /\ grammars'[n] = Absent
              /\ \/ \E c \in clients', t \in GTid :
                       GRequest[t].name = n /\ gset[c][t] # "error" /\ gset'[c][t] = "error"
                 \/ shadow_grammars[n].op = "set" /\ shadow_grammars[n].client \notin clients']_vars
  BY <1>1
<1>3. PauseInv => ClientsTypeOK
  BY DEF PauseInv
<1> QED
  BY <1>2, <1>3, GrammarsInvariant, PauseInvariant, PTL DEF Spec, OnlyErrorsLeaveStray

(* Only the departure of the owner of a grammar makes Draconity forget     *)
(* another client's request about it.                                      *)
THEOREM OnlyOwnersLeaveForgetsHolds == Spec => OnlyOwnersLeaveForgets
<1>1. ASSUME GrammarsInv, ClientsTypeOK, PauseTypeOK, NoGrammarWaitsWhilePaused, [Next]_vars,
             NEW c \in clients, NEW t \in GTid,
             Waits(c, t), ~Waits(c, t)', gset'[c][t] = "pending", c \in clients'
      PROVE  grammars[GRequest[t].name].client \in clients \ clients'
  <2> DEFINE n == GRequest[t].name
             old == shadow_grammars[n]
  <2>1. /\ n \in Name /\ GRequest[t].op \in {"set", "unload"}
        /\ old = [op |-> GRequest[t].op, client |-> c, tid |-> t]
        /\ c \in ClientId
    BY <1>1, Requests, ClientsAreIds DEF Waits
  <2>2. old.op # "none" /\ old.client = c /\ old.tid = t
    BY <2>1
  <2>3. ~UNCHANGED shadow_grammars
    BY <1>1 DEF Waits
  <2>4. pause_token = 0
    BY <1>1, <2>1, <2>2 DEF NoGrammarWaitsWhilePaused
  <2>5. ~RunPause
    <3>1. ASSUME RunPause PROVE FALSE
      <4>1. SyncGrammars(shadow_grammars, gset, clients)
        BY <3>1 DEF RunPause, SyncState
      <4>2. shadow_grammars \in Shadows
        BY <1>1 DEF GrammarsInv, GrammarsTypeOK, Shadows
      <4>3. gset \in Statuses /\ Waiting(shadow_grammars, gset) /\ GrammarsInv
        BY <1>1 DEF GrammarsInv, GrammarsTypeOK, Statuses
      <4>4. gset'[c][t] # "pending"
        BY <2>1, <2>2, <4>1, <4>2, <4>3, TableOutcome
      <4> QED
        BY <1>1, <4>4
    <3> QED
      BY <3>1
  <2>6. ASSUME NEW d \in ClientId, NEW u \in GTid, GSet(d, u) PROVE FALSE
    <3>1. shadow_grammars' = ShadowGrammars(d, u) /\ gset' = SkippedGrammar(d, u)
      BY <2>4, <2>6 DEF GSet
    <3>2. GRequest[u].name = n
      BY <1>1, <2>1, <3>1 DEF ShadowGrammars, Waits, GrammarsInv, GrammarsTypeOK
    <3>3. ~(d = c /\ u = t)
      BY <1>1, <2>1, <3>1 DEF ShadowGrammars, Waits, GrammarsInv, GrammarsTypeOK
    <3>4. gset'[c][t] = "skipped"
      BY <1>1, <2>1, <2>2, <3>1, <3>2, <3>3 DEF SkippedGrammar
    <3> QED
      BY <1>1, <3>4
  <2>7. PICK d \in ClientId : Disconnect(d)
    BY <1>1, <2>3, <2>5, <2>6
    DEF Next, RunQueue, Ready, Connect, Pauses, RunPublish, TimerFires, Auth, WSet, Unpause,
        vars, grammars_vars
  <2>8. shadow_grammars' = ClearedGrammars(d) /\ clients' = clients \ {d} /\ d \in clients
    BY <2>4, <2>7 DEF Disconnect, Forget
  <2>9. grammars[n].client = d
    BY <1>1, <2>1, <2>8 DEF ClearedGrammars, Waits
  <2> QED
    BY <2>8, <2>9
<1>2. GrammarsInv /\ ClientsTypeOK /\ PauseTypeOK /\ NoGrammarWaitsWhilePaused /\ [Next]_vars
        => [\A c \in clients, t \in GTid :
              gset'[c][t] = "pending" /\ c \in clients' /\ Waits(c, t) /\ ~Waits(c, t)'
                => grammars[GRequest[t].name].client \in clients \ clients']_vars
  BY <1>1
<1>3. PauseInv => ClientsTypeOK /\ PauseTypeOK
  BY DEF PauseInv
<1> QED
  BY <1>2, <1>3, GrammarsInvariant, PauseInvariant, NoGrammarWaitsWhilePausedHolds, PTL
  DEF Spec, OnlyOwnersLeaveForgets

----------------------------------------------------------------------------
(* What the callbacks may count on. *)

(* A grammar that is owned is known to Dragon, whatever Dragon refuses; if *)
(* it unloads and registers what it is told to, it knows no others.        *)
OwnedIsKnown ==
  /\ [n \in Name |-> grammars[n].client] \in [Name -> ClientId \cup {Nothing}]
  /\ {n \in Name : grammars[n].client # Nothing} \subseteq known
  /\ {"unload", "register"} \cap GrammarFaults = {} =>
       known = {n \in Name : grammars[n].client # Nothing}

LEMMA OwnedKnown == GrammarsInv => OwnedIsKnown
<1> SUFFICES ASSUME GrammarsInv PROVE OwnedIsKnown
  OBVIOUS
<1>1. [n \in Name |-> grammars[n].client] \in [Name -> ClientId \cup {Nothing}]
  BY DEF GrammarsInv, GrammarsTypeOK, Grammar
<1>2. ASSUME NEW n \in Name, grammars[n].client # Nothing
      PROVE  dragon_grammars[n] # NotLoaded
  <2>1. Kept(grammars[n], n)
    BY <1>2, Empty DEF GrammarsInv, ObjectsKept
  <2>2. grammars[n].blob # Nothing
    BY <2>1, Requests, GrammarsAssumption DEF Kept, Asks, Serves
  <2> QED
    BY <2>2, AtFields, Empty DEF GrammarsInv, ObjectsBacked, Backed
<1>3. ASSUME {"unload", "register"} \cap GrammarFaults = {}, NEW n \in known
      PROVE  n \in Name /\ grammars[n].client # Nothing
  <2>1. n \in Name /\ Clean(At(n))
    BY <1>3 DEF known, GrammarsInv, NamesClean
  <2>2. grammars[n].enabled
    BY <1>3, <2>1, AtFields DEF known, Clean, GrammarsInv
  <2>3. Kept(grammars[n], n)
    BY <2>1, <2>2, Empty DEF GrammarsInv, ObjectsKept
  <2> QED
    BY <2>1, <2>3, GrammarsAssumption DEF Kept
<1> QED
  BY <1>1, <1>2, <1>3 DEF OwnedIsKnown, known

(* Draconity keeps to the contract of the table, whatever pause_token      *)
(* starts as: a step while Dragon runs and no leftover says otherwise      *)
(* leaves the table alone, any other may be any change that leaves what is *)
(* owned known.                                                            *)
THEOREM ImplementsTableHolds == Spec => ImplementsTable
<1> DEFINE open == dragon_token # 0 \/ Leftover
<1>1. Init => GrammarContract!Init
  BY Empty DEF Init, GrammarsInit, GrammarContract!Init, known
<1>2. ASSUME PauseInv, OwnedIsKnown', [Next]_vars
      PROVE  [GrammarContract!Next]_(GrammarContract!vars)
  <2>1. CASE ~open
    <3>1. UNCHANGED <<grammars, dragon_grammars, stray_grammars>>
      BY <1>2, <2>1, RunningUntouched
    <3>2. UNCHANGED <<[n \in Name |-> grammars[n].client], known>>
      BY <3>1 DEF known
    <3>3. CASE ~open'
      BY <2>1, <3>2, <3>3 DEF GrammarContract!vars
    <3>4. CASE open'
      BY <2>1, <3>2, <3>4 DEF GrammarContract!Next, GrammarContract!Open
    <3> QED
      BY <3>3, <3>4
  <2>2. CASE open
    <3> DEFINE owner == [n \in Name |-> grammars[n].client]
               owned == {n \in Name : grammars[n].client # Nothing}
    <3>1. owned' = GrammarContract!Owned(owner')
      BY DEF GrammarContract!Owned
    <3>2. /\ owner' \in [Name -> ClientId \cup {Nothing}]
          /\ owned' \subseteq known'
          /\ {"unload", "register"} \cap GrammarFaults = {} => known' = owned'
      BY <1>2 DEF OwnedIsKnown
    <3>3. known' \subseteq Name /\ open' \in BOOLEAN
      BY DEF known
    <3>4. GrammarContract!Change
      BY <2>2, <3>1, <3>2, <3>3 DEF GrammarContract!Change
    <3> QED
      BY <3>4 DEF GrammarContract!Next
  <2> QED
    BY <2>1, <2>2
<1> QED
  BY <1>1, <1>2, OwnedKnown, PauseInvariant, GrammarsInvariant, PTL
  DEF Spec, ImplementsTable, GrammarContract!Spec
=============================================================================
