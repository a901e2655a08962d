----------------------------- MODULE HooksProofs -----------------------------
(***************************************************************************)
(* The hooks for any library, page size and jump: whatever the system      *)
(* refuses, Dragon finds every page executable and every original stored   *)
(* but for the hook at work and those refused something, no hook harms a   *)
(* function, and with nothing refused the Mac's page computation is the    *)
(* one way to crash.                                                       *)
(***************************************************************************)
EXTENDS Hooks, TLAPS

PageOf == {Page(a) : a \in Address}

TypeInv ==
  /\ platform \in {"mac", "windows"}
  /\ base \in 0 .. PageSize - 1
  /\ exported \subseteq Hooked
  /\ DOMAIN text = Address
  /\ DOMAIN trampoline = Hooked
  /\ original \in [Hooked -> BOOLEAN]
  /\ active \subseteq Hooked
  /\ refused \subseteq Hooked
  /\ hook \in {NoHook} \cup
       [of : Hooked, at : {"decode", "unprotect", "patch", "protect", "store"}, size : Nat]
  /\ hook.at # "none" => hook.of \notin active

(* No hook at work has asked for a page. *)
Outside(p) == \A f \in AtWork : p \notin Pages(Start(f), JmpSize)

(* The pages a hook asks for are as they were asked to be, unless the      *)
(* system refused, and the others are executable.                          *)
Protected ==
  /\ DOMAIN protection = PageOf
  /\ \A p \in PageOf : Outside(p) => protection[p] = "RX"
  /\ hook.at = "patch" /\ hook.of \notin refused =>
       \A p \in PageOf : p \in Pages(Start(hook.of), JmpSize) => protection[p] = "RW"
  /\ hook.at = "store" /\ hook.of \notin refused =>
       \A p \in PageOf : p \in Pages(Start(hook.of), JmpSize) => protection[p] = "RX"

(* A trampoline that was filled runs, unless the system refused. *)
Running ==
  /\ \A f \in active \ refused : trampoline[f].runs
  /\ hook.at \notin {"none", "decode"} /\ hook.of \notin refused => trampoline[hook.of].runs

(* The functions whose jump is in place. *)
Jumping == active \cup (IF hook.at \in {"protect", "store"} THEN {hook.of} ELSE {})

(* Nothing is written but the jumps. *)
OnlyJumps ==
  \A a \in Address :
    text[a] = Code(a) \/ \E g \in Jumping : a \in Patched(g) /\ text[a] = Jump(g, a - Start(g))

(* A hook is active when its original is stored. *)
Stored == \A f \in Hooked : original[f] <=> f \in active

(* Where a crash happens. *)
Crashed ==
  phase = "crashed" /\ hook.of \notin refused =>
    /\ platform = "mac"
    /\ Page(Start(hook.of)) # Page(Start(hook.of) + JmpSize - 1)

(* The first bytes of a function, as many as whole instructions have. *)
Whole(f, size) ==
  /\ size \in 0 .. Size[f]
  /\ size = Size[f] \/ Entry[f] + size \in DOMAIN Length

(* The functions that are hooked or being hooked have room for the jump. *)
Roomy ==
  /\ \A f \in active : Size[f] >= JmpSize
  /\ hook.at # "none" => Size[hook.of] >= JmpSize

(* The trampoline of f holds what f begins with, and goes on behind it. *)
Kept(f) ==
  /\ trampoline[f].back \in Nat
  /\ Whole(f, trampoline[f].back - Start(f))
  /\ trampoline[f].back >= Start(f) + JmpSize
  /\ DOMAIN trampoline[f].bytes = Start(f) .. trampoline[f].back - 1
  /\ \A a \in Start(f) .. trampoline[f].back - 1 : trampoline[f].bytes[a] = Code(a)

KeptOK ==
  Roomy =>
    /\ hook.at = "decode" => Whole(hook.of, hook.size)
    /\ \A f \in active : Kept(f)
    /\ hook.at \notin {"none", "decode"} => Kept(hook.of)

HooksInv ==
  /\ TypeInv
  /\ Protected
  /\ Running
  /\ OnlyJumps
  /\ Stored
  /\ Crashed
  /\ KeptOK

----------------------------------------------------------------------------
(* Pages. *)

(* A number is that many whole pages and the bytes in the last one. *)
LEMMA PageDef ==
  ASSUME NEW a \in Nat
  PROVE  /\ Page(a) \in Nat
         /\ PageSize * Page(a) <= a
         /\ a < PageSize * (Page(a) + 1)
<1>1. PageSize \in Nat /\ PageSize > 0
  BY HooksAssumption
<1>2. a \div PageSize \in Nat
  BY <1>1
<1>3. PageSize * (a \div PageSize) <= a
  BY <1>1
<1>4. a < PageSize * ((a \div PageSize) + 1)
  BY <1>1
<1> QED
  BY <1>2, <1>3, <1>4 DEF Page

(* A higher address is on no lower page. *)
LEMMA PageMonotone ==
  ASSUME NEW a \in Nat, NEW b \in Nat, a <= b
  PROVE  Page(a) <= Page(b)
<1> DEFINE p == Page(a)
           q == Page(b)
<1>1. p \in Nat /\ q \in Nat /\ PageSize * p <= a /\ b < PageSize * (q + 1)
  BY PageDef
<1>2. PageSize \in Nat /\ PageSize > 0
  BY HooksAssumption
<1> HIDE DEF p, q
<1>3. ASSUME q + 1 <= p PROVE FALSE
  <2>1. PageSize * (q + 1) <= PageSize * p
    BY <1>1, <1>2, <1>3
  <2>2. PageSize * (q + 1) \in Nat /\ PageSize * p \in Nat
    BY <1>1, <1>2
  <2> QED
    BY <1>1, <2>1, <2>2
<1>4. p <= q
  BY <1>1, <1>3
<1> QED
  BY <1>4 DEF p, q

(* The jump is no longer than a page, so the Mac changes one page. *)
LEMMA MacPages == (JmpSize + PageSize - 1) \div PageSize = 1
<1>1. JmpSize + PageSize - 1 \in Nat
  BY HooksAssumption
<1> DEFINE q == Page(JmpSize + PageSize - 1)
<1>2. q \in Nat /\ PageSize * q <= JmpSize + PageSize - 1 /\ JmpSize + PageSize - 1 < PageSize * (q + 1)
  BY <1>1, PageDef
<1>3. PageSize \in Nat /\ JmpSize \in Nat /\ 2 < JmpSize /\ JmpSize <= PageSize
  BY HooksAssumption
<1> HIDE DEF q
<1>4. ASSUME q = 0 PROVE FALSE
  BY <1>2, <1>3, <1>4
<1>5. ASSUME q >= 2 PROVE FALSE
  <2>1. PageSize * 2 <= PageSize * q
    BY <1>2, <1>3, <1>5
  <2> QED
    BY <1>2, <1>3, <2>1
<1>6. q = 1
  BY <1>2, <1>4, <1>5
<1> QED
  BY <1>6 DEF q, Page

----------------------------------------------------------------------------
(* The library. *)

(* Where a function and its jump lie. *)
LEMMA Place ==
  ASSUME TypeInv, NEW f \in Function
  PROVE  /\ Start(f) \in Nat /\ Size[f] \in Nat \ {0} /\ base \in Nat /\ Entry[f] \in Nat
         /\ Start(f) - base = Entry[f] /\ Entry[f] \in DOMAIN Length
         /\ Start(f) \in Address
         /\ Patched(f) \subseteq Address
         /\ Start(f) .. Start(f) + Size[f] - 1 \subseteq Address
<1>1. base \in Nat /\ base < PageSize /\ PageSize \in Nat
  BY HooksAssumption DEF TypeInv
<1>2. /\ Entry[f] \in Nat /\ Entry[f] \in DOMAIN Length /\ Size[f] \in Nat \ {0}
      /\ Entry[f] + Size[f] <= Bytes
  BY HooksAssumption
<1>3. JmpSize \in Nat /\ Bytes \in Nat /\ MaxLength \in Nat
  BY HooksAssumption
<1> QED
  BY <1>1, <1>2, <1>3 DEF Start, Patched, Address

(* The jump of a function with room for it touches no other function. *)
LEMMA Apart ==
  ASSUME TypeInv, NEW f \in Function, NEW g \in Function, f # g, Size[g] >= JmpSize,
         NEW a \in Start(f) .. Start(f) + Size[f] - 1
  PROVE  a \notin Patched(g)
<1>1. Entry[f] + Size[f] <= Entry[g] \/ Entry[g] + Size[g] <= Entry[f]
  BY HooksAssumption
<1>2. /\ Entry[f] \in Nat /\ Entry[g] \in Nat /\ Size[f] \in Nat /\ Size[g] \in Nat
      /\ base \in Nat
  BY Place
<1>3. JmpSize \in Nat
  BY HooksAssumption
<1> QED
  BY <1>1, <1>2, <1>3 DEF Start, Patched

(* A function whose jump is not in place is as it was, whatever else is    *)
(* hooked, and behind the jump so is one that is.                          *)
LEMMA Untouched ==
  ASSUME TypeInv, OnlyJumps, Roomy, NEW f \in Function,
         NEW a \in Start(f) .. Start(f) + Size[f] - 1,
         f \notin Jumping \/ a \notin Patched(f)
  PROVE  text[a] = Code(a)
<1>1. a \in Address
  BY Place
<1>2. ASSUME NEW g \in Jumping, a \in Patched(g) PROVE FALSE
  <2>1. g \in Function /\ Size[g] >= JmpSize
    BY HooksAssumption DEF Jumping, TypeInv, Roomy, NoHook
  <2>2. f # g
    BY <1>2
  <2> QED
    BY <1>2, <2>1, <2>2, Apart
<1> QED
  BY <1>1, <1>2 DEF OnlyJumps

----------------------------------------------------------------------------
(* The steps. *)

(* draconity_install starts with all as the library has it. *)
LEMMA HooksInit == Init => HooksInv
<1> SUFFICES ASSUME Init PROVE HooksInv
  OBVIOUS
<1> USE HooksAssumption DEF Init, NoHook
<1>1. TypeInv
  BY DEF TypeInv
<1>2. Protected
  BY DEF Protected, PageOf
<1>3. OnlyJumps
  BY DEF OnlyJumps
<1>4. Stored /\ Running /\ Crashed /\ KeptOK
  BY DEF Stored, Running, Crashed, KeptOK
<1> QED
  BY <1>1, <1>2, <1>3, <1>4 DEF HooksInv

(* Types, and that no function is hooked twice. *)
LEMMA TypeStep == TypeInv /\ [Next]_vars => TypeInv'
<1> SUFFICES ASSUME TypeInv, [Next]_vars PROVE TypeInv'
  OBVIOUS
<1> USE DEF TypeInv, NoHook, image_vars
<1>1. CASE LoadSymbols \/ Finish \/ UNCHANGED vars
  BY <1>1 DEF LoadSymbols, Finish, vars
<1>2. ASSUME NEW f \in Hooked, BeginHook(f) PROVE TypeInv'
  BY <1>2 DEF BeginHook
<1>3. CASE Decode
  <2>1. PICK length \in Decoded(Start(hook.of) + hook.size) \ {0} :
          hook' = [hook EXCEPT !.size = @ + length]
    BY <1>3 DEF Decode
  <2>2. length \in Nat
    BY <2>1, HooksAssumption DEF Decoded
  <2>3. hook.at = "decode" /\ UNCHANGED <<platform, base, exported, text, trampoline, original, active, refused>>
    BY <1>3 DEF Decode
  <2> QED
    BY <2>1, <2>2, <2>3
<1>4. CASE Keep \/ NoMemory
  <2>1. /\ DOMAIN trampoline' = DOMAIN trampoline
        /\ \E granted \in BOOLEAN : Granted(granted)
        /\ hook' = hook \/ hook' = [hook EXCEPT !.at = "unprotect"]
        /\ hook.at = "decode"
        /\ UNCHANGED <<platform, base, exported, text, original, active>>
    BY <1>4 DEF Keep, NoMemory
  <2> QED
    BY <2>1 DEF Granted
<1>5. CASE Unprotect \/ Reprotect
  BY <1>5 DEF Unprotect, Reprotect, Protect, Granted
<1>6. CASE Patch
  BY <1>6 DEF Patch
<1>7. CASE Store
  BY <1>7 DEF Store
<1> QED
  BY <1>1, <1>2, <1>3, <1>4, <1>5, <1>6, <1>7 DEF Next

(* Where a hook's pages are does not change. *)
LEMMA SamePages ==
  ASSUME UNCHANGED image_vars, NEW f
  PROVE  Pages(Start(f), JmpSize)' = Pages(Start(f), JmpSize)
  BY DEF image_vars, Pages, Page, Start

(* protectRW and protectRX take turns. *)
LEMMA ProtectedStep == TypeInv /\ Protected /\ [Next]_vars => Protected'
<1> SUFFICES ASSUME TypeInv, Protected, [Next]_vars PROVE Protected'
  OBVIOUS
<1>0. UNCHANGED image_vars
  BY DEF Next, vars, LoadSymbols, Finish, BeginHook, Decode, Keep, NoMemory, Unprotect, Patch,
         Reprotect, Store
<1> DEFINE P(f) == Pages(Start(f), JmpSize)
<1>p. \A f : P(f)' = P(f)
  BY <1>0, SamePages
<1>u. ASSUME UNCHANGED protection, AtWork \subseteq AtWork',
             hook'.at = "patch" => hook.at = "patch" /\ hook' = hook,
             hook'.at = "store" => hook.at = "store" /\ hook' = hook,
             refused \subseteq refused'
      PROVE  Protected'
  <2>1. \A p : Outside(p)' => Outside(p)
    BY <1>p, <1>u DEF Outside
  <2> HIDE DEF P
  <2>2. \A f : Pages(Start(f), JmpSize)' = Pages(Start(f), JmpSize)
    BY <1>p DEF P
  <2> QED
    BY <1>u, <2>1, <2>2 DEF Protected, PageOf
<1> HIDE DEF P
<1>1. CASE LoadSymbols \/ Finish \/ UNCHANGED vars
  BY <1>1, <1>u DEF LoadSymbols, Finish, vars, AtWork
<1>2. ASSUME NEW f \in Hooked, BeginHook(f) PROVE Protected'
  BY <1>2, <1>u DEF BeginHook, AtWork
<1>3. CASE Decode \/ Keep \/ NoMemory \/ Patch
  <2>1. CASE Decode
    BY <1>u, <2>1 DEF Decode, AtWork, TypeInv, NoHook
  <2>2. CASE Keep
    BY <1>u, <2>2 DEF Keep, Granted, AtWork, TypeInv, NoHook
  <2>3. CASE NoMemory
    BY <1>u, <2>3 DEF NoMemory, Granted, AtWork
  <2>4. CASE Patch
    BY <1>u, <2>4 DEF Patch, AtWork, TypeInv, NoHook
  <2> QED
    BY <1>3, <2>1, <2>2, <2>3, <2>4
<1>4. CASE Unprotect \/ Reprotect
  <2>1. PICK as \in {"RW", "RX"}, granted \in BOOLEAN :
          /\ protection' = [p \in DOMAIN protection |->
                              IF granted /\ p \in P(hook.of) THEN as ELSE protection[p]]
          /\ Granted(granted)
          /\ hook'.at = IF as = "RW" THEN "patch" ELSE "store"
    BY <1>4 DEF Unprotect, Reprotect, Protect, TypeInv, NoHook, P
  <2>2. /\ hook.of \in Hooked /\ hook'.of = hook.of
        /\ hook'.at \in {"patch", "store"}
        /\ hook.at \in {"unprotect", "protect"}
    BY <1>4 DEF Unprotect, Reprotect, TypeInv, NoHook
  <2>3. AtWork \subseteq AtWork' /\ hook.of \in AtWork'
    BY <2>1, <2>2 DEF AtWork, Granted
  <2>4. DOMAIN protection' = PageOf'
    BY <2>1 DEF Protected, PageOf, Page, Address
  <2>5. ASSUME NEW p \in PageOf, Outside(p)' PROVE protection'[p] = "RX"
    <3>1. Outside(p) /\ p \notin P(hook.of)
      BY <1>p, <2>3, <2>5 DEF Outside, P
    <3> QED
      BY <2>1, <3>1 DEF Protected
  <2>6. ASSUME hook'.of \notin refused', NEW p \in PageOf, p \in P(hook.of)
        PROVE  protection'[p] = as
    <3>1. granted
      BY <2>1, <2>2, <2>6 DEF Granted
    <3> QED
      BY <2>1, <2>6, <3>1 DEF Protected
  <2>7. PageOf' = PageOf
    BY DEF PageOf, Page, Address
  <2>8. P(hook.of)' = P(hook.of)
    <3>1. PICK f : f = hook.of /\ f = hook'.of
      BY <2>2
    <3>2. Pages(Start(f), JmpSize)' = Pages(Start(f), JmpSize)
      BY <1>0, SamePages
    <3> QED
      BY <3>1, <3>2 DEF P, Pages, Start
  <2> QED
    BY <2>1, <2>2, <2>4, <2>5, <2>6, <2>7, <2>8 DEF Protected, P
<1>5. CASE Store
  <2>1. /\ hook.at = "store" /\ hook'.at = "none" /\ UNCHANGED <<protection, refused>>
    BY <1>5 DEF Store, NoHook
  <2>2. ASSUME NEW p \in PageOf, Outside(p)' PROVE protection'[p] = "RX"
    <3>1. CASE Outside(p)
      BY <2>1, <3>1 DEF Protected
    <3>2. CASE ~Outside(p)
      <4>1. PICK f \in AtWork : p \in P(f)
        BY <3>2 DEF Outside, P
      <4>2. f \notin AtWork'
        BY <1>p, <2>2, <4>1 DEF Outside, P
      <4>3. f = hook.of /\ f \notin refused
        BY <2>1, <4>1, <4>2 DEF AtWork
      <4> QED
        BY <2>1, <4>1, <4>3 DEF Protected, P
    <3> QED
      BY <3>1, <3>2
  <2>3. PageOf' = PageOf
    BY DEF PageOf, Page, Address
  <2> QED
    BY <2>1, <2>2, <2>3 DEF Protected
<1> QED
  BY <1>1, <1>2, <1>3, <1>4, <1>5 DEF Next

(* A trampoline is filled once. *)
LEMMA RunningStep == TypeInv /\ Running /\ [Next]_vars => Running'
<1> SUFFICES ASSUME TypeInv, Running, [Next]_vars PROVE Running'
  OBVIOUS
<1> USE DEF TypeInv, Running
<1>1. CASE LoadSymbols \/ Finish \/ UNCHANGED vars
  BY <1>1 DEF LoadSymbols, Finish, vars
<1>2. ASSUME NEW f \in Hooked, BeginHook(f) PROVE Running'
  BY <1>2 DEF BeginHook
<1>3. CASE Decode
  BY <1>3 DEF Decode, NoHook
<1>4. CASE Keep
  <2>1. PICK runs \in BOOLEAN :
          /\ trampoline' = [trampoline EXCEPT ![hook.of] = [Copy(hook.of, hook.size) EXCEPT !.runs = runs]]
          /\ refused' = IF runs THEN refused ELSE refused \cup {hook.of}
    BY <1>4 DEF Keep, Granted
  <2>2. /\ hook.of \in Hooked \ active /\ hook'.of = hook.of /\ active' = active
    BY <1>4 DEF Keep, NoHook
  <2>3. trampoline'[hook.of].runs = runs
    BY <2>1, <2>2 DEF Copy
  <2>4. \A f \in active : trampoline'[f] = trampoline[f]
    BY <2>1, <2>2
  <2> QED
    BY <2>1, <2>2, <2>3, <2>4
<1>5. CASE NoMemory
  BY <1>5 DEF NoMemory, Granted
<1>6. CASE Unprotect \/ Reprotect
  <2>1. /\ hook.at \notin {"none", "decode"} /\ hook'.of = hook.of
        /\ refused \subseteq refused' /\ UNCHANGED <<trampoline, active>>
    BY <1>6 DEF Unprotect, Reprotect, Protect, Granted, NoHook
  <2> QED
    BY <2>1
<1>7. CASE Patch
  BY <1>7 DEF Patch, NoHook
<1>8. CASE Store
  BY <1>8 DEF Store, NoHook
<1> QED
  BY <1>1, <1>2, <1>3, <1>4, <1>5, <1>6, <1>7, <1>8 DEF Next

(* With nothing refused, a write outside the pages made writable can only  *)
(* happen on the Mac.                                                      *)
LEMMA Fault ==
  ASSUME TypeInv, Protected, hook.at = "patch", hook.of \notin refused,
         NEW a \in Patched(hook.of), protection[Page(a)] # "RW"
  PROVE  platform = "mac" /\ Page(Start(hook.of)) # Page(Start(hook.of) + JmpSize - 1)
<1> DEFINE s == Start(hook.of)
<1>1. hook.of \in Function
  BY HooksAssumption DEF TypeInv, NoHook
<1>2. s \in Nat /\ a \in Address /\ JmpSize \in Nat /\ JmpSize > 2
  BY <1>1, Place, HooksAssumption
<1>3. a \in Nat /\ s <= a /\ a <= s + JmpSize - 1 /\ s + JmpSize - 1 \in Nat
  BY <1>2 DEF Patched
<1>4. Page(a) \notin Pages(s, JmpSize)
  BY <1>2 DEF Protected, PageOf
<1>5. /\ Page(s) \in Nat /\ Page(a) \in Nat /\ Page(s + JmpSize - 1) \in Nat
      /\ Page(s) <= Page(a) /\ Page(a) <= Page(s + JmpSize - 1)
  BY <1>2, <1>3, PageDef, PageMonotone
<1> HIDE DEF s
<1>6. platform = "mac"
  BY <1>4, <1>5 DEF Pages, TypeInv
<1>7. Page(a) # Page(s)
  BY <1>4, <1>5, <1>6, MacPages DEF Pages
<1> QED
  BY <1>5, <1>6, <1>7 DEF s

(* So a crash without a refusal happens only there, and nothing happens    *)
(* after it.                                                               *)
LEMMA CrashedStep == TypeInv /\ Protected /\ Crashed /\ [Next]_vars => Crashed'
<1> SUFFICES ASSUME TypeInv, Protected, Crashed, [Next]_vars PROVE Crashed'
  OBVIOUS
<1> USE DEF Crashed, image_vars
<1>1. CASE LoadSymbols \/ UNCHANGED vars
  BY <1>1 DEF LoadSymbols, vars, Page, Start
<1>2. CASE Finish
  BY <1>2 DEF Finish
<1>3. ASSUME NEW f \in Hooked, BeginHook(f) PROVE Crashed'
  BY <1>3 DEF BeginHook
<1>4. CASE phase # "crashed" /\ (Decode \/ Keep \/ NoMemory \/ Unprotect \/ Reprotect \/ Store)
  BY <1>4 DEF Decode, Keep, NoMemory, Granted, Unprotect, Reprotect, Store
<1>5. CASE phase # "crashed" /\ Patch
  <2>1. CASE phase' # "crashed"
    BY <2>1
  <2>2. CASE phase' = "crashed" /\ hook'.of \notin refused'
    <3>1. \E a \in Patched(hook.of) : protection[Page(a)] # "RW"
      BY <1>5, <2>2 DEF Patch
    <3>2. /\ hook.at = "patch" /\ hook' = hook /\ platform' = platform /\ base' = base
          /\ hook.of \notin refused
      BY <1>5, <2>2, <3>1 DEF Patch
    <3>3. platform = "mac" /\ Page(Start(hook.of)) # Page(Start(hook.of) + JmpSize - 1)
      BY <3>1, <3>2, Fault
    <3> QED
      BY <3>2, <3>3 DEF Page, Start
  <2> QED
    BY <2>1, <2>2
<1> QED
  BY <1>1, <1>2, <1>3, <1>4, <1>5 DEF Next

(* Only the copying of a jump writes the library, and only where it goes. *)
LEMMA OnlyJumpsStep == TypeInv /\ OnlyJumps /\ [Next]_vars => OnlyJumps'
<1> SUFFICES ASSUME TypeInv, OnlyJumps, [Next]_vars PROVE OnlyJumps'
  OBVIOUS
<1> USE DEF OnlyJumps, image_vars
<1>1. CASE LoadSymbols \/ Finish \/ UNCHANGED vars
  BY <1>1 DEF LoadSymbols, Finish, vars, Jumping, Patched, Start
<1>2. ASSUME NEW f \in Hooked, BeginHook(f) PROVE OnlyJumps'
  BY <1>2 DEF BeginHook, Jumping, Patched, Start
<1>3. CASE Decode \/ Keep \/ NoMemory \/ Unprotect
  <2>1. Jumping' = Jumping /\ text' = text /\ base' = base
    BY <1>3 DEF Decode, Keep, NoMemory, Unprotect, Jumping, TypeInv, NoHook
  <2> QED
    BY <2>1 DEF Patched, Start
<1>4. CASE Patch
  <2>1. base' = base /\ active' = active
    BY <1>4 DEF Patch
  <2>2. CASE UNCHANGED <<text, hook>>
    BY <2>1, <2>2 DEF Jumping, Patched, Start
  <2>3. CASE ~UNCHANGED <<text, hook>>
    <3>1. /\ hook.at = "patch" /\ hook' = [hook EXCEPT !.at = "protect"]
          /\ text' = [a \in Address |->
                       IF a \in Patched(hook.of) THEN Jump(hook.of, a - Start(hook.of))
                       ELSE text[a]]
      BY <1>4, <2>3 DEF Patch
    <3>2. Jumping' = Jumping \cup {hook.of}
      BY <2>1, <3>1 DEF Jumping, TypeInv, NoHook
    <3> QED
      BY <2>1, <3>1, <3>2 DEF Patched, Start
  <2> QED
    BY <2>2, <2>3
<1>5. CASE Reprotect \/ Store
  <2>1. Jumping' = Jumping /\ text' = text /\ base' = base
    BY <1>5 DEF Reprotect, Store, Jumping, TypeInv, NoHook
  <2> QED
    BY <2>1 DEF Patched, Start
<1> QED
  BY <1>1, <1>2, <1>3, <1>4, <1>5 DEF Next

(* A hook becomes active in the step that stores its original. *)
LEMMA StoredStep == TypeInv /\ Stored /\ [Next]_vars => Stored'
  BY DEF TypeInv, Stored, Next, vars, image_vars, NoHook, LoadSymbols, Finish, BeginHook,
         Decode, Keep, NoMemory, Unprotect, Patch, Reprotect, Store

(* What is decoded at the beginning of a function nobody has touched are   *)
(* its instructions, as long as they have fewer bytes than the jump.       *)
LEMMA DecodedWhole ==
  ASSUME TypeInv, OnlyJumps, Roomy, hook.at = "decode", Whole(hook.of, hook.size),
         hook.size < JmpSize
  PROVE  /\ Decoded(Start(hook.of) + hook.size) = {Length[Entry[hook.of] + hook.size]}
         /\ Length[Entry[hook.of] + hook.size] \in Nat \ {0}
         /\ Whole(hook.of, hook.size + Length[Entry[hook.of] + hook.size])
<1> DEFINE f == hook.of
           size == hook.size
           i == Entry[f] + size
<1>1. f \in Hooked /\ f \in Function /\ f \notin Jumping
  BY HooksAssumption DEF TypeInv, NoHook, Jumping
<1>2. /\ Size[f] >= JmpSize /\ size \in Nat /\ size < JmpSize /\ JmpSize \in Nat
      /\ Size[f] \in Nat
  BY <1>1, HooksAssumption DEF Roomy, Whole
<1>3. i \in DOMAIN Length
  BY <1>1, <1>2 DEF Whole
<1>4. /\ Start(f) \in Nat /\ base \in Nat /\ Entry[f] \in Nat /\ Start(f) - base = Entry[f]
  BY <1>1, Place
<1>5. Start(f) + size \in Start(f) .. Start(f) + Size[f] - 1
  BY <1>2, <1>4
<1>6. text[Start(f) + size] = Code(Start(f) + size)
  BY <1>1, <1>5, Untouched
<1>7. Start(f) + size - base = i
  BY <1>2, <1>4
<1>8. Length[i] \in Nat \ {0}
  BY <1>3, HooksAssumption
<1>9. \/ i + Length[i] = Entry[f] + Size[f]
      \/ i + Length[i] < Entry[f] + Size[f] /\ i + Length[i] \in DOMAIN Length
  BY <1>1, <1>2, <1>3, <1>4, HooksAssumption
<1>10. size + Length[i] \in 0 .. Size[f]
  BY <1>2, <1>4, <1>8, <1>9
<1>11. size + Length[i] = Size[f] \/ Entry[f] + (size + Length[i]) \in DOMAIN Length
  <2>1. Entry[f] + (size + Length[i]) = i + Length[i]
    BY <1>2, <1>4, <1>8
  <2> QED
    BY <1>2, <1>4, <1>8, <1>9, <2>1
<1>12. Decoded(Start(f) + size) = {Length[i]}
  <2> DEFINE addr == Start(f) + size
  <2>0. base \in Nat /\ Start(f) \in Nat /\ size \in Nat /\ Entry[f] \in Nat
    BY <1>2, <1>4
  <2>1. text[addr] = Code(addr)
    BY <1>6 DEF addr
  <2>2. addr - base = i
    BY <1>4, <2>0
  <2> HIDE DEF addr, i
  <2>3. Decoded(addr) = {Length[i]}
    BY <1>3, <2>1, <2>2 DEF Decoded
  <2> QED
    BY <2>3 DEF addr
<1> QED
  BY <1>8, <1>10, <1>11, <1>12 DEF Whole

(* What is copied, whether it can be executed or not. *)
LEMMA Copied ==
  ASSUME NEW f, NEW size, NEW runs
  PROVE  LET kept == [Copy(f, size) EXCEPT !.runs = runs]
         IN  /\ kept.back = Start(f) + size
             /\ kept.bytes = [a \in Start(f) .. Start(f) + size - 1 |-> text[a]]
<1>1. /\ Copy(f, size).back = Start(f) + size
      /\ Copy(f, size).bytes = [a \in Start(f) .. Start(f) + size - 1 |-> text[a]]
  BY Zenon DEF Copy
<1>2. DOMAIN Copy(f, size) = {"bytes", "back", "runs"}
  BY DEF Copy
<1> DEFINE copy == Copy(f, size)
<1> HIDE DEF copy
<1>3. [copy EXCEPT !.runs = runs].back = copy.back /\ [copy EXCEPT !.runs = runs].bytes = copy.bytes
  BY <1>2 DEF copy
<1> QED
  BY <1>1, <1>3, Zenon DEF copy

(* So whole instructions, and at least as many bytes as the jump has, go   *)
(* to the trampoline, and stay there.                                      *)
LEMMA KeptStep == TypeInv /\ OnlyJumps /\ KeptOK /\ [Next]_vars => KeptOK'
<1> SUFFICES ASSUME TypeInv, OnlyJumps, KeptOK, [Next]_vars, Roomy' PROVE KeptOK'
  BY DEF KeptOK
<1>1. CASE LoadSymbols \/ Finish \/ UNCHANGED vars
  BY <1>1 DEF LoadSymbols, Finish, vars, image_vars, KeptOK, Kept, Whole, Roomy, Start
<1>2. ASSUME NEW f \in Hooked, BeginHook(f) PROVE KeptOK'
  <2>1. /\ hook.at = "none" /\ hook' = [of |-> f, at |-> "decode", size |-> 0]
        /\ UNCHANGED <<base, trampoline, active>>
    BY <1>2 DEF BeginHook, image_vars
  <2>2. Whole(f, 0)
    BY HooksAssumption DEF Whole
  <2>3. Roomy
    BY <2>1 DEF Roomy
  <2> QED
    BY <2>1, <2>2, <2>3 DEF KeptOK, Kept, Whole, Start
<1>3. CASE Decode
  <2>1. PICK length \in Decoded(Start(hook.of) + hook.size) \ {0} :
          hook' = [hook EXCEPT !.size = @ + length]
    BY <1>3 DEF Decode
  <2>2. /\ hook.at = "decode" /\ hook.size < JmpSize /\ hook.of \in Hooked
        /\ hook \in [of : Hooked, at : {"decode"}, size : Nat]
        /\ UNCHANGED <<base, trampoline, active>>
    BY <1>3 DEF Decode, image_vars, TypeInv, NoHook
  <2>3. hook'.at = "decode" /\ hook'.of = hook.of /\ hook'.size = hook.size + length
    BY <2>1, <2>2
  <2>4. Roomy
    BY <2>2, <2>3 DEF Roomy
  <2>5. Whole(hook.of, hook.size + length)
    BY <2>1, <2>2, <2>4, DecodedWhole DEF KeptOK
  <2> QED
    BY <2>2, <2>3, <2>4, <2>5 DEF KeptOK, Kept, Whole, Start
<1>4. CASE Keep
  <2>1. PICK f \in Hooked, n \in Nat : f = hook.of /\ n = hook.size
    BY <1>4 DEF Keep, TypeInv, NoHook
  <2>k. PICK runs \in BOOLEAN :
          trampoline' = [trampoline EXCEPT ![f] = [Copy(f, n) EXCEPT !.runs = runs]]
    BY <1>4, <2>1 DEF Keep
  <2> DEFINE kept == [Copy(f, n) EXCEPT !.runs = runs]
  <2>2. /\ hook.at = "decode" /\ hook'.at = "unprotect" /\ hook'.of = f
        /\ trampoline' = [trampoline EXCEPT ![f] = kept]
        /\ UNCHANGED <<base, active>>
    BY <1>4, <2>1, <2>k DEF Keep, image_vars, TypeInv, NoHook
  <2>q. kept = [Copy(f, n) EXCEPT !.runs = runs]
    OBVIOUS
  <2> HIDE DEF kept
  <2>c. /\ kept.back = Start(f) + n
        /\ DOMAIN kept.bytes = Start(f) .. Start(f) + n - 1
        /\ \A a \in Start(f) .. Start(f) + n - 1 : kept.bytes[a] = text[a]
    <3>1. kept.back = Start(f) + n /\ kept.bytes = [a \in Start(f) .. Start(f) + n - 1 |-> text[a]]
      BY ONLY <2>q, Copied, Zenon
    <3> QED
      BY ONLY <3>1, Zenon
  <2>3. f \in Function /\ f \notin Jumping /\ f \notin active /\ JmpSize \in Nat
    BY <2>1, <2>2, HooksAssumption DEF TypeInv, Jumping
  <2>4. Roomy
    BY <2>1, <2>2 DEF Roomy
  <2>5. Whole(f, n)
    BY <2>1, <2>2, <2>4 DEF KeptOK
  <2>6. n >= JmpSize
    <3> SUFFICES ASSUME n < JmpSize PROVE FALSE
      BY <2>2, <2>3
    <3>1. 0 \notin Decoded(Start(f) + n)
      BY <2>1, <2>2, <2>4, <2>5, DecodedWhole
    <3> QED
      BY <1>4, <2>2, <2>3, <2>1, <3>1 DEF Keep
  <2>7. Start(f) \in Nat /\ Size[f] \in Nat
    BY <2>3, Place
  <2>8. \A a \in Start(f) .. Start(f) + n - 1 : text[a] = Code(a)
    <3> SUFFICES ASSUME NEW b \in Start(f) .. Start(f) + n - 1 PROVE text[b] = Code(b)
      OBVIOUS
    <3>1. b \in Start(f) .. Start(f) + Size[f] - 1
      BY <2>2, <2>5, <2>7 DEF Whole
    <3> QED
      BY <2>3, <2>4, <3>1, Untouched
  <2>9. Kept(f)'
    <3>1. /\ Start(f) + n \in Nat
          /\ (Start(f) + n) - Start(f) = n
          /\ Start(f) + n >= Start(f) + JmpSize
          /\ Start(f) + n - 1 = (Start(f) + n) - 1
      BY <2>3, <2>6, <2>7
    <3>2. trampoline'[f] = kept
      BY <2>2 DEF TypeInv
    <3>3. trampoline'[f].back = Start(f) + n
      BY <2>c, <3>2
    <3>4. DOMAIN trampoline'[f].bytes = Start(f) .. Start(f) + n - 1
      BY <2>c, <3>2
    <3>5. \A a \in Start(f) .. Start(f) + n - 1 : trampoline'[f].bytes[a] = Code(a)
      <4> SUFFICES ASSUME NEW b \in Start(f) .. Start(f) + n - 1
                   PROVE  trampoline'[f].bytes[b] = Code(b)
        OBVIOUS
      <4>1. kept.bytes[b] = text[b] /\ text[b] = Code(b)
        BY <2>8, <2>c
      <4> QED
        BY <3>2, <4>1
    <3>6. Start(f)' = Start(f)
      BY <2>2 DEF Start
    <3>7. Whole(f, trampoline[f].back - Start(f))'
      BY <2>5, <3>1, <3>3, <3>6 DEF Whole
    <3>8. (trampoline[f].back \in Nat /\ trampoline[f].back >= Start(f) + JmpSize)'
      BY <3>1, <3>3, <3>6
    <3>9. (DOMAIN trampoline[f].bytes = Start(f) .. trampoline[f].back - 1)'
      BY <3>1, <3>3, <3>4, <3>6
    <3>10. (\A a \in Start(f) .. trampoline[f].back - 1 : trampoline[f].bytes[a] = Code(a))'
      BY <3>1, <3>3, <3>5, <3>6 DEF Code
    <3> QED
      BY <3>7, <3>8, <3>9, <3>10 DEF Kept
  <2>10. \A g \in active : Kept(g)'
    <3> SUFFICES ASSUME NEW g \in active PROVE Kept(g)'
      OBVIOUS
    <3>1. Kept(g)
      BY <2>4 DEF KeptOK
    <3>2. trampoline'[g] = trampoline[g]
      BY <2>2, <2>3 DEF TypeInv
    <3> QED
      BY <2>2, <3>1, <3>2 DEF Kept, Whole, Start
  <2>11. Kept(hook.of)'
    BY <2>2, <2>9 DEF Kept, Whole, Start
  <2> QED
    BY <2>2, <2>10, <2>11 DEF KeptOK
<1>5. CASE Unprotect \/ Patch \/ Reprotect
  <2>1. /\ hook.at \notin {"none", "decode"} /\ hook'.at \notin {"none", "decode"}
        /\ hook'.of = hook.of /\ UNCHANGED <<base, trampoline, active>>
    BY <1>5 DEF Unprotect, Patch, Reprotect, image_vars, TypeInv, NoHook
  <2>2. Roomy
    BY <2>1 DEF Roomy
  <2> QED
    BY <2>1, <2>2 DEF KeptOK, Kept, Whole, Start
<1>6. CASE Store
  <2>1. /\ hook.at = "store" /\ hook'.at = "none" /\ active' = active \cup {hook.of}
        /\ UNCHANGED <<base, trampoline>>
    BY <1>6 DEF Store, image_vars, NoHook
  <2>2. Roomy
    BY <2>1 DEF Roomy
  <2> QED
    BY <2>1, <2>2 DEF KeptOK, Kept, Whole, Start
<1>7. CASE NoMemory
  BY <1>7 DEF NoMemory, image_vars, KeptOK, Kept, Whole, Roomy, Start
<1> QED
  BY <1>1, <1>2, <1>3, <1>4, <1>5, <1>6, <1>7 DEF Next

----------------------------------------------------------------------------

(* The complete invariant holds in every behaviour. *)
THEOREM HooksInvariant == Spec => []HooksInv
<1>1. HooksInv /\ [Next]_vars => HooksInv'
  BY TypeStep, ProtectedStep, RunningStep, OnlyJumpsStep, StoredStep, CrashedStep, KeptStep
     DEF HooksInv
<1> QED
  BY <1>1, HooksInit, PTL DEF Spec

(* draconity_install writes nothing of the library but the jumps of the    *)
(* hooks it sets up, whether the functions have room for them or not.      *)
THEOREM OnlyJumpsHolds == Spec => []OnlyJumps
  BY HooksInvariant, PTL DEF HooksInv

(* At every moment, while a hook is set up too, Dragon finds all pages     *)
(* executable but those of the hook at work and of the hooks the system    *)
(* has refused something, and a function that leads to a hook has its      *)
(* original stored, one that runs, unless it is one of these.              *)
THEOREM CallsSafeHolds == Spec => []CallsSafe
<1>1. HooksInv => CallsSafe
  <2> SUFFICES ASSUME HooksInv PROVE CallsSafe
    OBVIOUS
  <2>1. ASSUME NEW p \in DOMAIN protection, \A f \in AtWork : p \notin Pages(Start(f), JmpSize)
        PROVE  protection[p] = "RX"
    BY <2>1 DEF HooksInv, Protected, Outside
  <2>2. ASSUME NEW f \in Hooked \ AtWork, text[Start(f)] = Jump(f, 0)
        PROVE  original[f] /\ trampoline[f].runs
    <3>1. f \in Function /\ f # 0
      BY HooksAssumption
    <3>2. Start(f) \in Address
      BY <3>1, Place DEF HooksInv
    <3>3. f \in Jumping
      <4>1. text[Start(f)] # Code(Start(f))
        BY <2>2, <3>1 DEF Jump, Code
      <4>2. PICK g \in Jumping : text[Start(f)] = Jump(g, Start(f) - Start(g))
        BY <3>2, <4>1 DEF HooksInv, OnlyJumps
      <4>3. Jump(f, 0) = Jump(g, Start(f) - Start(g))
        BY <2>2, <4>2
      <4> QED
        BY <4>3 DEF Jump
    <3>4. f \in active \ refused
      BY <3>3 DEF Jumping, AtWork
    <3> QED
      BY <3>4 DEF HooksInv, Stored, Running
  <2> QED
    BY <2>1, <2>2 DEF CallsSafe
<1> QED
  BY <1>1, HooksInvariant, PTL

(* No hook harms a function, its own or another, if the functions hooked   *)
(* have room for the jump.                                                 *)
THEOREM OriginalsIntactHolds == Spec => []OriginalsIntact
<1>1. HooksInv => OriginalsIntact
  <2> SUFFICES ASSUME HooksInv, hook.at = "none", \A f \in active : Size[f] >= JmpSize,
                      NEW f \in Function
               PROVE  Executes(f)
    BY DEF OriginalsIntact
  <2>1. TypeInv /\ OnlyJumps /\ Roomy /\ Jumping = active /\ \A g \in active : Kept(g)
    BY DEF HooksInv, KeptOK, Roomy, Jumping
  <2>2. /\ Start(f) \in Nat /\ base \in Nat /\ Entry[f] \in Nat /\ Size[f] \in Nat
        /\ Start(f) - base = Entry[f] /\ Entry[f] \in DOMAIN Length
    BY <2>1, Place
  <2>3. CASE f \notin active
    <3>1. \A a \in Start(f) .. Start(f) + Size[f] - 1 : text[a] = Code(a)
      BY <2>1, <2>3, Untouched
    <3> QED
      BY <2>2, <2>3, <3>1 DEF Executes
  <2>4. CASE f \in active
    <3> DEFINE back == trampoline[f].back
    <3>1. /\ back \in Nat
          /\ back - Start(f) \in 0 .. Size[f]
          /\ back - Start(f) = Size[f] \/ Entry[f] + (back - Start(f)) \in DOMAIN Length
          /\ back >= Start(f) + JmpSize
      BY <2>1, <2>4 DEF Kept, Whole
    <3>4. /\ DOMAIN trampoline[f].bytes = Start(f) .. back - 1
          /\ \A a \in Start(f) .. back - 1 : trampoline[f].bytes[a] = Code(a)
      BY <2>1, <2>4 DEF Kept
    <3> HIDE DEF back
    <3>2. back - base \in DOMAIN Length \cup {Entry[f] + Size[f]}
      <4>1. back - base = Entry[f] + (back - Start(f))
        BY <2>2, <3>1
      <4> QED
        BY <3>1, <4>1
    <3>3. \A a \in back .. Start(f) + Size[f] - 1 : text[a] = Code(a)
      <4> SUFFICES ASSUME NEW b \in back .. Start(f) + Size[f] - 1 PROVE text[b] = Code(b)
        OBVIOUS
      <4>1. b \in Start(f) .. Start(f) + Size[f] - 1 /\ b \notin Patched(f)
        <5>1. JmpSize \in Nat
          BY HooksAssumption
        <5> QED
          BY <2>2, <3>1, <5>1 DEF Patched
      <4> QED
        BY <2>1, <4>1, Untouched
    <3> QED
      BY <2>4, <3>2, <3>3, <3>4 DEF Executes, back
  <2> QED
    BY <2>3, <2>4
<1> QED
  BY <1>1, HooksInvariant, PTL

(* Setting up a hook the system grants everything can end Dragon on the    *)
(* Mac only, and only if the jump lies on two pages.                       *)
THEOREM FaultOnlyAcrossPagesHolds == Spec => []FaultOnlyAcrossPages
  BY HooksInvariant, PTL DEF HooksInv, Crashed, FaultOnlyAcrossPages
=============================================================================
