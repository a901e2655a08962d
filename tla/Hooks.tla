-------------------------------- MODULE Hooks --------------------------------
(***************************************************************************)
(* How Draconity puts itself between Dragon and its engine library:        *)
(* draconity_install loads the library's symbols, patches a jump over the  *)
(* beginning of each function it hooks (CodeHook::setup), and starts the   *)
(* server.  The instructions the jump overwrites go to a trampoline, which *)
(* goes on in the function behind them, and stands for the original.       *)
(* Pages must be writable while they are patched and executable when       *)
(* Dragon calls; the two platforms protect different pages, and whether    *)
(* the system has done so, or has memory, is not looked at.                *)
(***************************************************************************)
EXTENDS Integers

CONSTANTS
  PageSize,   \* bytes of a page
  JmpSize,    \* CodeHook::jmpSize
  MaxLength,  \* bytes of the longest instruction
  Length,     \* the library: [offset of an instruction -> its length]
  Bytes,      \* bytes of the library
  Entry,      \* [function -> offset of its first instruction]
  Size,       \* [function -> its bytes]
  Hooked      \* the functions server_hooks names

Function == DOMAIN Entry

(* A function is a run of whole instructions, and shares no byte with      *)
(* another one.                                                            *)
ASSUME HooksAssumption ==
  /\ JmpSize \in Nat /\ JmpSize > 2
  /\ PageSize \in Nat /\ PageSize >= JmpSize
  /\ MaxLength \in Nat /\ Bytes \in Nat
  /\ DOMAIN Length \subseteq Nat
  /\ Length \in [DOMAIN Length -> 1 .. MaxLength]
  /\ 0 \notin Function
  /\ Hooked \subseteq Function
  /\ Entry \in [Function -> DOMAIN Length]
  /\ Size \in [Function -> Nat \ {0}]
  /\ \A f \in Function : Entry[f] + Size[f] <= Bytes
  /\ \A f \in Function, i \in DOMAIN Length :
       i >= Entry[f] /\ i < Entry[f] + Size[f] =>
         \/ i + Length[i] = Entry[f] + Size[f]
         \/ i + Length[i] < Entry[f] + Size[f] /\ i + Length[i] \in DOMAIN Length
  /\ \A f, g \in Function :
       f # g => Entry[f] + Size[f] <= Entry[g] \/ Entry[g] + Size[g] <= Entry[f]

VARIABLES
  platform,     \* what the code is compiled for
  base,         \* where the library is in its first page
  exported,     \* functions whose symbols the library has
  found,        \* is the library there
  text,         \* [address -> the byte there]
  protection,   \* [page -> "RX" or "RW"]
  trampoline,   \* [hooked function -> the instructions kept, where they go on,
                \*  and whether they may be executed]
  original,     \* [hooked function -> is *original its trampoline]
  loaded,       \* symbols loaded
  hook,         \* the hook being set up, how far, and the bytes decoded
  active,       \* hooks set up
  phase,        \* how far draconity_install is
  refused       \* history: hooks the system has refused something

image_vars == <<platform, base, exported, found>>

vars == <<image_vars, text, protection, trampoline, original, loaded, hook, active, phase, refused>>

----------------------------------------------------------------------------
(* The library. *)

Start(f) == base + Entry[f]

(* The library and what may be copied behind it. *)
Address == 0 .. PageSize + Bytes + JmpSize + MaxLength

Page(a) == a \div PageSize

(* A byte of the library is the one that was at an address, or one of the  *)
(* jump to a hook.                                                         *)
Code(a) == [jump |-> 0, at |-> a]

Jump(f, k) == [jump |-> f, at |-> k]

NoHook == [of |-> 0, at |-> "none", size |-> 0]

Init ==
  /\ platform \in {"mac", "windows"}
  /\ base \in 0 .. PageSize - 1
  /\ exported \in SUBSET Hooked
  /\ found \in BOOLEAN
  /\ text = [a \in Address |-> Code(a)]
  /\ protection = [p \in {Page(a) : a \in Address} |-> "RX"]
  /\ trampoline = [f \in Hooked |-> [bytes |-> [a \in {} |-> text[a]], back |-> 0, runs |-> FALSE]]
  /\ original = [f \in Hooked |-> FALSE]
  /\ loaded = {}
  /\ hook = NoHook
  /\ active = {}
  /\ phase = "symbols"
  /\ refused = {}

----------------------------------------------------------------------------
(* draconity_install *)

Exists == IF found THEN exported ELSE {}

(* Platform::loadSymbols: a symbol that is missing is only logged. *)
LoadSymbols ==
  /\ phase = "symbols"
  /\ loaded' = Exists
  /\ phase' = "hooks"
  /\ UNCHANGED <<image_vars, text, protection, trampoline, original, hook, active, refused>>

(* Whether loadSymbols and applyHooks report that the library is missing.  *)
(* On the Mac the result of walk_image is dropped.                         *)
Failed == platform = "windows" /\ ~found

(* draconity_init follows when every hook that can be is set up. *)
Finish ==
  /\ phase = "hooks" /\ hook.at = "none"
  /\ active = Exists
  /\ phase' = IF Failed THEN "failed" ELSE "server"
  /\ UNCHANGED <<image_vars, text, protection, trampoline, original, loaded, hook, active, refused>>

----------------------------------------------------------------------------
(* CodeHook::setup *)

BeginHook(f) ==
  /\ phase = "hooks" /\ hook.at = "none"
  /\ f \in Exists \ active
  /\ hook' = [of |-> f, at |-> "decode", size |-> 0]
  /\ UNCHANGED <<image_vars, text, protection, trampoline, original, loaded, active, phase, refused>>

(* Fault: as many bytes are kept as the jump has. *)
Decoded_Bytes(a) == {1}

(* The lengths of what may be decoded at an address: an instruction of the *)
(* library, one of the two of a jump, or bytes a jump has torn, which are  *)
(* read as anything or, with length 0, as no instruction.                  *)
Decoded(a) ==
  IF text[a] = Code(a) /\ a - base \in DOMAIN Length THEN {Length[a - base]}
  ELSE IF text[a].jump # 0 /\ text[a].at = 0 THEN {JmpSize - 2}
  ELSE IF text[a].jump # 0 /\ text[a].at = JmpSize - 2 THEN {2}
  ELSE 0 .. MaxLength

(* dis_code_size: instructions are taken until they have as many bytes as  *)
(* the jump.                                                               *)
Decode ==
  /\ hook.at = "decode"
  /\ hook.size < JmpSize
  /\ \E length \in Decoded(Start(hook.of) + hook.size) \ {0} :
       hook' = [hook EXCEPT !.size = @ + length]
  /\ UNCHANGED <<image_vars, text, protection, trampoline, original, loaded, active, phase, refused>>

(* The first bytes of a function, for the trampoline, with a jump behind   *)
(* them.                                                                   *)
Copy(f, size) ==
  [bytes |-> [a \in Start(f) .. Start(f) + size - 1 |-> text[a]], back |-> Start(f) + size, runs |-> FALSE]

(* The system does as it is asked, or the hook goes on without.            *)
Granted(granted) == refused' = IF granted THEN refused ELSE refused \cup {hook.of}

(* The trampoline is filled; it may stay one that cannot be executed. *)
Keep ==
  /\ hook.at = "decode"
  /\ hook.size >= JmpSize \/ 0 \in Decoded(Start(hook.of) + hook.size)
  /\ \E runs \in BOOLEAN :
       /\ trampoline' = [trampoline EXCEPT ![hook.of] = [Copy(hook.of, hook.size) EXCEPT !.runs = runs]]
       /\ Granted(runs)
  /\ hook' = [hook EXCEPT !.at = "unprotect"]
  /\ UNCHANGED <<image_vars, text, protection, original, loaded, active, phase>>

(* There is no memory for a trampoline, and its bytes are written to NULL. *)
NoMemory ==
  /\ hook.at = "decode"
  /\ hook.size >= JmpSize \/ 0 \in Decoded(Start(hook.of) + hook.size)
  /\ Granted(FALSE)
  /\ phase' = "crashed"
  /\ UNCHANGED <<image_vars, text, protection, trampoline, original, loaded, hook, active>>

(* Fault: Windows is asked for as many pages as the Mac.  *)
Pages_Rounded(addr, size) ==
  Page(addr) .. Page(addr) + (size + PageSize - 1) \div PageSize - 1

(* The pages protectRW and protectRX change: VirtualProtect takes every    *)
(* page the bytes are on, mprotect the first and as many as the size,      *)
(* rounded up, fills.                                                      *)
Pages(addr, size) ==
  IF platform = "windows" THEN Page(addr) .. Page(addr + size - 1)
  ELSE Page(addr) .. Page(addr) + (size + PageSize - 1) \div PageSize - 1

Protect(addr, size, as) ==
  \E granted \in BOOLEAN :
    /\ protection' = [p \in DOMAIN protection |->
                        IF granted /\ p \in Pages(addr, size) THEN as ELSE protection[p]]
    /\ Granted(granted)

Unprotect ==
  /\ hook.at = "unprotect"
  /\ Protect(Start(hook.of), JmpSize, "RW")
  /\ hook' = [hook EXCEPT !.at = "patch"]
  /\ UNCHANGED <<image_vars, text, trampoline, original, loaded, active, phase>>

(* The addresses the jump of a hook takes. *)
Patched(f) == Start(f) .. Start(f) + JmpSize - 1

(* memcpy of the jump; a byte on a page that is not writable ends Dragon.  *)
Patch ==
  /\ hook.at = "patch"
  /\ IF \A a \in Patched(hook.of) : protection[Page(a)] = "RW"
     THEN /\ text' = [a \in Address |->
                        IF a \in Patched(hook.of) THEN Jump(hook.of, a - Start(hook.of))
                        ELSE text[a]]
          /\ hook' = [hook EXCEPT !.at = "protect"]
          /\ UNCHANGED phase
     ELSE phase' = "crashed" /\ UNCHANGED <<text, hook>>
  /\ UNCHANGED <<image_vars, protection, trampoline, original, loaded, active, refused>>

(* Fault: only the page the function begins on is made executable again.   *)
Reprotect_First ==
  /\ hook.at = "protect"
  /\ Protect(Start(hook.of), 1, "RX")
  /\ hook' = [hook EXCEPT !.at = "store"]
  /\ UNCHANGED <<image_vars, text, trampoline, original, loaded, active, phase>>

Reprotect ==
  /\ hook.at = "protect"
  /\ Protect(Start(hook.of), JmpSize, "RX")
  /\ hook' = [hook EXCEPT !.at = "store"]
  /\ UNCHANGED <<image_vars, text, trampoline, original, loaded, active, phase>>

(* The hook learns where its original is only now. *)
Store ==
  /\ hook.at = "store"
  /\ original' = [original EXCEPT ![hook.of] = TRUE]
  /\ active' = active \cup {hook.of}
  /\ hook' = NoHook
  /\ UNCHANGED <<image_vars, text, protection, trampoline, loaded, phase, refused>>

----------------------------------------------------------------------------

Next ==
  \/ LoadSymbols \/ Finish
  \/ \E f \in Hooked : BeginHook(f)
  \/ phase # "crashed" /\ (Decode \/ Keep \/ NoMemory \/ Unprotect \/ Patch \/ Reprotect \/ Store)

Spec == Init /\ [][Next]_vars

----------------------------------------------------------------------------

(* The hook whose function is being patched and has no original yet, and   *)
(* those the system has refused something.                                 *)
AtWork == refused \cup {f \in Hooked : f = hook.of /\ hook.at \in {"patch", "protect", "store"}}

(* Dragon may run while hooks are set up: it finds every page executable   *)
(* but those of a hook at work, and a function that leads to a hook has    *)
(* its original stored, and one that runs, unless it is that hook's.       *)
CallsSafe ==
  /\ \A p \in DOMAIN protection :
       (\A f \in AtWork : p \notin Pages(Start(f), JmpSize)) => protection[p] = "RX"
  /\ \A f \in Hooked \ AtWork :
       text[Start(f)] = Jump(f, 0) => original[f] /\ trampoline[f].runs

(* Whoever calls function f, or the original of its hook, executes f: the  *)
(* instructions that were kept, none of them torn, and then the rest.      *)
Executes(f) ==
  LET first == Start(f)
      last  == Start(f) + Size[f] - 1
      rest  == IF f \in active THEN trampoline[f].back ELSE first
  IN  /\ rest - base \in DOMAIN Length \cup {Entry[f] + Size[f]}
      /\ f \in active =>
           /\ DOMAIN trampoline[f].bytes = first .. rest - 1
           /\ \A a \in first .. rest - 1 : trampoline[f].bytes[a] = Code(a)
      /\ \A a \in rest .. last : text[a] = Code(a)

(* No hook harms a function, its own or another: if the functions hooked   *)
(* have room for the jump, which setup does not ask.                       *)
OriginalsIntact ==
  hook.at = "none" /\ (\A f \in active : Size[f] >= JmpSize)
    => \A f \in Function : Executes(f)

(* A hook the system grants everything fails only on the Mac, where the    *)
(* jump lies on two pages.                                                 *)
FaultOnlyAcrossPages ==
  phase = "crashed" /\ hook.of \notin refused =>
    platform = "mac" /\ Page(Start(hook.of)) # Page(Start(hook.of) + JmpSize - 1)
=============================================================================
