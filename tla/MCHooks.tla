------------------------------ MODULE MCHooks ------------------------------
(* Small instances of Hooks for TLC. *)
EXTENDS Hooks, Functions

(* Functions of many instruction lengths, the third too short for a jump.  *)
MCBody == <<<<1, 1, 2>>, <<4, 1>>, <<1, 1>>, <<2, 3, 1>>>>

MCSize == [f \in DOMAIN MCBody |-> SumFunction(MCBody[f])]

(* They lie one behind the other. *)
MCEntry == [f \in DOMAIN MCBody |-> SumFunctionOnSet(MCSize, 1 .. f - 1)]

MCOffset(f, i) == MCEntry[f] + SumFunctionOnSet(MCBody[f], 1 .. i - 1)

MCBytes == SumFunction(MCSize)

MCLength ==
  LET at == {<<f, i>> \in (DOMAIN MCBody) \X (1 .. 3) : i \in DOMAIN MCBody[f]} IN
  [o \in {MCOffset(x[1], x[2]) : x \in at} |->
     LET x == CHOOSE y \in at : MCOffset(y[1], y[2]) = o IN MCBody[x[1]][x[2]]]
=============================================================================
