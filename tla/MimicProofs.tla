----------------------------- MODULE MimicProofs -----------------------------
(***************************************************************************)
(* Mimics for any number of clients and requests: as long as Dragon does   *)
(* not report a mimic before it is queued, the queue is Dragon's own.      *)
(***************************************************************************)
EXTENDS Mimic, TLAPS

IInv ==
  /\ TypeOK
  /\ "race" \notin Slips => QueueMatchesDragon

----------------------------------------------------------------------------

(* The handler queues its request behind the others. *)
LEMMA QueueLast ==
  ASSUME NEW q \in Seq(Request), NEW s \in Seq(Request), NEW r \in Request, s = <<>>
  PROVE  /\ Append(q \o s, r) = q \o <<r>>
         /\ Append(q \o s, r) \in Seq(Request)
         /\ <<r>> \in Seq(Request) /\ Len(<<r>>) = 1
         /\ q \o s = q
  OBVIOUS

(* What Head and Tail of the queue and of Dragon's mimics are. *)
LEMMA TakeFirst ==
  ASSUME NEW q \in Seq(Request), NEW s \in Seq(Request), q # <<>>
  PROVE  /\ Head(q \o s) = Head(q) /\ Head(q) \in Request
         /\ Tail(q \o s) = Tail(q) \o s
         /\ Tail(q) \in Seq(Request)
  OBVIOUS

(* With nothing queued, what Dragon still owes is the handler's request.   *)
LEMMA OnlyInCall ==
  ASSUME NEW s \in Seq(Request), Len(s) <= 1, <<>> \o s # <<>>
  PROVE  s = <<Head(<<>> \o s)>>
<1>1. <<>> \o s = s /\ s # <<>>
  OBVIOUS
<1>2. Len(s) = 1
  <2>1. Len(s) \in Nat /\ Len(s) # 0
    BY <1>1
  <2>2. \A n \in Nat : n <= 1 /\ n # 0 => n = 1
    OBVIOUS
  <2> QED
    BY <2>1, <2>2, Zenon
<1> QED
  BY <1>1, <1>2

----------------------------------------------------------------------------

(* The initial state satisfies the invariant. *)
LEMMA InvInit == Init => IInv
<1> SUFFICES ASSUME Init PROVE IInv
  OBVIOUS
<1> USE DEF Init
<1>1. ClientsTypeOK
  BY MaxClientsAssumption DEF ClientsInit, ClientsTypeOK
<1>2. <<>> \in Seq(Request) /\ Len(<<>>) <= 1 /\ <<>> \o <<>> = <<>>
  OBVIOUS
<1>3. status \in [ClientId -> [MTid -> Status]]
  BY DEF Status
<1> QED
  BY <1>1, <1>2, <1>3 DEF IInv, TypeOK, QueueMatchesDragon

(* Connections come and go; the queue stays. *)
LEMMA InvClients ==
  ASSUME IInv, Connect \/ \E c \in ClientId : Auth(c) \/ Disconnect(c)
  PROVE  IInv'
<1> USE DEF IInv
<1>1. UNCHANGED mimic_vars
  BY DEF Connect, Auth, Disconnect
<1>2. ClientsTypeOK'
  <2>1. CASE Connect
    BY <2>1, MaxClientsAssumption DEF Connect, Accept, ClientsTypeOK, TypeOK
  <2>2. ASSUME NEW c \in ClientId, Auth(c) PROVE ClientsTypeOK'
    BY <2>2 DEF Auth, Authenticate, ClientsTypeOK, TypeOK
  <2>3. ASSUME NEW c \in ClientId, Disconnect(c) PROVE ClientsTypeOK'
    BY <2>3 DEF Disconnect, Forget, ClientsTypeOK, TypeOK
  <2> QED
    BY <2>1, <2>2, <2>3
<1> QED
  BY <1>1, <1>2 DEF mimic_vars, TypeOK, QueueMatchesDragon

(* A mimic is asked for. *)
LEMMA InvAsk ==
  ASSUME IInv, NEW c \in ClientId, NEW t \in MTid, MimicAccepted(c, t) \/ MimicRefused(c, t)
  PROVE  IInv'
<1> USE DEF IInv, TypeOK
<1>1. UNCHANGED <<clients_vars, mimic_queue>> /\ ClientsTypeOK'
  BY DEF MimicAccepted, MimicRefused, clients_vars, ClientsTypeOK
<1>2. status' \in [ClientId -> [MTid -> Status]]
  <2>1. \E told \in {"pending", "refused"} : status' = [status EXCEPT ![c][t] = told]
    BY DEF MimicAccepted, MimicRefused
  <2> QED
    BY <2>1 DEF Status
<1>4. CASE MimicAccepted(c, t)
  <2>1. /\ in_call = <<>> /\ <<c, t>> \in Request
        /\ dragon_mimics' = Append(dragon_mimics, <<c, t>>) /\ in_call' = <<<<c, t>>>>
    BY <1>4 DEF MimicAccepted, UvIdle, Request
  <2>2. in_call' \in Seq(Request) /\ Len(in_call') <= 1 /\ dragon_mimics' \in Seq(Request)
    BY <2>1
  <2>3. QueueMatchesDragon => QueueMatchesDragon'
    <3> SUFFICES ASSUME dragon_mimics = mimic_queue \o in_call
                 PROVE  dragon_mimics' = mimic_queue' \o in_call'
      BY DEF QueueMatchesDragon
    <3>1. Append(mimic_queue \o in_call, <<c, t>>) = mimic_queue \o <<<<c, t>>>>
      BY <2>1, QueueLast
    <3> QED
      BY <1>1, <2>1, <3>1
  <2> QED
    BY <1>1, <1>2, <2>2, <2>3
<1>5. CASE MimicRefused(c, t)
  <2>1. UNCHANGED <<dragon_mimics, in_call>>
    BY <1>5 DEF MimicRefused
  <2> QED
    BY <1>1, <1>2, <2>1 DEF QueueMatchesDragon
<1> QED
  BY <1>4, <1>5

(* The handler goes on. *)
LEMMA InvQueue == ASSUME IInv, QueueMimic PROVE IInv'
<1> USE DEF IInv, TypeOK, QueueMimic
<1>1. mimic_queue' \in Seq(Request) /\ in_call' \in Seq(Request) /\ Len(in_call') <= 1
  OBVIOUS
<1>2. mimic_queue' \o in_call' = mimic_queue \o in_call
  OBVIOUS
<1> QED
  BY <1>1, <1>2 DEF clients_vars, ClientsTypeOK, QueueMatchesDragon

(* Dragon reports a mimic. *)
LEMMA InvDone == ASSUME IInv, MimicDone PROVE IInv'
<1> USE DEF IInv, TypeOK
<1>1. /\ UNCHANGED <<clients_vars, in_call>> /\ ClientsTypeOK'
      /\ dragon_mimics # <<>> /\ dragon_mimics' = Tail(dragon_mimics)
      /\ "race" \in Slips \/ in_call # <<Head(dragon_mimics)>>
  BY DEF MimicDone, clients_vars, ClientsTypeOK
<1>2. dragon_mimics' \in Seq(Request)
  BY <1>1
<1>3. CASE mimic_queue = <<>>
  <2>1. UNCHANGED <<mimic_queue, status>>
    BY <1>3 DEF MimicDone
  <2>2. "race" \in Slips
    BY <1>1, <1>3, OnlyInCall DEF QueueMatchesDragon
  <2> QED
    BY <1>1, <1>2, <2>1, <2>2
<1>4. CASE mimic_queue # <<>>
  <2>1. PICK named \in Named :
          status' = [c \in ClientId |-> [t \in MTid |->
            IF c \in clients /\ <<c, t>> \in named THEN "done" ELSE status[c][t]]]
    BY <1>4 DEF MimicDone
  <2>2. mimic_queue' = Tail(mimic_queue) /\ mimic_queue' \in Seq(Request)
    <3>1. mimic_queue' = Tail(mimic_queue)
      BY <1>4 DEF MimicDone
    <3> QED
      BY <1>4, <3>1, TakeFirst
  <2>3. status' \in [ClientId -> [MTid -> Status]]
    BY <2>1 DEF Status
  <2>4. QueueMatchesDragon => QueueMatchesDragon'
    BY <1>1, <1>4, <2>2, TakeFirst DEF QueueMatchesDragon
  <2> QED
    BY <1>1, <1>2, <2>2, <2>3, <2>4
<1> QED
  BY <1>3, <1>4

----------------------------------------------------------------------------

(* The invariant of the mimic command, whatever may slip. *)
THEOREM MimicInvariant == Spec => []IInv
<1>1. IInv /\ [Next]_vars => IInv'
  <2> SUFFICES ASSUME IInv, [Next]_vars PROVE IInv'
    OBVIOUS
  <2>1. CASE UNCHANGED vars
    BY <2>1 DEF vars, mimic_vars, clients_vars, IInv, TypeOK, ClientsTypeOK,
                QueueMatchesDragon
  <2> QED
    BY <2>1, InvClients, InvAsk, InvQueue, InvDone DEF Next
<1> QED
  BY <1>1, InvInit, PTL DEF Spec

(* Types, whatever may slip. *)
THEOREM TypeCorrect == Spec => []TypeOK
<1>1. IInv => TypeOK
  BY DEF IInv
<1> QED
  BY <1>1, MimicInvariant, PTL

(* If Dragon never reports a mimic before it is queued, the queue is what  *)
(* Dragon still owes a report for.                                         *)
THEOREM QueueMatchesDragonHolds ==
  ASSUME "race" \notin Slips PROVE Spec => []QueueMatchesDragon
<1>1. IInv => QueueMatchesDragon
  BY DEF IInv
<1> QED
  BY <1>1, MimicInvariant, PTL
=============================================================================
