------------------------------- MODULE Mimic -------------------------------
(***************************************************************************)
(* The "mimic" command.  The Uv thread asks Dragon to act as if a phrase   *)
(* had been spoken and then remembers who asked in mimic_queue; Dragon's   *)
(* thread reports each finished mimic without saying which it was, and the *)
(* oldest entry of the queue gets the answer.                              *)
(***************************************************************************)
EXTENDS Clients, Sequences

CONSTANTS
  MTid,    \* transaction ids of "mimic" requests; a client uses each once
  Slips    \* what may go wrong: "race", Dragon reports a mimic before the
           \* command has queued it; "freed", draconity_mimic_done reads the
           \* entry it has popped after the deque gave its memory back

ASSUME MimicAssumption == Slips \subseteq {"race", "freed"}

VARIABLES
  dragon_mimics,   \* external: mimics Dragon has accepted and not finished
  mimic_queue,     \* Draconity::mimic_queue
  in_call,         \* the request whose handler is past _DSXEngine_Mimic and
                   \* has not queued it yet, as a sequence of at most one
  status           \* [ClientId -> [MTid -> what the client knows]]

mimic_vars == <<dragon_mimics, mimic_queue, in_call, status>>

vars == <<clients_vars, mimic_vars>>

Request == ClientId \X MTid

Status == {"unsent", "pending", "refused", "done"}

TypeOK ==
  /\ ClientsTypeOK
  /\ dragon_mimics \in Seq(Request)
  /\ mimic_queue \in Seq(Request)
  /\ in_call \in Seq(Request) /\ Len(in_call) <= 1
  /\ status \in [ClientId -> [MTid -> Status]]

Init ==
  /\ ClientsInit
  /\ dragon_mimics = <<>>
  /\ mimic_queue = <<>>
  /\ in_call = <<>>
  /\ status = [c \in ClientId |-> [t \in MTid |-> "unsent"]]

(* The Uv thread is in one handler at a time. *)
UvIdle == in_call = <<>>

Connect ==
  /\ UvIdle
  /\ Accept
  /\ UNCHANGED mimic_vars

Auth(c) ==
  /\ UvIdle
  /\ Authenticate(c)
  /\ UNCHANGED mimic_vars

(* Fault: a client's mimics are dropped from the queue when it leaves. *)
Disconnect_DropQueued(c) ==
  /\ UvIdle
  /\ Forget(c)
  /\ mimic_queue' = SelectSeq(mimic_queue, LAMBDA m : m[1] # c)
  /\ UNCHANGED <<dragon_mimics, in_call, status>>

(* handle_disconnect leaves mimic_queue alone: Dragon still owes a report  *)
(* for each entry.                                                         *)
Disconnect(c) ==
  /\ UvIdle
  /\ Forget(c)
  /\ UNCHANGED mimic_vars

(* "mimic", up to the return of _DSXEngine_Mimic.  (`ready` has no part in *)
(* this: it only ever becomes true.)                                       *)
MimicAccepted(c, t) ==
  /\ UvIdle
  /\ c \in authed
  /\ status[c][t] = "unsent"
  /\ dragon_mimics' = Append(dragon_mimics, <<c, t>>)
  /\ in_call' = <<<<c, t>>>>
  /\ status' = [status EXCEPT ![c][t] = "pending"]
  /\ UNCHANGED <<clients_vars, mimic_queue>>

(* Fault: a mimic Dragon refuses is queued like any other. *)
MimicRefused_Queued(c, t) ==
  /\ UvIdle
  /\ c \in authed
  /\ status[c][t] = "unsent"
  /\ status' = [status EXCEPT ![c][t] = "refused"]
  /\ mimic_queue' = Append(mimic_queue, <<c, t>>)
  /\ UNCHANGED <<clients_vars, dragon_mimics, in_call>>

MimicRefused(c, t) ==
  /\ UvIdle
  /\ c \in authed
  /\ status[c][t] = "unsent"
  /\ status' = [status EXCEPT ![c][t] = "refused"]
  /\ UNCHANGED <<clients_vars, dragon_mimics, mimic_queue, in_call>>

(* The rest of the handler: the request joins mimic_queue. *)
QueueMimic ==
  /\ in_call # <<>>
  /\ mimic_queue' = mimic_queue \o in_call
  /\ in_call' = <<>>
  /\ UNCHANGED <<clients_vars, dragon_mimics, status>>

(* Whom the entry names when it is read, after the pop and the unlock: the *)
(* request that was there, or whatever reused memory happens to say.       *)
Named == {{Head(mimic_queue)}}
           \cup (IF "freed" \in Slips THEN {{}} \cup {{m} : m \in Request} ELSE {})

(* draconity_mimic_done on Dragon's thread.  Dragon finishes mimics in the *)
(* order it accepted them.                                                 *)
MimicDone ==
  /\ dragon_mimics # <<>>
  /\ "race" \in Slips \/ in_call # <<Head(dragon_mimics)>>
  /\ dragon_mimics' = Tail(dragon_mimics)
  /\ IF mimic_queue = <<>>
     THEN UNCHANGED <<mimic_queue, status>>
     ELSE /\ mimic_queue' = Tail(mimic_queue)
          /\ \E named \in Named :
               status' = [c \in ClientId |-> [t \in MTid |->
                 IF c \in clients /\ <<c, t>> \in named THEN "done" ELSE status[c][t]]]
  /\ UNCHANGED <<clients_vars, in_call>>

Next ==
  \/ Connect \/ QueueMimic \/ MimicDone
  \/ \E c \in ClientId :
       \/ Auth(c)
       \/ Disconnect(c)
       \/ \E t \in MTid : MimicAccepted(c, t) \/ MimicRefused(c, t)

Spec == Init /\ [][Next]_vars

(* The handler goes on, and Dragon finishes every mimic it accepted. *)
FairSpec == Spec /\ WF_vars(QueueMimic) /\ WF_vars(MimicDone)

----------------------------------------------------------------------------

(* Draconity's queue is what Dragon still owes a report for, in order, as  *)
(* long as Dragon does not report a mimic before it is queued: the next    *)
(* report is about the oldest entry, whoever was refused or has left.      *)
QueueMatchesDragon == dragon_mimics = mimic_queue \o in_call

(* Every accepted mimic of a client that stays is answered, "once mimic    *)
(* completes", as long as nothing slips: a report that comes early finds   *)
(* no entry and is lost, and every later one answers an older request.     *)
MimicsAnswered ==
  \A c \in ClientId, t \in MTid :
    status[c][t] = "pending" ~> status[c][t] = "done" \/ c \notin clients
=============================================================================
