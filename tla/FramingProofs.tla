---------------------------- MODULE FramingProofs ----------------------------
(***************************************************************************)
(* The byte stream for any number of messages, of any length, cut up in    *)
(* any way.  First: what is buffered is the stream from the first byte not *)
(* used.  Then: what has been handled and written, in terms of the number  *)
(* of messages handled so far.                                             *)
(***************************************************************************)
EXTENDS Framing, FiniteSetTheorems, SequenceTheorems, TLAPS

Count == Len(handled)

(* Where the first byte is that is not used yet. *)
Used == Start[Count + 1] + (IF received_header = NoHeader THEN 0 ELSE HeaderSize)

(* What is buffered begins with a message, or with its body.               *)
Aligned ==
  /\ Count <= Frames
  /\ received_header # NoHeader =>
       Count < Frames /\ received_header = [tid |-> Count + 1, length |-> Length[Count + 1]]
  /\ Used <= arrived
  /\ recv_buffer = Bytes(Used, arrived)

(* The loop ends where the rest is too short.  *)
Drained ==
  ~parsing =>
    arrived - Used < (IF received_header = NoHeader THEN HeaderSize ELSE Length[Count + 1])

FrameInv == TypeOK /\ Aligned /\ Drained /\ FramesAsSent

----------------------------------------------------------------------------
(* Pieces of the stream. *)

LEMMA BytesSeq ==
  ASSUME NEW from \in Nat, NEW to \in Nat, from <= to
  PROVE  /\ Bytes(from, to) \in Seq(Nat) /\ Len(Bytes(from, to)) = to - from
         /\ DOMAIN Bytes(from, to) = 1 .. to - from
         /\ \A k \in 1 .. to - from : Bytes(from, to)[k] = from + k
<1>1. to - from \in Nat /\ \A k \in 1 .. to - from : from + k \in Nat
  OBVIOUS
<1>2. Bytes(from, to) = [k \in 1 .. to - from |-> from + k]
  BY DEF Bytes
<1> DEFINE n == to - from
<1>3. Bytes(from, to) \in [1 .. n -> Nat]
  BY <1>1, <1>2
<1>4. Bytes(from, to) \in Seq(Nat)
  BY <1>1, <1>3
<1> QED
  BY <1>1, <1>2, <1>4

(* Sequences are equal that agree everywhere. *)
LEMMA SameBytes ==
  ASSUME NEW s \in Seq(Nat), NEW u \in Seq(Nat), NEW n \in Nat, Len(s) = n, Len(u) = n,
         \A k \in 1 .. n : s[k] = u[k]
  PROVE  s = u
  BY SeqEqual

LEMMA BytesJoin ==
  ASSUME NEW from \in Nat, NEW mid \in Nat, NEW to \in Nat, from <= mid, mid <= to
  PROVE  Bytes(from, mid) \o Bytes(mid, to) = Bytes(from, to)
<1> DEFINE s == Bytes(from, mid)
           u == Bytes(mid, to)
           w == Bytes(from, to)
<1>1. s \in Seq(Nat) /\ Len(s) = mid - from /\ \A k \in 1 .. mid - from : s[k] = from + k
  BY BytesSeq
<1>2. u \in Seq(Nat) /\ Len(u) = to - mid /\ \A k \in 1 .. to - mid : u[k] = mid + k
  BY BytesSeq
<1>3. w \in Seq(Nat) /\ Len(w) = to - from /\ \A k \in 1 .. to - from : w[k] = from + k
  <2>1. from <= to
    OBVIOUS
  <2> QED
    BY <2>1, BytesSeq
<1> HIDE DEF s, u, w
<1>4. /\ s \o u \in Seq(Nat) /\ Len(s \o u) = Len(s) + Len(u)
      /\ \A k \in 1 .. Len(s) + Len(u) :
           (s \o u)[k] = IF k <= Len(s) THEN s[k] ELSE u[k - Len(s)]
  BY <1>1, <1>2, ConcatProperties
<1>5. Len(s) + Len(u) = to - from /\ to - from \in Nat
  BY <1>1, <1>2
<1>6. ASSUME NEW k \in 1 .. to - from PROVE (s \o u)[k] = w[k]
  <2>0. k <= mid - from \/ k > mid - from
    OBVIOUS
  <2>1. CASE k <= mid - from
    BY <1>1, <1>3, <1>4, <1>5, <2>1
  <2>2. CASE k > mid - from
    <3>1. k - (mid - from) \in 1 .. to - mid
      BY <2>2
    <3>2. (s \o u)[k] = u[k - (mid - from)]
      <4>1. Len(s) = mid - from /\ Len(s) \in Nat
        BY <1>1
      <4>2. k \in 1 .. Len(s) + Len(u) /\ ~(k <= Len(s))
        BY <1>5, <2>2, <4>1
      <4>3. (s \o u)[k] = u[k - Len(s)]
        BY <1>4, <4>2
      <4> QED
        BY <4>1, <4>3
    <3>3. u[k - (mid - from)] = mid + (k - (mid - from))
      BY <1>2, <3>1
    <3> QED
      BY <1>3, <3>2, <3>3
  <2> QED
    BY <2>0, <2>1, <2>2, Zenon
<1>7. s \o u = w
  BY <1>3, <1>4, <1>5, <1>6, SameBytes
<1> QED
  BY <1>7 DEF s, u, w

(* Part of a sequence of bytes. *)
LEMMA SubBytes ==
  ASSUME NEW s, NEW a \in Int, NEW b \in Int, \A i \in a .. b : s[i] \in Nat
  PROVE  /\ SubSeq(s, a, b) \in Seq(Nat)
         /\ Len(SubSeq(s, a, b)) = IF a <= b THEN b - a + 1 ELSE 0
         /\ \A i \in 1 .. b - a + 1 : SubSeq(s, a, b)[i] = s[a + i - 1]
  BY SubSeqProperties

LEMMA BytesCut ==
  ASSUME NEW from \in Nat, NEW to \in Nat, NEW n \in Nat, from + n <= to
  PROVE  /\ SubSeq(Bytes(from, to), 1, n) = Bytes(from, from + n)
         /\ SubSeq(Bytes(from, to), n + 1, Len(Bytes(from, to))) = Bytes(from + n, to)
<1> DEFINE s == Bytes(from, to)
           u == Bytes(from, from + n)
           w == Bytes(from + n, to)
           m == to - from - n
<1>0. m \in Nat /\ to - from = n + m /\ from <= to /\ from <= from + n /\ from + n \in Nat
  OBVIOUS
<1>1. s \in Seq(Nat) /\ Len(s) = n + m /\ \A k \in 1 .. n + m : s[k] = from + k
  BY <1>0, BytesSeq
<1>2. u \in Seq(Nat) /\ Len(u) = n /\ \A k \in 1 .. n : u[k] = from + k
  BY <1>0, BytesSeq
<1>3. w \in Seq(Nat) /\ Len(w) = m /\ \A k \in 1 .. m : w[k] = from + n + k
  BY <1>0, BytesSeq
<1> HIDE DEF s, u, w, m
<1>4. SubSeq(s, 1, n) = u
  <2>1. \A k \in 1 .. n : s[k] \in Nat /\ s[k] = from + k
    BY <1>0, <1>1
  <2>2. /\ SubSeq(s, 1, n) \in Seq(Nat) /\ Len(SubSeq(s, 1, n)) = n
        /\ \A k \in 1 .. n : SubSeq(s, 1, n)[k] = s[k]
    BY <2>1, SubSeqProperties
  <2> QED
    BY <1>2, <2>1, <2>2, SameBytes
<1>5. SubSeq(s, n + 1, n + m) = w
  <2> DEFINE a == n + 1
             b == n + m
  <2>1. /\ a \in Int /\ b \in Int /\ b - a + 1 = m /\ (a <= b <=> m # 0)
        /\ \A k \in a .. b : s[k] \in Nat
        /\ \A k \in 1 .. m : a + k - 1 \in 1 .. n + m /\ a + k - 1 = n + k
    BY <1>0, <1>1
  <2> HIDE DEF a, b
  <2>2. /\ SubSeq(s, a, b) \in Seq(Nat)
        /\ Len(SubSeq(s, a, b)) = IF a <= b THEN b - a + 1 ELSE 0
        /\ \A k \in 1 .. b - a + 1 : SubSeq(s, a, b)[k] = s[a + k - 1]
    BY <2>1, SubBytes
  <2>3. Len(SubSeq(s, a, b)) = m
    BY <1>0, <2>1, <2>2
  <2>4. \A k \in 1 .. m : SubSeq(s, a, b)[k] = w[k]
    <3> SUFFICES ASSUME NEW k \in 1 .. m PROVE SubSeq(s, a, b)[k] = w[k]
      OBVIOUS
    <3>1. SubSeq(s, a, b)[k] = s[a + k - 1]
      BY <2>1, <2>2
    <3>2. s[a + k - 1] = from + (n + k)
      BY <1>1, <2>1
    <3> QED
      BY <1>0, <1>3, <3>1, <3>2
  <2>5. SubSeq(s, a, b) = w
    BY <1>0, <1>3, <2>2, <2>3, <2>4, SameBytes
  <2> QED
    BY <2>5 DEF a, b
<1> QED
  BY <1>1, <1>4, <1>5 DEF s, u, w

(* Where messages begin. *)
LEMMA Starts ==
  /\ \A i \in 1 .. Frames + 1 : Start[i] \in Nat
  /\ \A i \in Tid : /\ i + 1 \in 1 .. Frames + 1 /\ Length[i] \in Nat
                    /\ Start[i + 1] = Start[i] + HeaderSize + Length[i]
  /\ HeaderSize \in Nat \ {0} /\ Frames \in Nat
<1>1. Frames \in Nat /\ HeaderSize \in Nat \ {0}
  BY HeaderAssumption
<1>2. \A i \in Tid : i + 1 \in 1 .. Frames + 1
  BY <1>1 DEF Tid
<1> QED
  BY <1>1, <1>2, StartAssumption, FramesAssumption

(* The header of message i is recognised by its first byte.                *)
LEMMA HeaderAt ==
  ASSUME NEW i \in Tid, NEW buffer, buffer[1] = Start[i] + 1
  PROVE  HeaderOf(buffer) = [tid |-> i, length |-> Length[i]]
<1>1. \A j \in Tid : buffer[1] = Start[j] + 1 => j = i
  <2> SUFFICES ASSUME NEW j \in Tid, Start[i] + 1 = Start[j] + 1, j # i PROVE FALSE
    OBVIOUS
  <2>1. i \in 1 .. Frames + 1 /\ j \in 1 .. Frames + 1 /\ (i < j \/ j < i)
    BY HeaderAssumption DEF Tid
  <2>2. Start[i] \in Nat /\ Start[j] \in Nat
    BY <2>1, Starts
  <2> QED
    BY <2>1, <2>2, StartAssumption
<1> QED
  BY <1>1 DEF HeaderOf

----------------------------------------------------------------------------
(* The stream is cut where messages end. *)

LEMMA Appended ==
  ASSUME NEW S, NEW s \in Seq(S), NEW e \in S
  PROVE  /\ Append(s, e) \in Seq(S) /\ Len(Append(s, e)) = Len(s) + 1 /\ Len(s) \in Nat
         /\ DOMAIN Append(s, e) = 1 .. Len(s) + 1 /\ DOMAIN s = 1 .. Len(s)
         /\ \A i \in 1 .. Len(s) : Append(s, e)[i] = s[i]
         /\ Append(s, e)[Len(s) + 1] = e
  OBVIOUS

LEMMA Rest ==
  ASSUME NEW S, NEW s \in Seq(S), s # <<>>
  PROVE  /\ Head(s) \in S /\ Head(s) = s[1] /\ Tail(s) \in Seq(S) /\ 1 \in DOMAIN s
         /\ Len(s) \in Nat \ {0} /\ DOMAIN s = 1 .. Len(s) /\ DOMAIN Tail(s) = 1 .. Len(s) - 1
         /\ \A i \in 1 .. Len(s) - 1 : Tail(s)[i] = s[i + 1]
  OBVIOUS

(* Headers and what is written. *)
LEMMA Records ==
  /\ \A i, n \in Nat : [tid |-> i, length |-> n] \in Header /\ [tid |-> i, length |-> n] # NoHeader
  /\ \A i \in Nat : {Reply(i), Answer(i), Skipped(i), Result(i), Report(i)} \subseteq Written
  BY DEF Header, NoHeader, Reply, Answer, Skipped, Result, Report, Written

(* Where the unused part of the stream is. *)
LEMMA UsedAt ==
  ASSUME FrameInv
  PROVE  /\ Count \in 0 .. Frames /\ Start[Count + 1] \in Nat
         /\ Used \in Nat /\ arrived \in Nat /\ Used <= arrived
         /\ arrived <= Start[Frames + 1] /\ Start[Frames + 1] \in Nat
         /\ received_header = NoHeader => Used = Start[Count + 1]
         /\ received_header # NoHeader => Used = Start[Count + 1] + HeaderSize
<1>1. Count \in 0 .. Frames /\ Count + 1 \in 1 .. Frames + 1 /\ Frames + 1 \in 1 .. Frames + 1
  BY Starts DEF FrameInv, TypeOK, Aligned, Count
<1>2. Start[Count + 1] \in Nat /\ Start[Frames + 1] \in Nat
  BY <1>1, Starts
<1>3. Used \in Nat /\ Used <= arrived
  BY <1>2, Starts DEF Used, FrameInv, Aligned
<1>4. arrived \in Nat /\ arrived <= Start[Frames + 1]
  BY <1>2 DEF FrameInv, TypeOK
<1> QED
  BY <1>1, <1>2, <1>3, <1>4 DEF Used

LEMMA FrameInit == Init => FrameInv
<1> SUFFICES ASSUME Init PROVE FrameInv
  OBVIOUS
<1> USE DEF Init
<1>1. Start[1] = 0 /\ Start[Frames + 1] \in Nat /\ HeaderSize \in Nat \ {0} /\ Frames \in Nat
  BY Starts, StartAssumption
<1>2. Count = 0 /\ Used = 0
  BY <1>1 DEF Count, Used
<1>3. TypeOK
  <2>1. /\ <<>> \in Seq(Nat) /\ <<>> \in Seq([tid : Nat, body : Seq(Nat)])
        /\ <<>> \in Seq(Written) /\ {} \subseteq Tid
        /\ NoWords \in [last_tid : 0 .. Frames, synced : BOOLEAN] /\ 0 \in 0 .. MaxSyncs
    BY <1>1, HeaderAssumption DEF NoWords
  <2>2. 0 \in 0 .. Start[Frames + 1]
    BY <1>1
  <2> QED
    BY <2>1, <2>2 DEF TypeOK
<1>4. Bytes(0, 0) = <<>>
  <2>1. Bytes(0, 0) \in Seq(Nat) /\ Len(Bytes(0, 0)) = 0
    BY BytesSeq
  <2> QED
    BY <2>1
<1>5. Aligned /\ Drained
  BY <1>1, <1>2, <1>4 DEF Aligned, Drained
<1>6. FramesAsSent
  BY <1>1 DEF FramesAsSent
<1> QED
  BY <1>3, <1>5, <1>6 DEF FrameInv

(* More of the stream arrives. *)
LEMMA FrameData == ASSUME FrameInv, Data PROVE FrameInv'
<1> USE DEF Data, FrameInv
<1>1. PICK to \in arrived + 1 .. Start[Frames + 1] :
        arrived' = to /\ recv_buffer' = recv_buffer \o Bytes(arrived, to)
  OBVIOUS
<1>2. Used \in Nat /\ arrived \in Nat /\ Used <= arrived /\ to \in Nat /\ arrived <= to
      /\ Start[Frames + 1] \in Nat
  BY <1>1, UsedAt
<1>3. recv_buffer' = Bytes(Used, to) /\ Bytes(Used, to) \in Seq(Nat)
  <2>1. recv_buffer = Bytes(Used, arrived)
    BY DEF Aligned
  <2>2. Used <= to
    BY <1>2
  <2> QED
    BY <1>1, <1>2, <2>1, <2>2, BytesJoin, BytesSeq
<1>4. Used' = Used /\ Count' = Count
  BY DEF Used, Count
<1>5. TypeOK'
  BY <1>1, <1>2, <1>3 DEF TypeOK, answer_vars, promise_vars
<1>6. Aligned'
  BY <1>1, <1>2, <1>3, <1>4 DEF Aligned
<1> QED
  BY <1>5, <1>6 DEF Drained, FramesAsSent

(* A header is complete. *)
LEMMA FrameHeader == ASSUME FrameInv, ReadHeader PROVE FrameInv'
<1> USE DEF FrameInv
<1> DEFINE n == Count + 1
<1>1. /\ Used = Start[n] /\ Start[n] \in Nat /\ arrived \in Nat /\ Used <= arrived
      /\ recv_buffer = Bytes(Start[n], arrived) /\ parsing
  BY UsedAt DEF ReadHeader, Aligned
<1>2. Len(recv_buffer) = arrived - Start[n] /\ Start[n] + HeaderSize <= arrived
  <2>1. Len(recv_buffer) = arrived - Start[n]
    BY <1>1, BytesSeq
  <2>2. Len(recv_buffer) >= HeaderSize
    BY DEF ReadHeader
  <2> QED
    BY <1>1, <2>1, <2>2, HeaderAssumption
<1>3. n \in Tid /\ Count < Frames
  <2>1. Count \in 0 .. Frames /\ arrived <= Start[Frames + 1] /\ Frames \in Nat
    BY UsedAt, Starts
  <2>2. Count # Frames
    BY <1>1, <1>2, <2>1, Starts
  <2> QED
    BY <2>1, <2>2 DEF Tid
<1>4. recv_buffer[1] = Start[n] + 1
  <2>1. Start[n] <= arrived /\ 1 \in 1 .. arrived - Start[n]
    BY <1>1, <1>2, HeaderAssumption
  <2> QED
    BY <1>1, <2>1, BytesSeq
<1>5. received_header' = [tid |-> n, length |-> Length[n]] /\ Length[n] \in Nat /\ n \in Nat
  BY <1>3, <1>4, HeaderAt, Starts DEF ReadHeader, Tid
<1>6. received_header' \in Header /\ received_header' # NoHeader
  BY <1>5, Records
<1>7. Count' = Count /\ Used' = Start[n] + HeaderSize
  BY <1>6 DEF ReadHeader, Used, Count
<1>8. recv_buffer' = Bytes(Start[n] + HeaderSize, arrived)
  <2>1. recv_buffer' = SubSeq(recv_buffer, HeaderSize + 1, Len(recv_buffer))
    BY DEF ReadHeader
  <2> QED
    BY <1>1, <1>2, <2>1, HeaderAssumption, BytesCut
<1>9. recv_buffer' \in Seq(Nat)
  <2>1. Start[n] + HeaderSize \in Nat
    BY <1>1, HeaderAssumption
  <2>2. Bytes(Start[n] + HeaderSize, arrived) \in Seq(Nat)
    BY <1>1, <1>2, <2>1, BytesSeq
  <2> QED
    BY <1>8, <2>2
<1>10. UNCHANGED <<open, arrived, parsing, authed, handled, shadow_words, promised, syncs,
                   invoke_queue, written>>
  BY DEF ReadHeader, answer_vars, promise_vars
<1>11. Aligned'
  BY <1>2, <1>3, <1>5, <1>7, <1>8, <1>10 DEF Aligned
<1>12. TypeOK' /\ Drained' /\ FramesAsSent'
  <2>1. TypeOK'
    BY <1>6, <1>9, <1>10 DEF TypeOK
  <2>2. parsing'
    BY <1>1, <1>10
  <2>3. FramesAsSent'
    BY <1>10 DEF FramesAsSent
  <2> QED
    BY <2>1, <2>2, <2>3 DEF Drained
<1> QED
  BY <1>11, <1>12

(* What is sent at a synchronisation, for any order of the grammars. *)
LEMMA OrderedAnswers ==
  ASSUME NEW waiting \in SUBSET Tid, NEW order \in SetToSeqs(waiting)
  PROVE  LET s == [k \in DOMAIN order |-> Answer(order[k])]
         IN  /\ s \in Seq(Written)
             /\ \A k \in DOMAIN s : order[k] \in waiting /\ s[k] = Answer(order[k])
             /\ \A k, l \in DOMAIN s : k # l => order[k] # order[l]
<1> DEFINE c == Cardinality(waiting)
           s == [k \in DOMAIN order |-> Answer(order[k])]
<1>1. c \in Nat
  <2>1. IsFiniteSet(Tid)
    BY HeaderAssumption, FS_Interval DEF Tid
  <2>2. IsFiniteSet(waiting)
    BY <2>1, FS_Subset
  <2> QED
    BY <2>2, FS_CardinalityType
<1>2. /\ order \in [1 .. c -> waiting]
      /\ \A k, l \in 1 .. c : k # l => order[k] # order[l]
  BY DEF SetToSeqs
<1> HIDE DEF c
<1>3. \A i \in waiting : Answer(i) \in Written
  BY Records, Starts DEF Tid
<1>4. s \in [1 .. c -> Written]
  BY <1>2, <1>3
<1>5. s \in Seq(Written) /\ DOMAIN s = 1 .. c
  BY <1>1, <1>4
<1> QED
  BY <1>2, <1>5

LEMMA SyncTypes ==
  ASSUME TypeOK, NEW waiting \in SUBSET Tid, NEW answers \in SyncAnswers(waiting)
  PROVE  answers \in Seq(Written)
<1> DEFINE words == IF shadow_words.last_tid = 0 THEN <<>> ELSE <<Result(shadow_words.last_tid)>>
<1>1. PICK order \in SetToSeqs(waiting) : answers = words \o [k \in DOMAIN order |-> Answer(order[k])]
  BY DEF SyncAnswers
<1>2. Result(shadow_words.last_tid) \in Written
  BY Records, Starts DEF TypeOK
<1>3. words \in Seq(Written)
  BY <1>2
<1> HIDE DEF words
<1>4. [k \in DOMAIN order |-> Answer(order[k])] \in Seq(Written)
  BY OrderedAnswers
<1> QED
  BY <1>1, <1>3, <1>4

LEMMA Single == ASSUME NEW i \in Nat
                PROVE  /\ <<Answer(i)>> \in Seq(Written) /\ <<Skipped(i)>> \in Seq(Written)
                       /\ <<Report(i)>> \in Seq(Written) /\ <<>> \in Seq(Written)
  BY Records

(* The update that a g.set replaces, if there is one. *)
LEMMA OlderTypes ==
  ASSUME TypeOK, NEW older \in {<<>>} \cup {<<j>> : j \in WaitingGrammars}
  PROVE  LET s == [k \in DOMAIN older |-> Answer(older[k])]
         IN  /\ ToSet(older) \subseteq WaitingGrammars
             /\ s \in Seq(Written)
             /\ \/ older = <<>> /\ s = <<>> /\ ToSet(older) = {}
                \/ \E j \in WaitingGrammars : s = <<Answer(j)>> /\ ToSet(older) = {j}
<1>1. CASE older = <<>>
  BY <1>1 DEF ToSet
<1>2. ASSUME NEW j \in WaitingGrammars, older = <<j>>
      PROVE  /\ [k \in DOMAIN older |-> Answer(older[k])] = <<Answer(j)>>
             /\ ToSet(older) = {j} /\ <<Answer(j)>> \in Seq(Written)
  <2>1. j \in Nat
    BY Starts DEF WaitingGrammars, TypeOK, Tid
  <2> QED
    BY <1>2, <2>1, Single DEF ToSet
<1> QED
  BY <1>1, <1>2

(* What handleMessage leaves. *)
LEMMA HandleTypes ==
  ASSUME TypeOK, NEW i \in Tid, NEW body \in Seq(Nat), Handle(i, body)
  PROVE  /\ authed' \in BOOLEAN /\ promised' \subseteq Tid /\ syncs' \in 0 .. MaxSyncs
         /\ shadow_words' \in [last_tid : 0 .. Frames, synced : BOOLEAN]
         /\ invoke_queue' \in Seq(Written) /\ written' \in Seq(Written)
<1>1. /\ invoke_queue \in Seq(Written) /\ written \in Seq(Written) /\ promised \subseteq Tid
      /\ authed \in BOOLEAN /\ syncs \in 0 .. MaxSyncs /\ WaitingGrammars \subseteq Tid
      /\ shadow_words \in [last_tid : 0 .. Frames, synced : BOOLEAN]
      /\ i \in Nat /\ i \in 0 .. Frames
  <2>1. i \in Nat /\ i \in 0 .. Frames
    BY Starts DEF Tid
  <2>2. promised \subseteq Tid /\ WaitingGrammars \subseteq Tid
    BY DEF TypeOK, WaitingGrammars
  <2> QED
    BY <2>1, <2>2 DEF TypeOK
<1>2. /\ Append(written, Reply(i)) \in Seq(Written)
      /\ Append(invoke_queue, Report(i)) \in Seq(Written)
      /\ <<Report(i)>> \in Seq(Written)
      /\ [last_tid |-> i, synced |-> FALSE] \in [last_tid : 0 .. Frames, synced : BOOLEAN]
      /\ [shadow_words EXCEPT !.synced = TRUE] \in [last_tid : 0 .. Frames, synced : BOOLEAN]
  <2>1. /\ [last_tid |-> i, synced |-> FALSE] \in [last_tid : 0 .. Frames, synced : BOOLEAN]
        /\ [shadow_words EXCEPT !.synced = TRUE] \in [last_tid : 0 .. Frames, synced : BOOLEAN]
    BY <1>1
  <2>2. Reply(i) \in Written /\ Report(i) \in Written
    BY <1>1, Records
  <2> QED
    BY <1>1, <2>1, <2>2, Appended
<1>3. CASE authed
  <2>0. UNCHANGED authed /\ HandleCommand(i, KindOf(i, body))
    BY <1>3 DEF Handle, HandleCommand
  <2>1. CASE ReplyNow(i, KindOf(i, body))
    BY <1>1, <1>2, <2>0, <2>1 DEF ReplyNow, promise_vars
  <2>2. CASE SetWords(i)
    <3> DEFINE older == IF shadow_words.synced THEN <<>> ELSE <<Skipped(shadow_words.last_tid)>>
    <3>1. older \in Seq(Written)
      <4>1. shadow_words.last_tid \in Nat
        BY <1>1, Starts
      <4> QED
        BY <4>1, Single
    <3>2. /\ invoke_queue' = invoke_queue \o older \o <<Report(i)>>
          /\ shadow_words' = [last_tid |-> i, synced |-> FALSE]
          /\ UNCHANGED <<promised, syncs, written>>
      BY <2>2 DEF SetWords
    <3> HIDE DEF older
    <3>3. invoke_queue \o older \in Seq(Written)
      BY <1>1, <3>1
    <3> QED
      BY <1>1, <1>2, <2>0, <3>2, <3>3
  <2>3. CASE SetGrammar(i)
    <3>1. PICK older \in {<<>>} \cup {<<j>> : j \in WaitingGrammars} :
            LET skipped == [k \in DOMAIN older |-> Answer(older[k])]
                waiting == (WaitingGrammars \ ToSet(older)) \cup {i}
            IN  /\ \/ /\ invoke_queue' = invoke_queue \o skipped \o <<Report(i)>>
                      /\ promised' = (promised \ ToSet(older)) \cup {i}
                      /\ UNCHANGED <<shadow_words, syncs>>
                   \/ /\ syncs < MaxSyncs
                      /\ \E answers \in SyncAnswers(waiting) :
                           invoke_queue' = invoke_queue \o skipped \o answers \o <<Report(i)>>
                      /\ promised' = promised \ WaitingGrammars
                      /\ shadow_words' = [shadow_words EXCEPT !.synced = TRUE]
                      /\ syncs' = syncs + 1
                /\ UNCHANGED written
      BY <2>3 DEF SetGrammar
    <3> DEFINE skipped == [k \in DOMAIN older |-> Answer(older[k])]
               waiting == (WaitingGrammars \ ToSet(older)) \cup {i}
    <3>2. skipped \in Seq(Written)
      BY OlderTypes
    <3>3. waiting \in SUBSET Tid
      BY <1>1
    <3>4. \A answers \in SyncAnswers(waiting) : answers \in Seq(Written)
      BY <3>3, SyncTypes
    <3>5. /\ written' = written
          /\ \/ /\ invoke_queue' = invoke_queue \o skipped \o <<Report(i)>>
                /\ promised' = (promised \ ToSet(older)) \cup {i}
                /\ UNCHANGED <<shadow_words, syncs>>
             \/ /\ syncs < MaxSyncs
                /\ \E answers \in SyncAnswers(waiting) :
                     invoke_queue' = invoke_queue \o skipped \o answers \o <<Report(i)>>
                /\ promised' = promised \ WaitingGrammars
                /\ shadow_words' = [shadow_words EXCEPT !.synced = TRUE]
                /\ syncs' = syncs + 1
      BY <3>1
    <3> HIDE DEF skipped, waiting
    <3>6. invoke_queue \o skipped \in Seq(Written)
      BY <1>1, <3>2
    <3>7. \A answers \in SyncAnswers(waiting) : invoke_queue \o skipped \o answers \in Seq(Written)
      BY <3>4, <3>6
    <3>8. invoke_queue' \in Seq(Written)
      <4>1. \E s \in Seq(Written) : invoke_queue' = s \o <<Report(i)>>
        BY <3>5, <3>6, <3>7
      <4> QED
        BY <1>2, <4>1
    <3>9. promised' \subseteq Tid
      BY <1>1, <3>5
    <3>10. syncs' \in 0 .. MaxSyncs
      BY <1>1, <3>5, HeaderAssumption
    <3> QED
      BY <1>1, <1>2, <2>0, <3>5, <3>8, <3>9, <3>10
  <2>4. CASE Mimic(i)
    BY <1>1, <1>2, <2>0, <2>4 DEF Mimic
  <2> QED
    BY <2>0, <2>1, <2>2, <2>3, <2>4 DEF HandleCommand
<1>4. CASE ~authed
  <2>1. authed' \in BOOLEAN
    BY <1>4, Zenon DEF Handle, HandleAuth
  <2> QED
    BY <1>1, <1>2, <1>4, <2>1 DEF Handle, HandleAuth, promise_vars
<1> QED
  BY <1>3, <1>4

(* The message that is handled is the next one. *)
LEMMA NextMessage ==
  ASSUME FrameInv, HandleMessage
  PROVE  LET n == Count + 1
             body == Bytes(Start[n] + HeaderSize, Start[n + 1])
         IN  /\ n \in Tid /\ n \in Nat /\ body \in Seq(Nat)
             /\ Handle(n, body) /\ received_header' = NoHeader
             /\ Start[n + 1] \in Nat /\ Start[n + 1] <= arrived /\ arrived \in Nat
             /\ recv_buffer' = Bytes(Start[n + 1], arrived) /\ recv_buffer' \in Seq(Nat)
             /\ parsing /\ UNCHANGED <<open, arrived, parsing>>
<1> USE DEF FrameInv
<1> DEFINE n == Count + 1
           from == Start[n] + HeaderSize
<1>1. /\ received_header = [tid |-> n, length |-> Length[n]] /\ Count < Frames
      /\ received_header' = NoHeader /\ parsing /\ UNCHANGED <<open, arrived, parsing>>
      /\ received_header # NoHeader
  BY DEF HandleMessage, Aligned
<1>2. n \in Tid /\ n \in Nat
  BY <1>1, UsedAt, Starts DEF Tid
<1>3. /\ Start[n + 1] = from + Length[n] /\ Start[n + 1] \in Nat
      /\ Length[n] \in Nat /\ from \in Nat /\ from <= Start[n + 1]
  BY <1>2, UsedAt, Starts
<1>4. recv_buffer = Bytes(from, arrived) /\ from <= arrived /\ arrived \in Nat
  BY <1>1, UsedAt DEF Aligned
<1> HIDE DEF n, from
<1>5. Len(recv_buffer) = arrived - from /\ Length[n] <= Len(recv_buffer)
  BY <1>1, <1>3, <1>4, BytesSeq DEF HandleMessage
<1>6. from + Length[n] <= arrived
  BY <1>3, <1>4, <1>5
<1>7. /\ SubSeq(recv_buffer, 1, Length[n]) = Bytes(from, Start[n + 1])
      /\ SubSeq(recv_buffer, Length[n] + 1, Len(recv_buffer)) = Bytes(Start[n + 1], arrived)
  <2>1. recv_buffer = Bytes(from, arrived) /\ Start[n + 1] = from + Length[n]
    BY <1>3, <1>4
  <2>2. from \in Nat /\ arrived \in Nat /\ Length[n] \in Nat
    BY <1>3, <1>4
  <2>3. /\ SubSeq(Bytes(from, arrived), 1, Length[n]) = Bytes(from, from + Length[n])
        /\ SubSeq(Bytes(from, arrived), Length[n] + 1, Len(Bytes(from, arrived)))
             = Bytes(from + Length[n], arrived)
    BY <1>6, <2>2, BytesCut
  <2> QED
    BY <2>1, <2>3
<1>8. Bytes(from, Start[n + 1]) \in Seq(Nat) /\ Bytes(Start[n + 1], arrived) \in Seq(Nat)
  BY <1>3, <1>4, <1>6, BytesSeq
<1>9. /\ Handle(n, SubSeq(recv_buffer, 1, Length[n]))
      /\ recv_buffer' = SubSeq(recv_buffer, Length[n] + 1, Len(recv_buffer))
  BY <1>1 DEF HandleMessage
<1> QED
  BY <1>1, <1>2, <1>3, <1>4, <1>6, <1>7, <1>8, <1>9 DEF n, from

LEMMA FrameHandle == ASSUME FrameInv, HandleMessage PROVE FrameInv'
<1> DEFINE n == Count + 1
           body == Bytes(Start[n] + HeaderSize, Start[n + 1])
           message == [tid |-> n, body |-> body]
<1>1. /\ n \in Tid /\ n \in Nat /\ body \in Seq(Nat)
      /\ Handle(n, body) /\ received_header' = NoHeader
      /\ Start[n + 1] \in Nat /\ Start[n + 1] <= arrived /\ arrived \in Nat
      /\ recv_buffer' = Bytes(Start[n + 1], arrived) /\ recv_buffer' \in Seq(Nat)
      /\ parsing /\ UNCHANGED <<open, arrived, parsing>>
  BY NextMessage
<1>2. handled' = Append(handled, message) /\ message \in [tid : Nat, body : Seq(Nat)]
  BY <1>1 DEF Handle
<1>3. /\ handled' \in Seq([tid : Nat, body : Seq(Nat)])
      /\ Len(handled') = n /\ DOMAIN handled' = 1 .. n /\ DOMAIN handled = 1 .. Len(handled)
      /\ \A i \in 1 .. Len(handled) : handled'[i] = handled[i]
      /\ handled'[n] = message
  BY <1>2, Appended DEF FrameInv, TypeOK, Count
<1>4. /\ authed' \in BOOLEAN /\ promised' \subseteq Tid /\ syncs' \in 0 .. MaxSyncs
      /\ shadow_words' \in [last_tid : 0 .. Frames, synced : BOOLEAN]
      /\ invoke_queue' \in Seq(Written) /\ written' \in Seq(Written)
  BY <1>1, HandleTypes DEF FrameInv
<1>5. TypeOK'
  BY <1>1, <1>3, <1>4 DEF FrameInv, TypeOK
<1>6. Count' = n /\ Used' = Start[n + 1]
  BY <1>1, <1>3 DEF Count, Used
<1>7. Aligned'
  BY <1>1, <1>6, Starts DEF Aligned, Tid
<1>8. FramesAsSent'
  <2> SUFFICES ASSUME NEW i \in 1 .. n
               PROVE  handled'[i] = [tid |-> i, body |-> Bytes(Start[i] + HeaderSize, Start[i + 1])]
    <3>1. Len(handled') <= Frames
      BY <1>1, <1>3, HeaderAssumption DEF Tid
    <3> QED
      BY <1>3, <3>1 DEF FramesAsSent
  <2>1. CASE i = n
    BY <1>3, <2>1
  <2>2. CASE i # n
    <3>1. i \in 1 .. Len(handled)
      BY <1>1, <2>2 DEF Count
    <3> QED
      BY <1>3, <3>1 DEF FrameInv, FramesAsSent
  <2> QED
    BY <2>1, <2>2
<1>9. Drained'
  BY <1>1 DEF Drained
<1> QED
  BY <1>5, <1>7, <1>8, <1>9 DEF FrameInv

(* The loop ends, writes are made, promises kept, the connection closed.   *)
Elsewhere ==
  Break \/ RunQueue \/ Close \/ Synchronise \/ \E i \in Tid : Replace(i) \/ MimicDone(i)

LEMMA FrameElse ==
  ASSUME FrameInv, Elsewhere
  PROVE  FrameInv'
<1> USE DEF FrameInv
<1>1. UNCHANGED <<arrived, recv_buffer, received_header, handled>>
  BY DEF Elsewhere, Break, RunQueue, Close, Synchronise, Replace, MimicDone, reader_vars
<1>2. Count' = Count /\ Used' = Used
  BY <1>1 DEF Count, Used
<1>3. Aligned' /\ FramesAsSent'
  BY <1>1, <1>2 DEF Aligned, FramesAsSent
<1>4. Drained'
  <2>1. CASE Break
    <3>1. Len(recv_buffer) = arrived - Used
      BY UsedAt, BytesSeq DEF Aligned
    <3>2. received_header # NoHeader => received_header.length = Length[Count + 1]
      BY DEF Aligned
    <3> QED
      BY <1>1, <1>2, <2>1, <3>1, <3>2 DEF Break, Drained
  <2>2. CASE ~Break
    BY <1>1, <1>2, <2>2
      DEF Elsewhere, RunQueue, Close, Synchronise, Replace, MimicDone, reader_vars, Drained
  <2> QED
    BY <2>1, <2>2
<1>5. TypeOK'
  <2>1. CASE Break
    BY <2>1 DEF Break, TypeOK, answer_vars, promise_vars
  <2>2. CASE Close
    BY <2>2, Starts DEF Close, TypeOK, NoWords
  <2>3. CASE RunQueue
    <3>1. /\ Head(invoke_queue) \in Written /\ Tail(invoke_queue) \in Seq(Written)
          /\ Append(written, Head(invoke_queue)) \in Seq(Written)
      BY <2>3, Rest, Appended DEF RunQueue, TypeOK
    <3> QED
      BY <2>3, <3>1 DEF RunQueue, TypeOK, reader_vars, promise_vars
  <2>4. CASE Synchronise
    <3>1. WaitingGrammars \in SUBSET Tid
      BY DEF WaitingGrammars, TypeOK
    <3>2. PICK answers \in SyncAnswers(WaitingGrammars) : invoke_queue' = invoke_queue \o answers
      BY <2>4 DEF Synchronise
    <3>3. answers \in Seq(Written)
      BY <3>1, SyncTypes
    <3>4. invoke_queue' \in Seq(Written)
      BY <3>2, <3>3 DEF TypeOK
    <3>5. syncs' \in 0 .. MaxSyncs
      BY <2>4, HeaderAssumption DEF Synchronise, TypeOK
    <3> QED
      BY <2>4, <3>4, <3>5 DEF Synchronise, TypeOK, reader_vars
  <2>5. ASSUME NEW i \in Tid, Replace(i) \/ MimicDone(i) PROVE TypeOK'
    <3>1. Append(invoke_queue, Answer(i)) \in Seq(Written)
      BY Records, Appended, Starts DEF TypeOK, Tid
    <3> QED
      BY <2>5, <3>1 DEF Replace, MimicDone, TypeOK, reader_vars
  <2> QED
    BY <2>1, <2>2, <2>3, <2>4, <2>5 DEF Elsewhere
<1> QED
  BY <1>3, <1>4, <1>5

(* The buffer holds the stream from where a message or its body begins.    *)
THEOREM FrameInvariant == Spec => []FrameInv
<1>1. FrameInv /\ [Next]_vars => FrameInv'
  <2> SUFFICES ASSUME FrameInv, [Next]_vars PROVE FrameInv'
    OBVIOUS
  <2>1. CASE UNCHANGED vars
    BY <2>1 DEF vars, reader_vars, answer_vars, promise_vars,
                FrameInv, TypeOK, Aligned, Drained, FramesAsSent, Used, Count
  <2> QED
    BY <2>1, FrameData, FrameHeader, FrameHandle, FrameElse DEF Next, Elsewhere
<1> QED
  BY <1>1, FrameInit, PTL DEF Spec

(* Messages reach handleMessage as they were sent. *)
THEOREM FramesAsSentHolds == Spec => []FramesAsSent
<1>1. FrameInv => FramesAsSent
  BY DEF FrameInv
<1> QED
  BY <1>1, FrameInvariant, PTL

(* No message that has arrived is left in the buffer. *)
THEOREM NothingHeldBackHolds == Spec => []NothingHeldBack
<1>1. FrameInv => NothingHeldBack
  <2> SUFFICES ASSUME FrameInv, ~parsing, NEW i \in Tid, Start[i + 1] <= arrived, i > Count
               PROVE  FALSE
    BY Starts DEF NothingHeldBack, FrameInv, TypeOK, Count, Tid
  <2> DEFINE n == Count + 1
  <2>1. n \in Tid /\ i \in 1 .. Frames /\ n <= i
    BY UsedAt, Starts DEF Tid
  <2>2. Start[n + 1] <= Start[i + 1]
    <3>1. n + 1 \in 1 .. Frames + 1 /\ i + 1 \in 1 .. Frames + 1 /\ (n = i \/ n + 1 < i + 1)
      BY <2>1, HeaderAssumption DEF Tid
    <3> QED
      BY <3>1, Starts, StartAssumption
  <2>3. Start[n + 1] = Start[n] + HeaderSize + Length[n] /\ Length[n] \in Nat
    BY <2>1, Starts
  <2>4. Start[n] \in Nat /\ Start[n + 1] \in Nat /\ Start[i + 1] \in Nat
    BY <2>1, Starts DEF Tid
  <2> QED
    BY <2>2, <2>3, <2>4, UsedAt, Starts DEF FrameInv, Drained
<1> QED
  BY <1>1, FrameInvariant, PTL

----------------------------------------------------------------------------
(* What is written.  The conditions on what has been written (w), what is  *)
(* queued (q) and what is promised (p) after n messages, and how the       *)
(* pieces of a step keep them.                                             *)

In(s) == {s[k] : k \in DOMAIN s}

IsAnswer(m) == m.what # "report"

IsWords(m) == m.what \in {"skipped", "result"}

(* Whether message m may be written before message l. *)
Before(m, l) ==
  /\ m.what = l.what /\ m.what \in {"reply", "report"} => m.tid < l.tid
  /\ m.what = "report" /\ l.what = "reply" => m.tid # l.tid
  /\ IsAnswer(m) /\ IsAnswer(l) /\ m.tid = l.tid => m.what = "result" /\ l.what = "result"
  /\ IsWords(m) /\ IsWords(l) => m.tid <= l.tid

Sorted(s) == \A k, l \in DOMAIN s : k < l => Before(s[k], s[l])

Told(w, q, p, n) ==
  /\ w \in Seq(Written) /\ q \in Seq(Written)
  /\ Sorted(w) /\ Sorted(q)
  /\ \A m \in In(w) : m.tid <= n
  /\ \A m \in In(q) : m.tid <= n /\ m.what # "reply"
  /\ \A m \in In(w), l \in In(q) : Before(m, l)
  /\ \A i \in p : i <= n /\ \A m \in In(w) \cup In(q) : IsAnswer(m) => m.tid # i

(* What the messages sent say of the last w.set, t.  One that has not been *)
(* synchronised has had no answer.                                         *)
LastWords(messages, p, t, synced, there) ==
  /\ t \notin p
  /\ \A m \in messages :
       /\ IsWords(m) => m.tid <= t
       /\ t # 0 /\ IsAnswer(m) /\ m.tid = t => m.what = "result"
  /\ ~synced => t # 0 /\ (there => \A m \in messages : IsAnswer(m) => m.tid # t)

(* Answers to the requests in A, and results of the w.set t. *)
Late(s, A, t) ==
  /\ s \in Seq(Written) /\ Sorted(s)
  /\ \A e \in In(s) : \/ e.what = "answer" /\ e.tid \in A
                      \/ e.what = "result" /\ e.tid = t /\ t # 0

AllAnswers(s) == \A e \in In(s) : e.what = "answer"

(* Messages m may still be told in s, after n messages and the messages M. *)
MaySend(M, s, p, n) ==
  /\ s \in Seq(Written) /\ Sorted(s)
  /\ \A e \in In(s) : e.tid <= n /\ e.what # "reply" /\ (IsAnswer(e) => e.tid \notin p)
  /\ \A m \in M, e \in In(s) : Before(m, e)

(* No message of M is about message n or a later one, or none is its report. *)
Earlier(M, n) == \A m \in M : m.tid \in Nat /\ m.tid < n

Unreported(M, n) == \A m \in M : m.what = "report" => m.tid < n

LEMMA AppendIn ==
  ASSUME NEW s \in Seq(Written), NEW e \in Written
  PROVE  /\ Append(s, e) \in Seq(Written) /\ In(Append(s, e)) = In(s) \cup {e}
         /\ In(s) \subseteq Written
         /\ Sorted(s) /\ (\A m \in In(s) : Before(m, e)) => Sorted(Append(s, e))
<1>1. /\ Append(s, e) \in Seq(Written) /\ Len(s) \in Nat
      /\ DOMAIN Append(s, e) = 1 .. Len(s) + 1 /\ DOMAIN s = 1 .. Len(s)
      /\ \A i \in 1 .. Len(s) : Append(s, e)[i] = s[i]
      /\ Append(s, e)[Len(s) + 1] = e
  BY Appended
<1>2. In(s) \subseteq Written
  BY DEF In
<1>3. In(Append(s, e)) = In(s) \cup {e}
  BY <1>1 DEF In
<1>4. ASSUME Sorted(s), \A m \in In(s) : Before(m, e),
             NEW k \in 1 .. Len(s) + 1, NEW l \in 1 .. Len(s) + 1, k < l
      PROVE  Before(Append(s, e)[k], Append(s, e)[l])
  <2>1. k \in 1 .. Len(s)
    BY <1>1, <1>4
  <2>2. CASE l = Len(s) + 1
    BY <1>1, <1>4, <2>1, <2>2 DEF In
  <2>3. CASE l \in 1 .. Len(s)
    BY <1>1, <1>4, <2>1, <2>3 DEF Sorted
  <2> QED
    BY <1>1, <2>2, <2>3
<1> QED
  BY <1>1, <1>2, <1>3, <1>4 DEF Sorted

LEMMA TailIn ==
  ASSUME NEW s \in Seq(Written), s # <<>>
  PROVE  /\ Head(s) \in Written /\ Head(s) \in In(s) /\ In(s) \subseteq Written
         /\ Tail(s) \in Seq(Written) /\ In(Tail(s)) \subseteq In(s)
         /\ Sorted(s) => Sorted(Tail(s)) /\ \A m \in In(Tail(s)) : Before(Head(s), m)
<1>1. /\ Head(s) \in Written /\ Head(s) = s[1] /\ Tail(s) \in Seq(Written) /\ 1 \in DOMAIN s
      /\ Len(s) \in Nat \ {0} /\ DOMAIN s = 1 .. Len(s) /\ DOMAIN Tail(s) = 1 .. Len(s) - 1
      /\ \A i \in 1 .. Len(s) - 1 : Tail(s)[i] = s[i + 1]
  BY Rest
<1>2. \A i \in DOMAIN Tail(s) : i + 1 \in DOMAIN s /\ 1 < i + 1 /\ Tail(s)[i] = s[i + 1]
  BY <1>1
<1>3. Head(s) \in In(s) /\ In(s) \subseteq Written /\ In(Tail(s)) \subseteq In(s)
  BY <1>1, <1>2 DEF In
<1>4. ASSUME Sorted(s) PROVE Sorted(Tail(s)) /\ \A m \in In(Tail(s)) : Before(Head(s), m)
  <2>1. \A k, l \in DOMAIN Tail(s) : k < l => k + 1 < l + 1
    BY <1>1
  <2>2. Sorted(Tail(s))
    BY <1>2, <1>4, <2>1 DEF Sorted
  <2>3. \A m \in In(Tail(s)) : Before(Head(s), m)
    BY <1>1, <1>2, <1>4 DEF Sorted, In
  <2> QED
    BY <2>2, <2>3
<1> QED
  BY <1>1, <1>3, <1>4

LEMMA ConcatIn ==
  ASSUME NEW s \in Seq(Written), NEW u \in Seq(Written)
  PROVE  /\ s \o u \in Seq(Written) /\ In(s \o u) = In(s) \cup In(u)
         /\ Sorted(s) /\ Sorted(u) /\ (\A m \in In(s), l \in In(u) : Before(m, l))
              => Sorted(s \o u)
<1> DEFINE both == s \o u
<1>1. /\ both \in Seq(Written)
      /\ Len(s) \in Nat /\ Len(u) \in Nat /\ DOMAIN both = 1 .. Len(s) + Len(u)
      /\ DOMAIN s = 1 .. Len(s) /\ DOMAIN u = 1 .. Len(u)
      /\ \A k \in 1 .. Len(s) + Len(u) :
           both[k] = IF k <= Len(s) THEN s[k] ELSE u[k - Len(s)]
  BY ConcatProperties, LenProperties
<1>2. \A k \in DOMAIN both :
        \/ k \in DOMAIN s /\ both[k] = s[k]
        \/ k - Len(s) \in DOMAIN u /\ both[k] = u[k - Len(s)] /\ k > Len(s)
  BY <1>1
<1>3. /\ \A k \in DOMAIN s : k \in DOMAIN both /\ both[k] = s[k]
      /\ \A k \in DOMAIN u : k + Len(s) \in DOMAIN both /\ both[k + Len(s)] = u[k]
  BY <1>1
<1> HIDE DEF both
<1>4. In(both) = In(s) \cup In(u)
  BY <1>2, <1>3 DEF In
<1>5. ASSUME Sorted(s), Sorted(u), \A m \in In(s), l \in In(u) : Before(m, l),
             NEW k \in DOMAIN both, NEW l \in DOMAIN both, k < l
      PROVE  Before(both[k], both[l])
  <2>1. CASE k \in DOMAIN s /\ both[k] = s[k] /\ l \in DOMAIN s /\ both[l] = s[l]
    BY <1>5, <2>1 DEF Sorted
  <2>2. CASE k \in DOMAIN s /\ both[k] = s[k] /\ l - Len(s) \in DOMAIN u /\ both[l] = u[l - Len(s)]
    BY <1>5, <2>2 DEF In
  <2>3. CASE /\ k - Len(s) \in DOMAIN u /\ both[k] = u[k - Len(s)]
             /\ l - Len(s) \in DOMAIN u /\ both[l] = u[l - Len(s)]
    <3>1. k - Len(s) < l - Len(s)
      BY <1>1, <1>5
    <3> QED
      BY <1>5, <2>3, <3>1 DEF Sorted
  <2>4. ~(k > Len(s) /\ l \in DOMAIN s)
    BY <1>1, <1>5
  <2> QED
    BY <1>2, <2>1, <2>2, <2>3, <2>4
<1> QED
  BY <1>1, <1>4, <1>5 DEF Sorted, both

(* A sequence of one message. *)
LEMMA OneIn ==
  ASSUME NEW e \in Written
  PROVE  <<e>> \in Seq(Written) /\ In(<<e>>) = {e} /\ Sorted(<<e>>)
<1>1. DOMAIN <<e>> = {1} /\ <<e>>[1] = e
  OBVIOUS
<1> QED
  BY <1>1 DEF In, Sorted

(* Numbers of messages. *)
LEMMA Tids ==
  /\ \A m \in Written : m.tid \in Nat /\ m.what \in {"reply", "answer", "skipped", "result", "report"}
  /\ \A s \in Seq(Written) : In(s) \subseteq Written
<1>1. \A m \in Written : m.tid \in Nat /\ m.what \in {"reply", "answer", "skipped", "result", "report"}
  BY DEF Written
<1>2. ASSUME NEW s \in Seq(Written) PROVE In(s) \subseteq Written
  BY <1>2 DEF In
<1> QED
  BY <1>1, <1>2

(* A reply to message n is written at once.  *)
LEMMA ToldReply ==
  ASSUME NEW w, NEW q, NEW p \in SUBSET Nat, NEW n \in Nat, Told(w, q, p, n)
  PROVE  /\ Told(Append(w, Reply(n + 1)), q, p, n + 1)
         /\ Unreported(In(Append(w, Reply(n + 1))) \cup In(q), n + 1)
<1> DEFINE r == Reply(n + 1)
<1>1. r \in Written /\ r.what = "reply" /\ r.tid = n + 1
  BY Records DEF Reply
<1> HIDE DEF r
<1>2. /\ w \in Seq(Written) /\ q \in Seq(Written) /\ In(w) \subseteq Written /\ In(q) \subseteq Written
  BY <1>1, AppendIn DEF Told
<1>3. /\ \A m \in In(w) : m.tid \in Nat /\ m.tid < n + 1
      /\ \A m \in In(q) : m.tid \in Nat /\ m.tid < n + 1 /\ m.what # "reply"
  BY <1>2, Tids DEF Told
<1>4. (\A m \in In(w) : Before(m, r)) /\ \A l \in In(q) : Before(r, l)
  BY <1>1, <1>3 DEF Before, IsAnswer, IsWords
<1>5. /\ Append(w, r) \in Seq(Written) /\ In(Append(w, r)) = In(w) \cup {r} /\ Sorted(Append(w, r))
  BY <1>1, <1>2, <1>4, AppendIn DEF Told
<1>6. \A i \in p : i < n + 1
  BY DEF Told
<1>7. Unreported(In(Append(w, r)) \cup In(q), n + 1)
  BY <1>1, <1>3, <1>5 DEF Unreported
<1>8. Told(Append(w, r), q, p, n + 1)
  BY <1>1, <1>2, <1>3, <1>4, <1>5, <1>6 DEF Told
<1> QED
  BY <1>7, <1>8 DEF r

(* Nothing written is about messages to come. *)
LEMMA ToldWiden ==
  ASSUME NEW w, NEW q, NEW p \in SUBSET Nat, NEW n \in Nat, Told(w, q, p, n)
  PROVE  /\ Told(w, q, p, n + 1)
         /\ Earlier(In(w) \cup In(q), n + 1)
<1>1. In(w) \subseteq Written /\ In(q) \subseteq Written
  BY DEF Told, In
<1>2. \A m \in In(w) \cup In(q) : m.tid \in Nat /\ m.tid <= n
  BY <1>1, Tids DEF Told
<1> QED
  BY <1>2 DEF Told, Earlier

(* The first of the queue is written, or dropped. *)
LEMMA ToldHead ==
  ASSUME NEW w, NEW q, NEW p \in SUBSET Nat, NEW n \in Nat, Told(w, q, p, n), q # <<>>
  PROVE  Told(Append(w, Head(q)), Tail(q), p, n) /\ Told(w, Tail(q), p, n)
<1>1. /\ Head(q) \in Written /\ Head(q) \in In(q) /\ Tail(q) \in Seq(Written)
      /\ In(Tail(q)) \subseteq In(q) /\ Sorted(Tail(q))
      /\ \A m \in In(Tail(q)) : Before(Head(q), m)
  BY TailIn DEF Told
<1>2. /\ Append(w, Head(q)) \in Seq(Written) /\ In(Append(w, Head(q))) = In(w) \cup {Head(q)}
      /\ Sorted(Append(w, Head(q)))
  BY <1>1, AppendIn DEF Told
<1>3. Told(w, Tail(q), p, n)
  BY <1>1 DEF Told
<1>4. \A m \in In(Append(w, Head(q))), l \in In(Tail(q)) : Before(m, l)
  BY <1>1, <1>2 DEF Told
<1>5. \A m \in In(Append(w, Head(q))) : m.tid <= n
  BY <1>1, <1>2 DEF Told
<1>6. \A i \in p : i <= n /\ \A m \in In(Append(w, Head(q))) \cup In(Tail(q)) : IsAnswer(m) => m.tid # i
  BY <1>1, <1>2 DEF Told
<1>7. Told(Append(w, Head(q)), Tail(q), p, n)
  BY <1>1, <1>2, <1>4, <1>5, <1>6 DEF Told
<1> QED
  BY <1>3, <1>7

(* More is queued. *)
LEMMA ToldMore ==
  ASSUME NEW w, NEW q, NEW p, NEW n, NEW s,
         Told(w, q, p, n), MaySend(In(w) \cup In(q), s, p, n)
  PROVE  Told(w, q \o s, p, n)
<1>1. q \o s \in Seq(Written) /\ In(q \o s) = In(q) \cup In(s) /\ Sorted(q \o s)
  BY ConcatIn DEF Told, MaySend
<1>2. \A m \in In(w), l \in In(q \o s) : Before(m, l)
  BY <1>1 DEF Told, MaySend
<1>3. \A m \in In(q \o s) : m.tid <= n /\ m.what # "reply"
  BY <1>1 DEF Told, MaySend
<1>4. \A i \in p : i <= n /\ \A m \in In(w) \cup In(q \o s) : IsAnswer(m) => m.tid # i
  BY <1>1 DEF Told, MaySend
<1> QED
  BY <1>1, <1>2, <1>3, <1>4 DEF Told

(* The report of message n is queued. *)
LEMMA ToldReport ==
  ASSUME NEW w, NEW q, NEW p, NEW n \in Nat,
         Told(w, q, p, n), Unreported(In(w) \cup In(q), n)
  PROVE  Told(w, q \o <<Report(n)>>, p, n)
<1> DEFINE r == Report(n)
<1>1. r \in Written /\ r.what = "report" /\ r.tid = n
  BY Records DEF Report
<1> HIDE DEF r
<1>2. \A m \in In(w) \cup In(q) : Before(m, r)
  BY <1>1 DEF Before, IsAnswer, IsWords, Unreported
<1>3. <<r>> \in Seq(Written) /\ In(<<r>>) = {r} /\ Sorted(<<r>>)
  BY <1>1, OneIn
<1>4. \A e \in In(<<r>>) : e.tid <= n /\ e.what # "reply" /\ (IsAnswer(e) => e.tid \notin p)
  BY <1>1, <1>3 DEF IsAnswer
<1>5. MaySend(In(w) \cup In(q), <<r>>, p, n)
  BY <1>2, <1>3, <1>4 DEF MaySend
<1>6. Told(w, q \o <<r>>, p, n)
  BY <1>5, ToldMore
<1> QED
  BY <1>6 DEF r

LEMMA ReportIn ==
  ASSUME NEW q \in Seq(Written), NEW n \in Nat
  PROVE  /\ q \o <<Report(n)>> = Append(q, Report(n))
         /\ In(q \o <<Report(n)>>) = In(q) \cup {Report(n)}
<1>1. Report(n) \in Written
  BY Records
<1>2. <<Report(n)>> \in Seq(Written) /\ In(<<Report(n)>>) = {Report(n)}
  BY <1>1, OneIn
<1>3. In(q \o <<Report(n)>>) = In(q) \cup In(<<Report(n)>>)
  BY <1>2, ConcatIn
<1>4. q \o <<Report(n)>> = Append(q, Report(n))
  BY <1>1
<1> QED
  BY <1>2, <1>3, <1>4

(* Answers promised are sent, and the last w.set has its result again.     *)
LEMMA ToldLate ==
  ASSUME NEW w, NEW q, NEW p, NEW n \in Nat, NEW t \in Nat, NEW synced, NEW there, NEW A, NEW s,
         Told(w, q, p, n), LastWords(In(w) \cup In(q), p, t, synced, there), t <= n,
         A \subseteq p, Late(s, A, t)
  PROVE  Told(w, q \o s, p \ A, n)
<1> DEFINE M == In(w) \cup In(q)
<1>1. s \in Seq(Written) /\ Sorted(s)
  BY DEF Late
<1>2. \A e \in In(s) : e.tid <= n /\ e.what # "reply" /\ (IsAnswer(e) => e.tid \notin p \ A)
  BY DEF Late, LastWords, Told
<1>3. ASSUME NEW m \in M, NEW e \in In(s) PROVE Before(m, e)
  <2>1. CASE e.what = "answer" /\ e.tid \in A
    <3>1. IsAnswer(m) => m.tid # e.tid
      BY <2>1 DEF Told
    <3> QED
      BY <2>1, <3>1 DEF Before, IsWords
  <2>2. CASE e.what = "result" /\ e.tid = t /\ t # 0
    BY <2>2 DEF Before, IsWords, LastWords
  <2> QED
    BY <2>1, <2>2 DEF Late
<1>4. MaySend(M, s, p \ A, n)
  BY <1>1, <1>2, <1>3 DEF MaySend
<1>5. Told(w, q, p \ A, n)
  BY DEF Told
<1> QED
  BY <1>4, <1>5, ToldMore

LEMMA LateWords ==
  ASSUME NEW w, NEW q \in Seq(Written), NEW p, NEW t \in Nat, NEW synced, NEW there, NEW A, NEW s, NEW later,
         LastWords(In(w) \cup In(q), p, t, synced, there), A \subseteq p, Late(s, A, t),
         later \/ (later = synced /\ AllAnswers(s))
  PROVE  LastWords(In(w) \cup In(q \o s), p \ A, t, later, there)
<1>1. In(q \o s) = In(q) \cup In(s)
  BY ConcatIn DEF Late
<1>2. \A m \in In(w) \cup In(q) \cup In(s) :
        /\ IsWords(m) => m.tid <= t
        /\ t # 0 /\ IsAnswer(m) /\ m.tid = t => m.what = "result"
  BY DEF LastWords, Late, IsWords
<1>3. CASE later
  BY <1>1, <1>2, <1>3 DEF LastWords
<1>4. CASE later = synced /\ AllAnswers(s)
  <2>1. \A e \in In(s) : e.tid \in p /\ e.tid # t
    BY <1>4 DEF AllAnswers, Late, LastWords
  <2>2. ~synced => t # 0 /\ (there => \A m \in In(w) \cup In(q) \cup In(s) : IsAnswer(m) => m.tid # t)
    BY <2>1 DEF LastWords
  <2> QED
    BY <1>1, <1>2, <1>4, <2>2 DEF LastWords
<1> QED
  BY <1>3, <1>4

(* What is sent and promised, the w.set last heard, and with the secret,   *)
(* which message it came in.                                               *)
Messages == In(written) \cup In(invoke_queue)

SentInv ==
  /\ Told(written, invoke_queue, promised, Count)
  /\ shadow_words.last_tid <= Count
  /\ LastWords(Messages, promised, shadow_words.last_tid, shadow_words.synced, open)
  /\ parsing => open
  /\ authed => \E j \in 1 .. Count : Kind[j] = "auth"
  /\ SecretFirst

LEMMA SentInit == Init => SentInv
<1> SUFFICES ASSUME Init PROVE SentInv
  OBVIOUS
<1>1. Count = 0 /\ shadow_words.last_tid = 0 /\ shadow_words.synced
  BY DEF Init, Count, NoWords
<1>2. In(<<>>) = {} /\ Sorted(<<>>)
  BY DEF In, Sorted
<1>3. Told(written, invoke_queue, promised, Count)
  BY <1>1, <1>2 DEF Init, Told
<1>4. LastWords(Messages, promised, 0, TRUE, TRUE)
  BY <1>2 DEF Init, LastWords, Messages
<1> QED
  BY <1>1, <1>3, <1>4 DEF Init, SentInv, SecretFirst, LastWords

(* What the step of a handler begins with: the number of its message is    *)
(* higher than any before.                                                 *)
LEMMA Coming ==
  ASSUME FrameInv, SentInv, HandleMessage
  PROVE  LET n == Count + 1 IN
         /\ n \in Tid /\ n \in Nat /\ n # 0 /\ Count \in Nat /\ Count' = n
         /\ open /\ open' = open /\ parsing' = parsing
         /\ promised \in SUBSET Nat /\ n \notin promised /\ shadow_words.last_tid \in Nat
         /\ shadow_words.last_tid < n /\ shadow_words.synced \in BOOLEAN
         /\ Told(written, invoke_queue, promised, n)
         /\ Told(Append(written, Reply(n)), invoke_queue, promised, n)
         /\ In(Append(written, Reply(n))) = In(written) \cup {Reply(n)}
         /\ Unreported(In(Append(written, Reply(n))) \cup In(invoke_queue), n)
         /\ Earlier(Messages, n)
         /\ IF authed THEN HandleCommand(n, Kind[n]) ELSE HandleAuth(n, Kind[n])
<1> DEFINE n == Count + 1
           body == Bytes(Start[n] + HeaderSize, Start[n + 1])
<1>1. n \in Tid /\ n \in Nat /\ Handle(n, body) /\ parsing /\ UNCHANGED <<open, parsing>>
  BY NextMessage
<1>2. Count' = n
  BY <1>1, Appended DEF Handle, Count, FrameInv, TypeOK
<1>3. KindOf(n, body) = Kind[n]
  BY <1>1 DEF KindOf
<1>4. Count \in Nat /\ n # 0
  BY <1>1, UsedAt
<1>5. promised \in SUBSET Nat /\ shadow_words.last_tid \in Nat /\ shadow_words.synced \in BOOLEAN
  <2>1. promised \in SUBSET Nat
    BY Starts DEF FrameInv, TypeOK, Tid
  <2>2. shadow_words \in [last_tid : 0 .. Frames, synced : BOOLEAN]
    BY DEF FrameInv, TypeOK
  <2> QED
    BY <2>1, <2>2, Starts
<1> HIDE DEF n
<1>6. Told(written, invoke_queue, promised, Count)
  BY DEF SentInv
<1>7. /\ Told(written, invoke_queue, promised, n)
      /\ Earlier(Messages, n)
  BY <1>4, <1>5, <1>6, ToldWiden DEF n, Messages
<1>8. /\ Told(Append(written, Reply(n)), invoke_queue, promised, n)
      /\ Unreported(In(Append(written, Reply(n))) \cup In(invoke_queue), n)
  BY <1>4, <1>5, <1>6, ToldReply DEF n
<1>9. n \notin promised
  <2>1. \A i \in promised : i \in Nat /\ i <= Count
    BY <1>5, <1>6 DEF Told
  <2> QED
    BY <1>4, <2>1 DEF n
<1>10. shadow_words.last_tid < n
  BY <1>4, <1>5 DEF SentInv, n
<1>11. In(Append(written, Reply(n))) = In(written) \cup {Reply(n)}
  <2>1. written \in Seq(Written) /\ invoke_queue \in Seq(Written) /\ Reply(n) \in Written
    BY <1>1, Records DEF FrameInv, TypeOK
  <2> QED
    BY <2>1, AppendIn
<1>12. IF authed THEN HandleCommand(n, Kind[n]) ELSE HandleAuth(n, Kind[n])
  BY <1>1, <1>3 DEF Handle
<1> QED
  BY <1>1, <1>2, <1>4, <1>5, <1>7, <1>8, <1>9, <1>10, <1>11, <1>12 DEF n, SentInv

(* Nobody who had no access is heard of, if those new to be heard of have. *)
LEMMA SecretKept ==
  ASSUME SecretFirst, NEW N, \A i \in N : \E j \in 1 .. i - 1 : Kind[j] = "auth",
         promised' \subseteq promised \cup N,
         \A m \in In(invoke_queue') :
           \/ m \in In(invoke_queue) \/ m.tid \in promised \cup N
           \/ m.tid = shadow_words.last_tid /\ m.tid # 0,
         shadow_words'.last_tid \in {shadow_words.last_tid} \cup N
  PROVE  SecretFirst'
<1> DEFINE known == promised \cup {m.tid : m \in In(invoke_queue)} \cup ({shadow_words.last_tid} \ {0})
           later == promised' \cup {m.tid : m \in In(invoke_queue')} \cup ({shadow_words'.last_tid} \ {0})
<1>1. SecretFirst = (\A i \in known : \E k \in 1 .. i - 1 : Kind[k] = "auth")
  BY DEF SecretFirst, In
<1>2. SecretFirst' = (\A i \in later : \E k \in 1 .. i - 1 : Kind[k] = "auth")
  BY DEF SecretFirst, In
<1>3. later \subseteq known \cup N
  OBVIOUS
<1> QED
  BY <1>1, <1>2, <1>3

(* A message is replied to. *)
LEMMA SentReplied ==
  ASSUME FrameInv, SentInv, HandleMessage,
         written' = Append(written, Reply(Count + 1)),
         \/ invoke_queue' = invoke_queue
         \/ invoke_queue' = Append(invoke_queue, Report(Count + 1)),
         UNCHANGED <<shadow_words, promised>>
  PROVE  /\ Told(written', invoke_queue', promised', Count')
         /\ shadow_words'.last_tid <= Count'
         /\ LastWords(Messages', promised', shadow_words'.last_tid, shadow_words'.synced, open')
<1> DEFINE n == Count + 1
           t == shadow_words.last_tid
<1>1. /\ n \in Nat /\ Count' = n /\ promised \in SUBSET Nat /\ t \in Nat /\ t < n /\ open' = open
      /\ Told(Append(written, Reply(n)), invoke_queue, promised, n)
      /\ In(Append(written, Reply(n))) = In(written) \cup {Reply(n)}
      /\ Unreported(In(Append(written, Reply(n))) \cup In(invoke_queue), n)
  BY Coming
<1> HIDE DEF n
<1>2. /\ Told(Append(written, Reply(n)), Append(invoke_queue, Report(n)), promised, n)
      /\ In(Append(invoke_queue, Report(n))) = In(invoke_queue) \cup {Report(n)}
  <2> DEFINE w == Append(written, Reply(n))
  <2>1. Told(w, invoke_queue, promised, n) /\ Unreported(In(w) \cup In(invoke_queue), n)
    BY <1>1
  <2> HIDE DEF w
  <2>2. Told(w, invoke_queue \o <<Report(n)>>, promised, n)
    BY <1>1, <2>1, ToldReport
  <2>3. /\ invoke_queue \o <<Report(n)>> = Append(invoke_queue, Report(n))
        /\ In(invoke_queue \o <<Report(n)>>) = In(invoke_queue) \cup {Report(n)}
    BY <1>1, <2>1, ReportIn DEF Told
  <2> QED
    BY <2>2, <2>3 DEF w
<1>3. Told(written', invoke_queue', promised', Count')
  BY <1>1, <1>2 DEF n
<1>4. Messages' \subseteq Messages \cup {Reply(n), Report(n)}
  BY <1>1, <1>2 DEF n, Messages
<1>5. LastWords(Messages', promised, t, shadow_words.synced, open)
  <2>1. /\ Reply(n).tid = n /\ Reply(n).what = "reply"
        /\ Report(n).tid = n /\ Report(n).what = "report"
    BY DEF Reply, Report
  <2>2. LastWords(Messages, promised, t, shadow_words.synced, open)
    BY DEF SentInv
  <2> QED
    BY <1>1, <1>4, <2>1, <2>2 DEF LastWords, IsWords, IsAnswer
<1> QED
  BY <1>1, <1>3, <1>5

(* A message is promised an answer.  *)
LEMMA ToldPromise ==
  ASSUME NEW w, NEW q, NEW p, NEW n \in Nat, Told(w, q, p, n), Earlier(In(w) \cup In(q), n)
  PROVE  Told(w, q, p \cup {n}, n)
<1>1. \A m \in In(w) \cup In(q) : m.tid # n
  BY DEF Earlier
<1> QED
  BY <1>1 DEF Told

LEMMA WordsPromise ==
  ASSUME NEW messages, NEW p, NEW n \in Nat, NEW t \in Nat, NEW synced, NEW there,
         LastWords(messages, p, t, synced, there), t < n
  PROVE  LastWords(messages, p \cup {n}, t, synced, there)
  BY DEF LastWords

(* A report says nothing of a w.set.  *)
LEMMA WordsReport ==
  ASSUME NEW messages, NEW p, NEW t, NEW synced, NEW there, NEW n,
         LastWords(messages, p, t, synced, there)
  PROVE  LastWords(messages \cup {Report(n)}, p, t, synced, there)
<1>1. ~IsWords(Report(n)) /\ ~IsAnswer(Report(n))
  BY DEF IsWords, IsAnswer, Report
<1> QED
  BY <1>1 DEF LastWords

LEMMA SentMimic ==
  ASSUME FrameInv, SentInv, HandleMessage, authed, UNCHANGED authed, Mimic(Count + 1)
  PROVE  SentInv'
<1> DEFINE n == Count + 1
           t == shadow_words.last_tid
<1>1. /\ n \in Nat /\ Count' = n /\ promised \in SUBSET Nat /\ t \in Nat /\ t < n
      /\ open' = open /\ parsing' = parsing
      /\ Told(written, invoke_queue, promised, n)
      /\ Earlier(Messages, n)
      /\ n # 0 /\ Count \in Nat
  BY Coming
<1> HIDE DEF n
<1>2. /\ promised' = promised \cup {n} /\ invoke_queue' = Append(invoke_queue, Report(n))
      /\ UNCHANGED <<shadow_words, written>>
  BY DEF Mimic, n
<1>3. LastWords(Messages, promised, t, shadow_words.synced, open)
  BY DEF SentInv
<1>4. /\ Told(written, invoke_queue, promised \cup {n}, n)
      /\ LastWords(Messages, promised \cup {n}, t, shadow_words.synced, open)
  BY <1>1, <1>3, ToldPromise, WordsPromise DEF Messages
<1>5. /\ Told(written, Append(invoke_queue, Report(n)), promised \cup {n}, n)
      /\ In(Append(invoke_queue, Report(n))) = In(invoke_queue) \cup {Report(n)}
  <2>1. Unreported(In(written) \cup In(invoke_queue), n)
    BY <1>1 DEF Messages, Earlier, Unreported
  <2>2. Told(written, invoke_queue \o <<Report(n)>>, promised \cup {n}, n)
    BY <1>1, <1>4, <2>1, ToldReport
  <2>3. /\ invoke_queue \o <<Report(n)>> = Append(invoke_queue, Report(n))
        /\ In(invoke_queue \o <<Report(n)>>) = In(invoke_queue) \cup {Report(n)}
    BY <1>1, ReportIn DEF Told
  <2> QED
    BY <2>2, <2>3
<1>6. Messages' = Messages \cup {Report(n)}
  BY <1>2, <1>5 DEF Messages
<1>7. LastWords(Messages', promised', t, shadow_words.synced, open)
  BY <1>2, <1>4, <1>6, WordsReport
<1>8. \E j \in 1 .. n - 1 : Kind[j] = "auth"
  BY <1>1 DEF SentInv, n
<1>9. SecretFirst'
  <2>1. \A m \in In(invoke_queue') : m \in In(invoke_queue) \/ m.tid = n
    BY <1>2, <1>5 DEF Report
  <2> DEFINE N == {n}
  <2>2. /\ \A i \in N : \E j \in 1 .. i - 1 : Kind[j] = "auth"
        /\ promised' \subseteq promised \cup N
        /\ \A m \in In(invoke_queue') :
             \/ m \in In(invoke_queue) \/ m.tid \in promised \cup N
             \/ m.tid = shadow_words.last_tid /\ m.tid # 0
        /\ shadow_words'.last_tid \in {shadow_words.last_tid} \cup N
    BY <1>2, <1>8, <2>1
  <2> HIDE DEF N
  <2> QED
    BY <2>2, SecretKept DEF SentInv
<1>10. \E j \in 1 .. Count' : Kind[j] = "auth"
  BY <1>1, <1>8
<1> QED
  BY <1>1, <1>2, <1>5, <1>7, <1>9, <1>10 DEF SentInv

LEMMA SentWords ==
  ASSUME FrameInv, SentInv, HandleMessage, authed, UNCHANGED authed, SetWords(Count + 1)
  PROVE  SentInv'
<1> DEFINE n == Count + 1
           t == shadow_words.last_tid
           older == IF shadow_words.synced THEN <<>> ELSE <<Skipped(t)>>
           q == invoke_queue \o older
<1>1. /\ n \in Nat /\ Count' = n /\ promised \in SUBSET Nat /\ t \in Nat /\ t < n
      /\ open /\ open' = open /\ parsing' = parsing
      /\ Told(written, invoke_queue, promised, n)
      /\ Earlier(Messages, n)
      /\ n # 0 /\ Count \in Nat /\ n \notin promised
  BY Coming
<1> HIDE DEF n
<1>2. /\ invoke_queue' = q \o <<Report(n)>>
      /\ shadow_words' = [last_tid |-> n, synced |-> FALSE]
      /\ UNCHANGED <<promised, written>>
  BY DEF SetWords, n
<1>3. LastWords(Messages, promised, t, shadow_words.synced, open)
  BY DEF SentInv
<1>4. /\ Told(written, q, promised, n)
      /\ In(q) \subseteq In(invoke_queue) \cup {Skipped(t)}
      /\ t = 0 => In(q) \subseteq In(invoke_queue)
  <2>1. CASE shadow_words.synced
    <3>1. q = invoke_queue
      BY <1>1, <2>1 DEF Told
    <3> QED
      BY <1>1, <3>1
  <2>2. CASE ~shadow_words.synced
    <3>1. t # 0 /\ t \notin promised /\ \A m \in Messages : IsAnswer(m) => m.tid # t
      BY <1>1, <1>3, <2>2 DEF LastWords
    <3>2. Skipped(t) \in Written /\ Skipped(t).what = "skipped" /\ Skipped(t).tid = t
      BY <1>1, Records DEF Skipped
    <3> HIDE DEF t
    <3>3. <<Skipped(t)>> \in Seq(Written) /\ In(<<Skipped(t)>>) = {Skipped(t)} /\ Sorted(<<Skipped(t)>>)
      BY <3>2, OneIn
    <3>4. \A m \in Messages : Before(m, Skipped(t))
      <4>1. \A m \in Messages : IsWords(m) => m.tid <= t
        BY <1>3 DEF LastWords, t
      <4> QED
        BY <3>1, <3>2, <4>1 DEF Before
    <3>5. In(invoke_queue \o <<Skipped(t)>>) = In(invoke_queue) \cup In(<<Skipped(t)>>)
      BY <1>1, <3>3, ConcatIn DEF Told
    <3>6. Told(written, invoke_queue \o <<Skipped(t)>>, promised, n)
      <4>1. \A e \in In(<<Skipped(t)>>) :
              e.tid <= n /\ e.what # "reply" /\ (IsAnswer(e) => e.tid \notin promised)
        BY <1>1, <3>1, <3>2, <3>3 DEF t
      <4>2. \A m \in In(written) \cup In(invoke_queue), e \in In(<<Skipped(t)>>) : Before(m, e)
        BY <3>3, <3>4 DEF Messages
      <4>3. MaySend(In(written) \cup In(invoke_queue), <<Skipped(t)>>, promised, n)
        BY <3>3, <4>1, <4>2 DEF MaySend
      <4> QED
        BY <1>1, <4>3, ToldMore
    <3> QED
      BY <2>2, <3>1, <3>3, <3>6, <3>5 DEF t
  <2> QED
    BY <2>1, <2>2
<1> HIDE DEF q
<1>5. Skipped(t).what = "skipped" /\ Skipped(t).tid = t /\ Report(n).what = "report" /\ Report(n).tid = n
  BY DEF Skipped, Report
<1>6. /\ Told(written, q \o <<Report(n)>>, promised, n)
      /\ In(q \o <<Report(n)>>) = In(q) \cup {Report(n)}
  <2>1. Unreported(In(written) \cup In(q), n)
    BY <1>1, <1>4, <1>5 DEF Messages, Earlier, Unreported
  <2>2. Told(written, q \o <<Report(n)>>, promised, n)
    BY <1>1, <1>4, <2>1, ToldReport
  <2>3. In(q \o <<Report(n)>>) = In(q) \cup {Report(n)}
    BY <1>1, <1>4, ReportIn DEF Told
  <2> QED
    BY <2>2, <2>3
<1>7. LastWords(Messages', promised, n, FALSE, open)
  <2>1. Messages' \subseteq Messages \cup {Skipped(t), Report(n)}
    BY <1>2, <1>4, <1>6 DEF Messages
  <2>2. \A m \in Messages' : (IsAnswer(m) => m.tid < n) /\ m.tid <= n /\ m.tid \in Nat
    BY <1>1, <1>5, <2>1 DEF IsAnswer, Earlier
  <2> QED
    BY <1>1, <2>2 DEF LastWords
<1>8. \E j \in 1 .. n - 1 : Kind[j] = "auth"
  BY <1>1 DEF SentInv, n
<1>9. SecretFirst'
  <2> DEFINE N == {n}
  <2>1. \A m \in In(invoke_queue') : m \in In(invoke_queue) \/ m.tid = n \/ (m.tid = t /\ t # 0)
    BY <1>2, <1>4, <1>5, <1>6
  <2>2. /\ \A i \in N : \E j \in 1 .. i - 1 : Kind[j] = "auth"
        /\ promised' \subseteq promised \cup N
        /\ \A m \in In(invoke_queue') :
             \/ m \in In(invoke_queue) \/ m.tid \in promised \cup N
             \/ m.tid = shadow_words.last_tid /\ m.tid # 0
        /\ shadow_words'.last_tid \in {shadow_words.last_tid} \cup N
    BY <1>2, <1>8, <2>1
  <2> HIDE DEF N
  <2> QED
    BY <2>2, SecretKept DEF SentInv
<1>10. \E j \in 1 .. Count' : Kind[j] = "auth"
  BY <1>1, <1>8
<1>11. shadow_words'.last_tid = n /\ shadow_words'.synced = FALSE /\ n <= Count'
  BY <1>1, <1>2
<1>12. Told(written', invoke_queue', promised', Count')
  BY <1>1, <1>2, <1>6
<1>13. LastWords(Messages', promised', shadow_words'.last_tid, shadow_words'.synced, open')
  BY <1>1, <1>2, <1>7, <1>11
<1>14. parsing' => open'
  BY <1>1
<1> QED
  BY <1>9, <1>10, <1>11, <1>12, <1>13, <1>14 DEF SentInv

(* What a synchronisation sends are late answers. *)
LEMMA SyncLate ==
  ASSUME TypeOK, NEW waiting \in SUBSET Tid, shadow_words.last_tid \notin waiting,
         NEW answers \in SyncAnswers(waiting)
  PROVE  Late(answers, waiting, shadow_words.last_tid)
<1> DEFINE t == shadow_words.last_tid
           words == IF t = 0 THEN <<>> ELSE <<Result(t)>>
<1>1. PICK order \in SetToSeqs(waiting) : answers = words \o [k \in DOMAIN order |-> Answer(order[k])]
  BY DEF SyncAnswers
<1> DEFINE s == [k \in DOMAIN order |-> Answer(order[k])]
<1>2. /\ s \in Seq(Written)
      /\ \A k \in DOMAIN s : order[k] \in waiting /\ s[k] = Answer(order[k])
      /\ \A k, l \in DOMAIN s : k # l => order[k] # order[l]
  BY OrderedAnswers
<1>3. t \in Nat /\ Result(t) \in Written
  BY Records, Starts DEF TypeOK
<1> HIDE DEF s, t
<1>4. /\ Result(t).what = "result" /\ Result(t).tid = t
      /\ \A i : Answer(i).what = "answer" /\ Answer(i).tid = i
  BY DEF Result, Answer
<1>5. /\ words \in Seq(Written) /\ Sorted(words)
      /\ \A e \in In(words) : e = Result(t) /\ t # 0
  <2>1. CASE t = 0
    BY <2>1 DEF Sorted, In
  <2>2. CASE t # 0
    BY <1>3, <2>2, OneIn
  <2> QED
    BY <2>1, <2>2
<1>6. \A e \in In(s) : e.what = "answer" /\ e.tid \in waiting
  BY <1>2, <1>4 DEF In
<1>7. Sorted(s)
  <2> SUFFICES ASSUME NEW k \in DOMAIN s, NEW l \in DOMAIN s, k < l PROVE Before(s[k], s[l])
    BY DEF Sorted
  <2>1. k # l
    BY <1>2
  <2>2. s[k].what = "answer" /\ s[l].what = "answer" /\ s[k].tid # s[l].tid
    BY <1>2, <1>4, <2>1
  <2> QED
    BY <2>2 DEF Before, IsWords
<1> HIDE DEF words
<1>8. \A m \in In(words), e \in In(s) : Before(m, e)
  BY <1>4, <1>5, <1>6 DEF Before, IsWords, t
<1>9. /\ answers \in Seq(Written) /\ Sorted(answers) /\ In(answers) = In(words) \cup In(s)
  <2>1. answers = words \o s
    BY <1>1 DEF s, t
  <2> QED
    BY <1>2, <1>5, <1>7, <1>8, <2>1, ConcatIn
<1> QED
  BY <1>4, <1>5, <1>6, <1>9 DEF Late, t

(* One answer. *)
LEMMA AnswerLate ==
  ASSUME NEW i \in Nat, NEW t
  PROVE  /\ Late(<<Answer(i)>>, {i}, t) /\ In(<<Answer(i)>>) = {Answer(i)}
         /\ Late(<<>>, {}, t) /\ In(<<>>) = {}
         /\ Answer(i).what = "answer" /\ Answer(i).tid = i
<1>1. Answer(i) \in Written /\ Answer(i).what = "answer" /\ Answer(i).tid = i
  BY Records DEF Answer
<1>2. <<Answer(i)>> \in Seq(Written) /\ In(<<Answer(i)>>) = {Answer(i)} /\ Sorted(<<Answer(i)>>)
  BY <1>1, OneIn
<1>3. <<>> \in Seq(Written) /\ In(<<>>) = {} /\ Sorted(<<>>)
  BY DEF In, Sorted
<1> QED
  BY <1>1, <1>2, <1>3 DEF Late

LEMMA SentGrammar ==
  ASSUME FrameInv, SentInv, HandleMessage, authed, UNCHANGED authed, SetGrammar(Count + 1)
  PROVE  SentInv'
<1> DEFINE n == Count + 1
           t == shadow_words.last_tid
           synced == shadow_words.synced
           P == promised \cup {n}
<1>1. /\ n \in Tid /\ n \in Nat /\ Count' = n /\ promised \in SUBSET Nat /\ t \in Nat /\ t < n
      /\ open' = open /\ parsing' = parsing
      /\ Told(written, invoke_queue, promised, n)
      /\ Earlier(Messages, n)
      /\ n # 0 /\ Count \in Nat /\ n \notin promised /\ synced \in BOOLEAN
  BY Coming
<1>2. open \in BOOLEAN /\ promised \subseteq Tid /\ TypeOK
  BY DEF FrameInv, TypeOK
<1>3. PICK older \in {<<>>} \cup {<<j>> : j \in WaitingGrammars} :
        LET skipped == [k \in DOMAIN older |-> Answer(older[k])]
            waiting == (WaitingGrammars \ ToSet(older)) \cup {n}
        IN  /\ \/ /\ invoke_queue' = invoke_queue \o skipped \o <<Report(n)>>
                  /\ promised' = (promised \ ToSet(older)) \cup {n}
                  /\ UNCHANGED <<shadow_words, syncs>>
               \/ /\ syncs < MaxSyncs
                  /\ \E answers \in SyncAnswers(waiting) :
                       invoke_queue' = invoke_queue \o skipped \o answers \o <<Report(n)>>
                  /\ promised' = promised \ WaitingGrammars
                  /\ shadow_words' = [shadow_words EXCEPT !.synced = TRUE]
                  /\ syncs' = syncs + 1
            /\ UNCHANGED written
  BY DEF SetGrammar
<1> DEFINE skipped == [k \in DOMAIN older |-> Answer(older[k])]
           A == ToSet(older)
           q == invoke_queue \o skipped
           waiting == (WaitingGrammars \ A) \cup {n}
<1>4. /\ A \subseteq WaitingGrammars /\ WaitingGrammars \subseteq promised
      /\ Late(skipped, A, t) /\ \A e \in In(skipped) : e.what = "answer" /\ e.tid \in A
  <2>1. /\ A \subseteq WaitingGrammars
        /\ \/ skipped = <<>> /\ A = {}
           \/ \E j \in WaitingGrammars : skipped = <<Answer(j)>> /\ A = {j}
    BY <1>2, OlderTypes
  <2>2. WaitingGrammars \subseteq promised /\ \A j \in WaitingGrammars : j \in Nat
    BY <1>1 DEF WaitingGrammars
  <2> HIDE DEF skipped, A
  <2>3. CASE skipped = <<>> /\ A = {}
    BY <1>1, <2>2, <2>3, AnswerLate
  <2>4. ASSUME NEW j \in WaitingGrammars, skipped = <<Answer(j)>>, A = {j}
        PROVE  Late(skipped, A, t) /\ \A e \in In(skipped) : e.what = "answer" /\ e.tid \in A
    BY <2>2, <2>4, AnswerLate
  <2> QED
    BY <2>1, <2>2, <2>3, <2>4
<1>5. /\ written' = written
      /\ \/ /\ invoke_queue' = q \o <<Report(n)>>
            /\ promised' = (promised \ A) \cup {n}
            /\ UNCHANGED shadow_words
         \/ /\ \E answers \in SyncAnswers(waiting) : invoke_queue' = q \o answers \o <<Report(n)>>
            /\ promised' = promised \ WaitingGrammars
            /\ shadow_words' = [shadow_words EXCEPT !.synced = TRUE]
  BY <1>3
<1> HIDE DEF n, t, synced, skipped, A
<1>6. LastWords(Messages, promised, t, synced, open)
  BY DEF SentInv, t, synced
<1>7. /\ Told(written, invoke_queue, P, n) /\ LastWords(Messages, P, t, synced, open)
      /\ P \in SUBSET Nat /\ A \in SUBSET P /\ t <= n
  <2>1. Told(written, invoke_queue, P, n)
    BY <1>1, ToldPromise DEF Messages
  <2>2. LastWords(Messages, promised \cup {n}, t, synced, open)
    <3> HIDE DEF P
    <3> QED
      BY <1>1, <1>6, WordsPromise
  <2> QED
    BY <1>1, <1>4, <2>1, <2>2
<1> HIDE DEF P
<1>8. /\ Told(written, q, P \ A, n) /\ In(q) = In(invoke_queue) \cup In(skipped)
      /\ LastWords(In(written) \cup In(q), P \ A, t, synced, open)
  <2>1. invoke_queue \in Seq(Written) /\ skipped \in Seq(Written) /\ AllAnswers(skipped)
    BY <1>1, <1>4 DEF Told, Late, AllAnswers
  <2>2. LastWords(In(written) \cup In(invoke_queue), P, t, synced, open)
    BY <1>7 DEF Messages
  <2>3. Told(written, q, P \ A, n)
    BY <1>1, <1>4, <1>7, <2>2, ToldLate
  <2>4. In(q) = In(invoke_queue) \cup In(skipped)
    BY <2>1, ConcatIn
  <2>5. LastWords(In(written) \cup In(q), P \ A, t, synced, open)
    BY <1>1, <1>4, <1>7, <2>1, <2>2, LateWords
  <2> QED
    BY <2>3, <2>4, <2>5
<1> HIDE DEF q, waiting
<1>9. Unreported(In(written) \cup In(q), n)
  BY <1>1, <1>4, <1>8 DEF Messages, Earlier, Unreported
<1>10. P \ A \in SUBSET Nat
  BY <1>7
<1>11. \E j \in 1 .. n - 1 : Kind[j] = "auth"
  BY <1>1 DEF SentInv, n
<1>12. Report(n).tid = n
  BY DEF Report
<1>13. CASE /\ invoke_queue' = q \o <<Report(n)>>
            /\ promised' = (promised \ A) \cup {n}
            /\ UNCHANGED shadow_words
  <2>1. promised' = P \ A
    BY <1>1, <1>4, <1>13 DEF P
  <2>2. /\ Told(written, invoke_queue', P \ A, n)
        /\ In(invoke_queue') = In(q) \cup {Report(n)}
    <3>1. Told(written, q \o <<Report(n)>>, P \ A, n)
      BY <1>1, <1>8, <1>9, ToldReport
    <3>2. In(q \o <<Report(n)>>) = In(q) \cup {Report(n)}
      BY <1>1, <1>8, ReportIn DEF Told
    <3> QED
      BY <1>13, <3>1, <3>2
  <2>3. LastWords(Messages', promised', t, synced, open)
    <3>1. Messages' = In(written) \cup In(q) \cup {Report(n)}
      BY <1>5, <2>2 DEF Messages
    <3> QED
      BY <1>8, <2>1, <3>1, WordsReport
  <2>4. SecretFirst'
    <3> DEFINE N == {n}
    <3>1. /\ \A i \in N : \E j \in 1 .. i - 1 : Kind[j] = "auth"
          /\ promised' \subseteq promised \cup N
          /\ \A m \in In(invoke_queue') :
               \/ m \in In(invoke_queue) \/ m.tid \in promised \cup N
               \/ m.tid = shadow_words.last_tid /\ m.tid # 0
          /\ shadow_words'.last_tid \in {shadow_words.last_tid} \cup N
      BY <1>4, <1>8, <1>11, <1>12, <1>13, <2>2
    <3> HIDE DEF N
    <3> QED
      BY <3>1, SecretKept DEF SentInv
  <2>5. Told(written', invoke_queue', promised', Count')
    BY <1>1, <1>5, <2>1, <2>2
  <2>6. LastWords(Messages', promised', shadow_words'.last_tid, shadow_words'.synced, open')
    BY <1>1, <1>13, <2>3 DEF t, synced
  <2>7. shadow_words'.last_tid <= Count' /\ (parsing' => open')
    BY <1>1, <1>7, <1>13 DEF t, SentInv
  <2>8. \E j \in 1 .. Count' : Kind[j] = "auth"
    BY <1>1, <1>11
  <2> QED
    BY <2>4, <2>5, <2>6, <2>7, <2>8 DEF SentInv
<1>14. ASSUME NEW answers \in SyncAnswers(waiting),
              invoke_queue' = q \o answers \o <<Report(n)>>,
              promised' = promised \ WaitingGrammars,
              shadow_words' = [shadow_words EXCEPT !.synced = TRUE]
       PROVE  SentInv'
  <2>1. waiting \in SUBSET Tid /\ waiting \in SUBSET (P \ A) /\ t \notin waiting
    BY <1>1, <1>2, <1>4, <1>8 DEF waiting, P, LastWords
  <2>2. Late(answers, waiting, t)
    BY <1>2, <2>1, SyncLate DEF t
  <2>3. /\ Told(written, q \o answers, (P \ A) \ waiting, n)
        /\ In(q \o answers) = In(q) \cup In(answers)
        /\ LastWords(In(written) \cup In(q \o answers), (P \ A) \ waiting, t, TRUE, open)
    <3>1. q \in Seq(Written) /\ answers \in Seq(Written)
      BY <1>8, <2>2 DEF Told, Late
    <3>2. Told(written, q \o answers, (P \ A) \ waiting, n)
      BY <1>1, <1>7, <1>8, <2>1, <2>2, ToldLate
    <3>3. In(q \o answers) = In(q) \cup In(answers)
      BY <3>1, ConcatIn
    <3>4. LastWords(In(written) \cup In(q \o answers), (P \ A) \ waiting, t, TRUE, open)
      BY <1>1, <1>8, <2>1, <2>2, <3>1, LateWords
    <3> QED
      BY <3>2, <3>3, <3>4
  <2>4. promised' = (P \ A) \ waiting /\ (P \ A) \ waiting \in SUBSET Nat
    BY <1>1, <1>4, <1>10, <1>14 DEF waiting, P
  <2>5. \A e \in In(answers) : e.what # "report" /\ (e.tid \in waiting \/ (e.tid = t /\ t # 0))
    BY <2>2 DEF Late
  <2>6. Unreported(In(written) \cup In(q \o answers), n)
    BY <1>9, <2>3, <2>5 DEF Unreported
  <2>7. /\ Told(written, invoke_queue', promised', n)
        /\ In(invoke_queue') = In(q) \cup In(answers) \cup {Report(n)}
    <3> DEFINE r == q \o answers
    <3>1. Told(written, r, promised', n) /\ Unreported(In(written) \cup In(r), n)
      BY <2>3, <2>4, <2>6
    <3>2. invoke_queue' = r \o <<Report(n)>> /\ In(r) = In(q) \cup In(answers)
      BY <1>14, <2>3
    <3> HIDE DEF r
    <3>3. Told(written, r \o <<Report(n)>>, promised', n)
      BY <1>1, <3>1, ToldReport
    <3>4. In(r \o <<Report(n)>>) = In(r) \cup {Report(n)}
      BY <1>1, <3>1, ReportIn DEF Told
    <3>5. written' = written
      BY <1>5
    <3> QED
      BY <3>2, <3>3, <3>4, <3>5
  <2>8. LastWords(Messages', promised', t, TRUE, open)
    <3>1. Messages' = In(written) \cup In(q \o answers) \cup {Report(n)}
      BY <1>5, <2>3, <2>7 DEF Messages
    <3> QED
      BY <2>3, <2>4, <3>1, WordsReport
  <2>9. shadow_words'.last_tid = t /\ shadow_words'.synced = TRUE
    <3>1. shadow_words \in [last_tid : 0 .. Frames, synced : BOOLEAN]
      BY <1>2 DEF TypeOK
    <3> QED
      BY <1>14, <3>1 DEF t
  <2>10. SecretFirst'
    <3> DEFINE N == {n}
    <3>1. /\ \A i \in N : \E j \in 1 .. i - 1 : Kind[j] = "auth"
          /\ promised' \subseteq promised \cup N
          /\ shadow_words'.last_tid \in {shadow_words.last_tid} \cup N
      BY <1>11, <1>14, <2>9 DEF t
    <3>2. \A m \in In(invoke_queue') :
             \/ m \in In(invoke_queue) \/ m.tid \in promised \cup N
             \/ m.tid = shadow_words.last_tid /\ m.tid # 0
      BY <1>4, <1>8, <1>12, <2>5, <2>7 DEF waiting, t
    <3> HIDE DEF N
    <3> QED
      BY <3>1, <3>2, SecretKept DEF SentInv
  <2>11. Told(written', invoke_queue', promised', Count')
    BY <1>1, <1>5, <2>7
  <2>12. LastWords(Messages', promised', shadow_words'.last_tid, shadow_words'.synced, open')
    BY <1>1, <2>8, <2>9
  <2>13. shadow_words'.last_tid <= Count' /\ (parsing' => open')
    BY <1>1, <1>7, <2>9 DEF SentInv
  <2>14. \E j \in 1 .. Count' : Kind[j] = "auth"
    BY <1>1, <1>11
  <2> QED
    BY <2>10, <2>11, <2>12, <2>13, <2>14 DEF SentInv
<1> QED
  BY <1>5, <1>13, <1>14

LEMMA SentHandle == ASSUME FrameInv, SentInv, HandleMessage PROVE SentInv'
<1> DEFINE n == Count + 1
<1>1. /\ n \in Nat /\ Count' = n /\ Count \in Nat /\ open' = open /\ parsing' = parsing
      /\ IF authed THEN HandleCommand(n, Kind[n]) ELSE HandleAuth(n, Kind[n])
  BY Coming
<1>2. CASE ~authed
  <2>1. HandleAuth(n, Kind[n])
    BY <1>1, <1>2
  <2>2. /\ authed' = (Kind[n] = "auth")
        /\ written' = Append(written, Reply(n))
        /\ UNCHANGED <<invoke_queue, promised, shadow_words>>
    BY <2>1, Zenon DEF HandleAuth, promise_vars
  <2>3. authed' => Kind[n] = "auth"
    BY <2>2, Zenon
  <2>4. authed' => \E j \in 1 .. Count' : Kind[j] = "auth"
    BY <1>1, <2>3
  <2>5. SecretFirst'
    BY <2>2 DEF SentInv, SecretFirst
  <2> QED
    BY <1>1, <2>2, <2>4, <2>5, SentReplied DEF SentInv
<1>3. CASE authed
  <2>1. UNCHANGED authed /\ HandleCommand(n, Kind[n])
    BY <1>1, <1>3 DEF HandleCommand
  <2>2. CASE ReplyNow(n, Kind[n])
    <3>1. /\ written' = Append(written, Reply(n))
          /\ invoke_queue' = invoke_queue \/ invoke_queue' = Append(invoke_queue, Report(n))
          /\ UNCHANGED <<shadow_words, promised>>
      BY <2>2 DEF ReplyNow, promise_vars
    <3>2. \E j \in 1 .. n - 1 : Kind[j] = "auth"
      BY <1>1, <1>3 DEF SentInv
    <3>3. SecretFirst'
      <4> DEFINE N == {n}
      <4>1. \A m \in In(invoke_queue') : m \in In(invoke_queue) \/ m.tid = n
        <5>1. Report(n) \in Written /\ Report(n).tid = n /\ invoke_queue \in Seq(Written)
          BY <1>1, Records DEF FrameInv, TypeOK, Report
        <5> QED
          BY <3>1, <5>1, AppendIn
      <4>2. /\ \A i \in N : \E j \in 1 .. i - 1 : Kind[j] = "auth"
            /\ promised' \subseteq promised \cup N
            /\ \A m \in In(invoke_queue') :
                 \/ m \in In(invoke_queue) \/ m.tid \in promised \cup N
                 \/ m.tid = shadow_words.last_tid /\ m.tid # 0
            /\ shadow_words'.last_tid \in {shadow_words.last_tid} \cup N
        BY <3>1, <3>2, <4>1
      <4> HIDE DEF N
      <4> QED
        BY <4>2, SecretKept DEF SentInv
    <3>4. \E j \in 1 .. Count' : Kind[j] = "auth"
      BY <1>1, <3>2
    <3> QED
      BY <1>1, <3>1, <3>3, <3>4, SentReplied DEF SentInv
  <2> QED
    BY <1>3, <2>1, <2>2, SentWords, SentGrammar, SentMimic DEF HandleCommand
<1> QED
  BY <1>2, <1>3

(* Late answers that another thread or another client brings about.        *)
LEMMA SentLate ==
  ASSUME FrameInv, SentInv, NEW A \in SUBSET promised, NEW s, Late(s, A, shadow_words.last_tid),
         invoke_queue' = invoke_queue \o s, promised' = promised \ A,
         shadow_words'.last_tid = shadow_words.last_tid,
         \/ shadow_words'.synced
         \/ shadow_words'.synced = shadow_words.synced /\ \A e \in In(s) : e.what = "answer",
         UNCHANGED <<reader_vars, written>>
  PROVE  SentInv'
<1> DEFINE t == shadow_words.last_tid
           synced == shadow_words.synced
<1>1. /\ Count \in Nat /\ promised \in SUBSET Nat /\ t \in Nat /\ synced \in BOOLEAN /\ open \in BOOLEAN
      /\ UNCHANGED <<open, parsing, authed, handled>>
  <2>1. promised \in SUBSET Nat /\ open \in BOOLEAN
    BY Starts DEF FrameInv, TypeOK, Tid
  <2>2. shadow_words \in [last_tid : 0 .. Frames, synced : BOOLEAN]
    BY DEF FrameInv, TypeOK
  <2> QED
    BY <2>1, <2>2, UsedAt, Starts DEF reader_vars
<1>2. Told(written, invoke_queue, promised, Count) /\ LastWords(Messages, promised, t, synced, open)
      /\ t <= Count
  BY DEF SentInv
<1> HIDE DEF t, synced
<1>3. /\ s \in Seq(Written) /\ invoke_queue \in Seq(Written)
      /\ LastWords(In(written) \cup In(invoke_queue), promised, t, synced, open)
  BY <1>2 DEF Late, Told, Messages
<1>4. Late(s, A, t) /\ A \subseteq promised
  BY DEF t
<1>5. Told(written, invoke_queue \o s, promised \ A, Count)
  BY <1>1, <1>2, <1>3, <1>4, ToldLate
<1>6. In(invoke_queue \o s) = In(invoke_queue) \cup In(s)
  BY <1>3, ConcatIn
<1>7. LastWords(In(written) \cup In(invoke_queue \o s), promised \ A, t, shadow_words'.synced, open)
  <2>1. shadow_words'.synced \/ (shadow_words'.synced = synced /\ AllAnswers(s))
    BY DEF AllAnswers, synced
  <2> QED
    BY <1>1, <1>3, <1>4, <2>1, LateWords
<1>8. Messages' = In(written) \cup In(invoke_queue \o s)
  BY DEF Messages
<1>9. LastWords(Messages', promised', t, shadow_words'.synced, open)
  BY <1>8, <1>7
<1>10. SecretFirst'
  <2>1. \A m \in In(invoke_queue') :
           \/ m \in In(invoke_queue) \/ m.tid \in promised
           \/ m.tid = shadow_words.last_tid /\ m.tid # 0
    BY <1>6 DEF Late
  <2> DEFINE N == {}
  <2>2. /\ \A i \in N : \E j \in 1 .. i - 1 : Kind[j] = "auth"
        /\ promised' \subseteq promised \cup N
        /\ \A m \in In(invoke_queue') :
             \/ m \in In(invoke_queue) \/ m.tid \in promised \cup N
             \/ m.tid = shadow_words.last_tid /\ m.tid # 0
        /\ shadow_words'.last_tid \in {shadow_words.last_tid} \cup N
    BY <2>1
  <2> HIDE DEF N
  <2> QED
    BY <2>2, SecretKept DEF SentInv
<1>11. Count' = Count
  BY <1>1 DEF Count
<1>12. Told(written', invoke_queue', promised', Count')
  BY <1>11, <1>5
<1>13. /\ shadow_words'.last_tid <= Count' /\ (parsing' => open')
       /\ authed' => \E j \in 1 .. Count' : Kind[j] = "auth"
  BY <1>1, <1>11 DEF SentInv
<1> QED
  BY <1>1, <1>9, <1>10, <1>12, <1>13 DEF SentInv, t

LEMMA SentRun == ASSUME FrameInv, SentInv, RunQueue PROVE SentInv'
<1>1. /\ promised \in SUBSET Nat /\ Count \in Nat
      /\ written \in Seq(Written) /\ invoke_queue \in Seq(Written)
  BY UsedAt, Starts DEF FrameInv, TypeOK, Tid
<1>2. /\ invoke_queue # <<>> /\ invoke_queue' = Tail(invoke_queue)
      /\ written' \in {written, Append(written, Head(invoke_queue))}
      /\ UNCHANGED <<open, parsing, authed, handled, promised, shadow_words>>
  BY DEF RunQueue, reader_vars, promise_vars
<1>3. Told(written', invoke_queue', promised, Count)
  BY <1>1, <1>2, ToldHead DEF SentInv
<1>4. /\ In(invoke_queue') \subseteq In(invoke_queue) /\ Messages' \subseteq Messages
  <2>1. /\ Head(invoke_queue) \in Written /\ Head(invoke_queue) \in In(invoke_queue)
        /\ In(Tail(invoke_queue)) \subseteq In(invoke_queue)
    BY <1>1, <1>2, TailIn
  <2>2. In(Append(written, Head(invoke_queue))) = In(written) \cup {Head(invoke_queue)}
    BY <1>1, <2>1, AppendIn
  <2> QED
    BY <1>2, <2>1, <2>2 DEF Messages
<1>5. LastWords(Messages', promised, shadow_words.last_tid, shadow_words.synced, open)
  BY <1>4 DEF SentInv, LastWords
<1>6. SecretFirst'
  <2>1. {invoke_queue'[k].tid : k \in DOMAIN invoke_queue'}
          \subseteq {invoke_queue[k].tid : k \in DOMAIN invoke_queue}
    BY <1>4 DEF In
  <2> QED
    BY <1>2, <2>1 DEF SentInv, SecretFirst
<1> QED
  BY <1>2, <1>3, <1>5, <1>6 DEF SentInv, Count

(* The client leaves: it is not called upon to believe anything any more.  *)
LEMMA SentClose == ASSUME FrameInv, SentInv, Close PROVE SentInv'
<1>1. /\ UNCHANGED <<parsing, authed, handled, promised, invoke_queue, written>> /\ ~open' /\ ~parsing
  BY DEF Close
<1>2. /\ shadow_words'.last_tid = shadow_words.last_tid
      /\ ~shadow_words'.synced => shadow_words.last_tid # 0
  <2>1. shadow_words \in [last_tid : 0 .. Frames, synced : BOOLEAN]
    BY DEF FrameInv, TypeOK
  <2>2. CASE shadow_words = NoWords
    BY <2>2 DEF Close, NoWords
  <2>3. CASE shadow_words # NoWords
    <3>1. ~shadow_words.synced => shadow_words.last_tid # 0
      BY DEF SentInv, LastWords
    <3>2. shadow_words.synced => shadow_words.last_tid # 0
      <4> SUFFICES ASSUME shadow_words.synced, shadow_words.last_tid = 0 PROVE FALSE
        OBVIOUS
      <4>1. shadow_words = [last_tid |-> shadow_words.last_tid, synced |-> shadow_words.synced]
        BY <2>1
      <4>2. shadow_words.synced = TRUE
        BY <2>1
      <4> QED
        BY <2>3, <4>1, <4>2 DEF NoWords
    <3>3. shadow_words' = [shadow_words EXCEPT !.synced = FALSE]
      BY <2>3 DEF Close
    <3>4. shadow_words'.last_tid = shadow_words.last_tid
      BY <2>1, <3>3
    <3> QED
      BY <3>1, <3>2, <3>4
  <2> QED
    BY <2>2, <2>3
<1>3. Messages' = Messages /\ Count' = Count
  BY <1>1 DEF Messages, Count
<1>4. LastWords(Messages', promised', shadow_words'.last_tid, shadow_words'.synced, open')
  BY <1>1, <1>2, <1>3 DEF SentInv, LastWords
<1>5. SecretFirst'
  BY <1>1, <1>2 DEF SentInv, SecretFirst
<1> QED
  BY <1>1, <1>2, <1>3, <1>4, <1>5 DEF SentInv

LEMMA SentNext == FrameInv /\ SentInv /\ [Next]_vars => SentInv'
<1> SUFFICES ASSUME FrameInv, SentInv, [Next]_vars PROVE SentInv'
  OBVIOUS
<1>1. CASE UNCHANGED <<authed, handled, answer_vars, open>> /\ (parsing' => open)
  BY <1>1 DEF SentInv, SecretFirst, Count, Messages, answer_vars, promise_vars
<1>2. CASE UNCHANGED vars \/ Data \/ ReadHeader \/ Break
  <2>1. UNCHANGED <<authed, handled, answer_vars, open>> /\ (parsing' => open)
    BY <1>2 DEF vars, reader_vars, Data, ReadHeader, Break, SentInv
  <2> QED
    BY <1>1, <2>1
<1>3. CASE Synchronise
  <2>1. WaitingGrammars \in SUBSET promised /\ WaitingGrammars \in SUBSET Tid
        /\ shadow_words.last_tid \notin WaitingGrammars
    BY DEF WaitingGrammars, FrameInv, TypeOK, SentInv, LastWords
  <2>2. PICK answers \in SyncAnswers(WaitingGrammars) : invoke_queue' = invoke_queue \o answers
    BY <1>3 DEF Synchronise
  <2>3. Late(answers, WaitingGrammars, shadow_words.last_tid)
    BY <2>1, SyncLate DEF FrameInv
  <2>4. shadow_words'.last_tid = shadow_words.last_tid /\ shadow_words'.synced
    <3>1. shadow_words \in [last_tid : 0 .. Frames, synced : BOOLEAN]
      BY DEF FrameInv, TypeOK
    <3> QED
      BY <1>3, <3>1 DEF Synchronise
  <2>5. promised' = promised \ WaitingGrammars /\ UNCHANGED <<reader_vars, written>>
    BY <1>3 DEF Synchronise
  <2> QED
    BY <2>1, <2>2, <2>3, <2>4, <2>5, SentLate
<1>4. ASSUME NEW i \in Tid, Replace(i) \/ MimicDone(i) PROVE SentInv'
  <2>1. /\ i \in Nat /\ {i} \in SUBSET promised /\ promised' = promised \ {i}
        /\ invoke_queue' = invoke_queue \/ invoke_queue' = Append(invoke_queue, Answer(i))
        /\ UNCHANGED <<reader_vars, shadow_words, written>>
    BY <1>4, Starts DEF Replace, MimicDone, WaitingGrammars, Tid
  <2>2. /\ Late(<<Answer(i)>>, {i}, shadow_words.last_tid) /\ \A e \in In(<<Answer(i)>>) : e.what = "answer"
        /\ Late(<<>>, {i}, shadow_words.last_tid) /\ \A e \in In(<<>>) : e.what = "answer"
    BY <2>1, AnswerLate DEF Late
  <2>3. \E s \in {<<>>, <<Answer(i)>>} : invoke_queue' = invoke_queue \o s
    <3>1. invoke_queue \in Seq(Written) /\ Answer(i) \in Written
      BY <2>1, Records DEF FrameInv, TypeOK
    <3> QED
      BY <2>1, <3>1
  <2> QED
    BY <2>1, <2>2, <2>3, SentLate
<1> QED
  BY <1>2, <1>3, <1>4, SentHandle, SentRun, SentClose DEF Next

(* What is known of the answers, whatever is sent and when. *)
THEOREM SentInvariant == Spec => []SentInv
  BY SentInit, SentNext, FrameInvariant, PTL DEF Spec

(* Nothing happens before the secret has been presented. *)
THEOREM SecretFirstHolds == Spec => []SecretFirst
<1>1. SentInv => SecretFirst
  BY DEF SentInv
<1> QED
  BY <1>1, SentInvariant, PTL

(* Replies and reports are in the order of the requests. *)
THEOREM RepliesInOrderHolds == Spec => []RepliesInOrder
<1>1. SentInv => RepliesInOrder
  <2> SUFFICES ASSUME Sorted(written), NEW k \in DOMAIN written, NEW l \in DOMAIN written, k < l
               PROVE  /\ written[k].what = written[l].what /\ written[k].what \in {"reply", "report"}
                           => written[k].tid < written[l].tid
                      /\ written[k].what = "report" /\ written[l].what = "reply"
                           => written[k].tid # written[l].tid
    BY DEF SentInv, Told, RepliesInOrder
  <2>1. Before(written[k], written[l])
    BY DEF Sorted
  <2> QED
    BY <2>1 DEF Before
<1> QED
  BY <1>1, SentInvariant, PTL

(* One answer to a request and none before its time, but the result of the *)
(* last w.set as often as there are synchronisations; none after a w.set   *)
(* has been skipped, and none of an earlier w.set after a later one.       *)
THEOREM AnswersAsPromisedHolds == Spec => []AnswersAsPromised
<1>1. FrameInv /\ SentInv => AnswersAsPromised
  <2> SUFFICES ASSUME FrameInv, SentInv PROVE AnswersAsPromised
    OBVIOUS
  <2>1. /\ written \in Seq(Written) /\ invoke_queue \in Seq(Written)
        /\ Sorted(written) /\ Sorted(invoke_queue)
        /\ \A m \in In(written), l \in In(invoke_queue) : Before(m, l)
    BY DEF SentInv, Told
  <2>2. Sent \in Seq(Written) /\ In(Sent) = Messages /\ Sorted(Sent)
    BY <2>1, ConcatIn DEF Sent, Messages
  <2>3. \A k \in DOMAIN Sent : Sent[k] \in Messages /\ Sent[k] \in Written
    BY <2>2 DEF In
  <2>4. \A k, l \in DOMAIN Sent : k < l => Before(Sent[k], Sent[l])
    BY <2>2 DEF Sorted
  <2>5. DOMAIN Sent \subseteq Nat
    BY <2>2
  <2>6. ASSUME NEW i \in promised PROVE AnswersTo(i) = {}
    <3>1. \A m \in Messages : IsAnswer(m) => m.tid # i
      BY DEF SentInv, Told, Messages
    <3> QED
      BY <2>3, <3>1 DEF AnswersTo, IsAnswer
  <2>7. ASSUME NEW i \in Tid, NEW k \in AnswersTo(i), NEW l \in AnswersTo(i), k # l
        PROVE  Sent[k] = Result(i) /\ Sent[l] = Result(i)
    <3>1. /\ k \in DOMAIN Sent /\ IsAnswer(Sent[k]) /\ Sent[k].tid = i
          /\ l \in DOMAIN Sent /\ IsAnswer(Sent[l]) /\ Sent[l].tid = i
      BY DEF AnswersTo, IsAnswer
    <3>2. Before(Sent[k], Sent[l]) \/ Before(Sent[l], Sent[k])
      BY <2>4, <2>5, <2>7, <3>1
    <3>3. Sent[k].what = "result" /\ Sent[l].what = "result"
      BY <3>1, <3>2 DEF Before
    <3> QED
      BY <2>3, <3>1, <3>3 DEF Result, Written
  <2>8. ASSUME NEW k \in DOMAIN Sent, NEW l \in DOMAIN Sent, k < l,
               {Sent[k].what, Sent[l].what} \subseteq {"skipped", "result"}
        PROVE  Sent[k].tid <= Sent[l].tid
    BY <2>4, <2>8 DEF Before, IsWords
  <2> QED
    BY <2>6, <2>7, <2>8 DEF AnswersAsPromised
<1> QED
  BY <1>1, FrameInvariant, SentInvariant, PTL
=============================================================================
