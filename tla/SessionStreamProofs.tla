------------------------ MODULE SessionStreamProofs -------------------------
(***************************************************************************)
(* Proofs about one session's output: the scrollback ring it is kept in,   *)
(* and the watchers it goes to.                                            *)
(*                                                                         *)
(* The ring, for every capacity and every bound: what ReadAll returns      *)
(* depends on every slot, so ReadsNewestRun is not inductive.  RingInv     *)
(* says what each slot holds: counting backwards from the cursor, slot by  *)
(* slot and around the end, the stream's last bytes.                       *)
(*                                                                         *)
(* The watchers, for any set of connections, any amount of output and any  *)
(* backlog limit: that no viewer sees a hole is not inductive, since it    *)
(* depends on what is queued and in flight.  RunInv says that screen,      *)
(* frames in flight and queue form one consecutive run that ends with the  *)
(* chunk the terminal has; it holds because joins and output exclude each  *)
(* other (LockInv), nothing is queued before a join (JoinInv), and a pump  *)
(* takes only after it has written what it took before (FrameInv).         *)
(***************************************************************************)
EXTENDS SessionStream, RingBuffer, SequenceTheorems, TLAPS

-----------------------------------------------------------------------------
(* The scrollback ring *)

\* Each live slot holds the byte its distance from the cursor says.
SlotsHoldTail ==
  \A i \in Slots :
    /\ i < pos => buf[i] = total - pos + 1 + i
    /\ full /\ i >= pos => buf[i] = total - pos - Cap + 1 + i

\* The file is itself a run of stream bytes.
FileIsRun ==
  \A i \in 1 .. Len(file) : file[i] = file[1] + i - 1 /\ file[i] >= 1

RingInv ==
  /\ RingTypeOK
  /\ SlotsHoldTail
  /\ FileIsRun
  /\ RingLen <= total - first

LEMMA InitRing == RingInit => RingInv
<1> SUFFICES ASSUME RingInit PROVE RingInv
  OBVIOUS
<1>1. PICK n \in 0 .. MaxFile : file = Bytes(0, n)
  BY DEF RingInit
<1>2. file \in Seq(Nat) /\ Len(file) = n /\ \A i \in 1 .. n : file[i] = i
  <2>1. n \in Nat
    BY BoundAssumption
  <2>2. file = [i \in 1 .. n |-> i]
    BY <1>1, <2>1 DEF Bytes
  <2>3. QED
    BY <2>1, <2>2
<1>3. RingTypeOK
  <2>1. full \in BOOLEAN
    BY DEF RingInit
  <2>2. buf \in [Slots -> Nat] /\ pos \in Slots /\ first \in Nat /\ total \in Nat /\ first <= total
    BY CapAssumption DEF RingInit, Slots
  <2>3. QED
    BY <1>2, <2>1, <2>2 DEF RingTypeOK
<1>4. SlotsHoldTail /\ RingLen <= total - first
  BY CapAssumption DEF RingInit, SlotsHoldTail, RingLen, Slots
<1>5. FileIsRun
  BY <1>2 DEF FileIsRun
<1>6. QED
  BY <1>3, <1>4, <1>5 DEF RingInv

\* ReadAll of a ring that satisfies the invariant is the newest run.
LEMMA ReadAllRun ==
  ASSUME RingInv
  PROVE  /\ ReadAll \in Seq(Nat)
         /\ Len(ReadAll) = RingLen
         /\ \A i \in 1 .. RingLen : ReadAll[i] = total - RingLen + i
<1> USE CapAssumption DEF RingInv, RingTypeOK, Slots, SlotsHoldTail, RingLen
<1>1. CASE full
  <2>1. \A i \in 1 .. Cap : (IF pos + i - 1 < Cap THEN pos + i - 1 ELSE pos + i - 1 - Cap) \in Slots
    OBVIOUS
  <2>2. ReadAll \in Seq(Nat) /\ Len(ReadAll) = Cap
    BY <1>1, <2>1 DEF ReadAll
  <2>3. ASSUME NEW i \in 1 .. Cap PROVE ReadAll[i] = total - Cap + i
    <3>1. CASE pos + i - 1 < Cap
      BY <1>1, <3>1 DEF ReadAll
    <3>2. CASE pos + i - 1 >= Cap
      BY <1>1, <3>2 DEF ReadAll
    <3>3. QED
      BY <3>1, <3>2
  <2>4. QED
    BY <1>1, <2>2, <2>3
<1>2. CASE ~full
  <2>1. ReadAll \in Seq(Nat) /\ Len(ReadAll) = pos
    BY <1>2 DEF ReadAll
  <2>2. \A i \in 1 .. pos : ReadAll[i] = total - pos + i
    BY <1>2 DEF ReadAll
  <2>3. QED
    BY <1>2, <2>1, <2>2
<1>3. QED
  BY <1>1, <1>2

LEMMA WriteRing ==
  ASSUME RingInv, NEW n \in 1 .. MaxWrite, Write(n)
  PROVE  RingInv'
<1> USE CapAssumption, BoundAssumption
<1>0. /\ RingTypeOK /\ SlotsHoldTail /\ FileIsRun /\ RingLen <= total - first
      /\ n \in Nat /\ n >= 1
      /\ total' = total + n /\ file' = file /\ first' = first
      /\ total' \in Nat
  BY DEF RingInv, Write, RingTypeOK
<1>1. FileIsRun'
  BY <1>0 DEF FileIsRun
<1>2. CASE WriteTail(n)
  <2>1. RingTypeOK'
    BY <1>0, <1>2 DEF WriteTail, RingTypeOK, Slots
  <2>2. SlotsHoldTail'
    BY <1>0, <1>2 DEF WriteTail, RingTypeOK, Slots, SlotsHoldTail
  <2>3. (RingLen <= total - first)'
    BY <1>0, <1>2 DEF WriteTail, RingTypeOK, Slots, RingLen
  <2>4. QED
    BY <1>1, <2>1, <2>2, <2>3 DEF RingInv
<1>3. CASE WriteFits(n) \/ WriteWraps(n)
  <2>0. /\ n < Cap /\ buf' = Copied(n) /\ pos' = (pos + n) % Cap
        /\ \/ n <= Cap - pos /\ full' = full
           \/ n > Cap - pos /\ full' = TRUE
    BY <1>3 DEF WriteFits, WriteWraps
  <2>1. pos \in Nat /\ pos < Cap /\ pos' = IF pos + n < Cap THEN pos + n ELSE pos + n - Cap
    <3>1. pos \in Nat /\ pos < Cap /\ n \in Nat /\ n < Cap /\ pos + n \in Nat /\ pos + n < 2 * Cap
      BY <1>0, <2>0 DEF RingTypeOK, Slots
    <3>2. (pos + n) % Cap = IF pos + n < Cap THEN pos + n ELSE pos + n - Cap
      <4>1. CASE pos + n < Cap
        BY <3>1, <4>1
      <4>2. CASE pos + n >= Cap
        BY <3>1, <4>2
      <4>3. QED
        BY <3>1, <4>1, <4>2
    <3>3. QED
      BY <2>0, <3>1, <3>2
  <2>2. pos' \in Slots /\ full' \in BOOLEAN
    <3>1. pos' \in Slots
      BY <1>0, <2>0, <2>1 DEF Slots
    <3>2. full \in BOOLEAN => full' \in BOOLEAN
      BY <2>0, Zenon
    <3>3. QED
      BY <1>0, <3>1, <3>2 DEF RingTypeOK
  <2>3. buf' \in [Slots -> Nat]
    BY <1>0, <2>0, <2>1 DEF Copied, Slots, RingTypeOK
  <2>4. RingTypeOK'
    BY <1>0, <2>2, <2>3 DEF RingTypeOK
  <2>5. ASSUME NEW i \in Slots
        PROVE  /\ i < pos' => buf'[i] = total' - pos' + 1 + i
               /\ full' /\ i >= pos' => buf'[i] = total' - pos' - Cap + 1 + i
    <3>1. i \in Nat /\ i < Cap /\ n \in Nat /\ total \in Nat /\ Cap \in Nat /\ n < Cap
      BY <1>0, <2>0 DEF Slots, RingTypeOK
    <3>2. /\ i < pos => buf[i] = total - pos + 1 + i
          /\ full /\ i >= pos => buf[i] = total - pos - Cap + 1 + i
      BY <1>0 DEF SlotsHoldTail
    <3>3. buf'[i] = IF pos <= i /\ i < pos + n THEN total + 1 + (i - pos)
                    ELSE IF i < pos + n - Cap THEN total + 1 + (i + Cap - pos)
                    ELSE buf[i]
      BY <2>0 DEF Copied
    <3>4. CASE n <= Cap - pos /\ full' = full
      BY <1>0, <2>1, <3>1, <3>2, <3>3, <3>4
    <3>5. CASE n > Cap - pos /\ full' = TRUE
      BY <1>0, <2>1, <3>1, <3>2, <3>3, <3>5
    <3>6. QED
      BY <2>0, <3>4, <3>5
  <2>6. (RingLen <= total - first)'
    <3>1. CASE n <= Cap - pos /\ full' = full
      BY <1>0, <2>0, <2>1, <3>1 DEF RingLen, RingTypeOK
    <3>2. CASE n > Cap - pos /\ full' = TRUE
      BY <1>0, <2>0, <2>1, <3>2 DEF RingLen, RingTypeOK
    <3>3. QED
      BY <2>0, <3>1, <3>2
  <2>7. QED
    BY <1>1, <2>4, <2>5, <2>6 DEF RingInv, SlotsHoldTail, Slots
<1>4. QED
  BY <1>2, <1>3 DEF Write

LEMMA LoadRing ==
  ASSUME RingInv, LoadFrom
  PROVE  RingInv'
<1> USE CapAssumption
<1> DEFINE n == Len(file)
<1>1. /\ RingTypeOK /\ FileIsRun /\ file' = file /\ n \in Nat /\ DOMAIN file = 1 .. n
      /\ Cap \in Nat /\ Cap >= 1 /\ first \in Nat /\ total \in Nat
  BY DEF LoadFrom, RingInv, RingTypeOK
<1>2. FileIsRun' /\ (file \in Seq(Nat))'
  BY <1>1 DEF FileIsRun, RingTypeOK
<1>3. \A i \in 1 .. n : file[i] \in Nat /\ file[i] = file[1] + i - 1 /\ file[i] >= 1
  BY <1>1 DEF FileIsRun, RingTypeOK
<1>4. CASE n >= Cap
  <2>1. file # <<>> /\ file[1] \in Nat /\ file[1] >= 1 /\ file[n] = file[1] + n - 1
    BY <1>1, <1>3, <1>4
  <2>2. first' = file[1] - 1 /\ total' = file[1] + n - 1
    BY <2>1 DEF LoadFrom
  <2>3. pos' = 0 /\ full' = TRUE /\ buf' = [i \in Slots |-> file[n - Cap + 1 + i]]
    BY <1>4 DEF LoadFrom
  <2>4. \A i \in Slots : n - Cap + 1 + i \in 1 .. n
    BY <1>1, <1>4 DEF Slots
  <2>5. \A i \in Slots : buf'[i] = file[1] + n - Cap + i /\ buf'[i] \in Nat
    <3> SUFFICES ASSUME NEW i \in Slots
                 PROVE  buf'[i] = file[1] + n - Cap + i /\ buf'[i] \in Nat
      OBVIOUS
    <3>1. buf'[i] = file[n - Cap + 1 + i]
      BY <2>3
    <3>2. n - Cap + 1 + i \in 1 .. n /\ i \in Int
      BY <2>4 DEF Slots
    <3>3. buf'[i] \in Nat /\ buf'[i] = file[1] + (n - Cap + 1 + i) - 1
      BY <1>3, <3>1, <3>2
    <3>4. QED
      BY <1>1, <2>1, <3>2, <3>3
  <2>6. RingTypeOK'
    <3>1. full' \in BOOLEAN
      BY <2>3
    <3>2. buf' \in [Slots -> Nat] /\ pos' \in Slots
      <4>1. \A i \in Slots : buf'[i] \in Nat
        BY <2>5
      <4>2. buf' \in [Slots -> Nat]
        BY <2>3, <4>1
      <4>3. QED
        <5>1. pos' = 0
          BY <2>3
        <5>2. 0 \in Slots
          BY CapAssumption DEF Slots
        <5>3. QED
          BY <4>2, <5>1, <5>2
    <3>3. first' \in Nat /\ total' \in Nat /\ first' <= total'
      BY <1>1, <1>4, <2>1, <2>2
    <3>4. QED
      BY <1>2, <3>1, <3>2, <3>3 DEF RingTypeOK
  <2>7. SlotsHoldTail'
    BY <1>1, <1>4, <2>1, <2>2, <2>3, <2>5 DEF SlotsHoldTail, Slots
  <2>8. (RingLen <= total - first)'
    BY <1>1, <1>4, <2>1, <2>2, <2>3 DEF RingLen
  <2>9. QED
    BY <1>2, <2>6, <2>7, <2>8 DEF RingInv
<1>5. CASE n < Cap
  <2>1. pos' = n /\ full' = FALSE
        /\ buf' = [i \in Slots |-> IF i < n THEN file[i + 1] ELSE buf[i]]
    BY <1>1, <1>5 DEF LoadFrom
  <2>2. \A i \in Slots : i < n => i + 1 \in 1 .. n
    BY <1>1 DEF Slots
  <2>3. \A i \in Slots : buf'[i] \in Nat /\ (i < n => buf'[i] = file[1] + i)
    BY <1>1, <1>3, <2>1, <2>2 DEF Slots, RingTypeOK
  <2>4. buf' \in [Slots -> Nat] /\ pos' \in Slots
    BY <1>1, <1>5, <2>1, <2>3 DEF Slots
  <2>5. /\ first' \in Nat /\ total' \in Nat /\ n <= total' - first'
        /\ n > 0 => total' = file[1] + n - 1
    <3>1. CASE file = <<>>
      BY <1>1, <3>1 DEF LoadFrom
    <3>2. CASE file # <<>>
      <4>0. n # 0
        <5>1. file = [i \in 1 .. n |-> file[i]]
          BY <1>1 DEF RingTypeOK
        <5> HIDE DEF n
        <5>2. n = 0 => file = [i \in {} |-> file[i]]
          BY <5>1
        <5>3. QED
          BY <3>2, <5>2
      <4> HIDE DEF n
      <4>1. n > 0 /\ file[1] \in Nat /\ file[1] >= 1 /\ file[n] = file[1] + n - 1
        BY <1>1, <1>3, <4>0
      <4>2. QED
        BY <1>1, <3>2, <4>1 DEF LoadFrom, n
    <3>3. QED
      BY <3>1, <3>2
  <2>6. RingTypeOK'
    <3>1. full' \in BOOLEAN
      BY <2>1
    <3>2. (first <= total)'
      BY <1>1, <2>5
    <3>3. QED
      BY <1>2, <2>4, <2>5, <3>1, <3>2 DEF RingTypeOK
  <2>7. SlotsHoldTail'
    <3>1. ASSUME NEW i \in Slots, i < n  PROVE  buf'[i] = total' - n + 1 + i
      <4>1. i \in Nat /\ n > 0
        BY <1>1, <3>1 DEF Slots
      <4>2. buf'[i] = file[1] + i /\ total' = file[1] + n - 1
        BY <2>3, <2>5, <3>1, <4>1
      <4>3. file[1] = total' - n + 1
        BY <1>1, <1>3, <2>5, <4>1, <4>2
      <4>4. QED
        BY <1>1, <4>1, <4>2, <4>3, <2>5
    <3>2. QED
      BY <2>1, <3>1 DEF SlotsHoldTail
  <2>8. (RingLen <= total - first)'
    BY <2>1, <2>5 DEF RingLen
  <2>9. QED
    BY <1>2, <2>6, <2>7, <2>8 DEF RingInv
<1>6. QED
  BY <1>1, <1>4, <1>5

LEMMA SaveRing ==
  ASSUME RingInv, SaveTo
  PROVE  RingInv'
<1>1. /\ file' = ReadAll /\ buf' = buf /\ pos' = pos /\ full' = full
      /\ first' = first /\ total' = total
  BY DEF SaveTo
<1>2. RingLen \in Nat /\ total - RingLen >= 0 /\ total \in Nat
  BY CapAssumption DEF RingInv, RingLen, RingTypeOK, Slots
<1>3. FileIsRun'
  BY <1>1, <1>2, ReadAllRun DEF FileIsRun
<1>4. QED
  BY <1>1, <1>3, ReadAllRun DEF RingInv, RingTypeOK, SlotsHoldTail, RingLen, Slots

LEMMA StepRing == RingInv /\ [RingNext]_ringVars => RingInv'
<1> SUFFICES ASSUME RingInv, [RingNext]_ringVars PROVE RingInv'
  OBVIOUS
<1>1. ASSUME NEW n \in 1 .. MaxWrite, Write(n) PROVE RingInv'
  BY <1>1, WriteRing
<1>2. CASE SaveTo
  BY <1>2, SaveRing
<1>3. CASE NewRingBuffer
  <2>1. /\ buf' = [i \in Slots |-> 0] /\ pos' = 0 /\ full' = FALSE
        /\ file' = file /\ first' = total /\ total' = total
    BY <1>3 DEF NewRingBuffer
  <2>2. RingTypeOK'
    <3>1. full' \in BOOLEAN /\ (file \in Seq(Nat))'
      BY <2>1 DEF RingInv, RingTypeOK
    <3>2. (buf \in [Slots -> Nat] /\ pos \in Slots /\ first \in Nat /\ total \in Nat /\ first <= total)'
      BY <2>1, CapAssumption DEF RingInv, RingTypeOK, Slots
    <3>3. QED
      BY <3>1, <3>2 DEF RingTypeOK
  <2>3. FileIsRun'
    BY <2>1 DEF RingInv, FileIsRun
  <2>4. SlotsHoldTail' /\ (RingLen <= total - first)'
    BY <2>1, CapAssumption DEF RingInv, RingTypeOK, SlotsHoldTail, RingLen, Slots
  <2>5. QED
    BY <2>2, <2>3, <2>4 DEF RingInv
<1>4. CASE LoadFrom
  BY <1>4, LoadRing
<1>5. CASE UNCHANGED ringVars
  BY <1>5 DEF ringVars, RingInv, RingTypeOK, SlotsHoldTail, FileIsRun, RingLen, Slots
<1>6. QED
  BY <1>1, <1>2, <1>3, <1>4, <1>5 DEF RingNext

\* The slot-by-slot invariant of the ring holds throughout.
THEOREM RingInvariant == RingSpec => []RingInv
BY InitRing, StepRing, PTL DEF RingSpec

\* Type correctness: the cursor and every slot index stay inside the ring
\* (RingBuffer.Write never indexes out of r.buf).
THEOREM RingTypeCorrect == RingSpec => []RingTypeOK
<1>1. RingInv => RingTypeOK
  BY DEF RingInv
<1>2. QED
  BY <1>1, RingInvariant, PTL

\* ReadAll is an unbroken run ending with the newest byte, for every ring
\* size and write pattern ("oldest to newest", RingBuffer.ReadAll).
THEOREM RingReadsNewestRun == RingSpec => []ReadsNewestRun
<1>1. RingInv => ReadsNewestRun
  BY ReadAllRun DEF ReadsNewestRun
<1>2. QED
  BY <1>1, RingInvariant, PTL

\* Only a write that fills the ring to its last slot exactly ever makes it return
\* less than before (RingBuffer.Write's n <= space branch).
THEOREM RingShrinks == RingSpec => ShrinksOnlyByExactFill
<1>1. ASSUME RingTypeOK, NEW n \in 1 .. MaxWrite, Write(n), RingLen' < RingLen
      PROVE  ~full /\ pos + n = Cap
  <2> USE CapAssumption, BoundAssumption DEF RingTypeOK, Slots, RingLen
  <2>1. CASE WriteTail(n)
    BY <1>1, <2>1 DEF WriteTail
  <2>2. CASE WriteFits(n)
    <3>1. n \in Nat /\ n >= 1 /\ pos \in Nat /\ Cap \in Nat /\ n <= Cap - pos /\ full' = full
      BY <1>1, <2>2 DEF WriteFits
    <3>2. CASE pos + n < Cap
      <4>1. pos' = pos + n
        BY <2>2, <3>1, <3>2 DEF WriteFits
      <4>2. QED
        BY <1>1, <3>1, <4>1
    <3>3. CASE pos + n = Cap
      BY <1>1, <3>1, <3>3
    <3>4. QED
      BY <3>1, <3>2, <3>3
  <2>3. CASE WriteWraps(n)
    BY <1>1, <2>3 DEF WriteWraps
  <2>4. QED
    BY <1>1, <2>1, <2>2, <2>3 DEF Write
<1>2. RingTypeOK => [\A n \in 1 .. MaxWrite : Write(n) /\ RingLen' < RingLen => ~full /\ pos + n = Cap]_ringVars
  BY <1>1
<1>3. QED
  BY RingTypeCorrect, <1>2, PTL DEF ShrinksOnlyByExactFill

-----------------------------------------------------------------------------
(* The session and its watchers *)

(* Sequences of frames. *)

LEMMA AppendFacts ==
  ASSUME NEW s \in Seq(Frame), NEW f \in Frame
  PROVE  /\ Append(s, f) \in Seq(Frame)
         /\ Len(Append(s, f)) = Len(s) + 1 /\ Len(s) \in Nat
         /\ Append(s, f) # <<>>
         /\ \A i \in 1 .. Len(s) : Append(s, f)[i] = s[i]
         /\ Append(s, f)[Len(s) + 1] = f
OBVIOUS

LEMMA TailFacts ==
  ASSUME NEW s \in Seq(Frame), s # <<>>
  PROVE  /\ Tail(s) \in Seq(Frame)
         /\ Len(s) \in Nat /\ Len(s) >= 1 /\ Len(Tail(s)) = Len(s) - 1
         /\ \A i \in 1 .. Len(s) - 1 : Tail(s)[i] = s[i + 1]
         /\ Head(s) = s[1] /\ s[1] \in Frame
         /\ Tail(s) = <<>> <=> Len(s) = 1
<1>1. /\ Tail(s) \in Seq(Frame)
      /\ Len(s) \in Nat /\ Len(s) >= 1 /\ Len(Tail(s)) = Len(s) - 1
      /\ \A i \in 1 .. Len(s) - 1 : Tail(s)[i] = s[i + 1]
      /\ Head(s) = s[1] /\ s[1] \in Frame
  OBVIOUS
<1>2. Tail(s) = <<>> <=> Len(Tail(s)) = 0
  BY <1>1, EmptySeq
<1>3. QED
  BY <1>1, <1>2

LEMMA FrameFields ==
  ASSUME NEW f \in Frame
  PROVE  f.text \in BOOLEAN /\ f.upto \in Nat
BY DEF Frame

-----------------------------------------------------------------------------
(* Type correctness. *)

LEMMA QueueBinaryType ==
  ASSUME TypeOK, NEW c \in Clients, QueueBinary(c)
  PROVE  TypeOK'
<1> USE DEF TypeOK
<1>1. CASE overflow[c]
  BY <1>1 DEF QueueBinary, queueVars, pumpVars, linkVars
<1>2. CASE ~overflow[c]
  <2>1. /\ out' = [out EXCEPT ![c] = Append(out[c], Chunk(applied))]
        /\ outBytes' = [outBytes EXCEPT ![c] = outBytes[c] + 1]
        /\ overflow' = [overflow EXCEPT ![c] = outBytes[c] + 1 > MaxBacklog]
        /\ notify' = [notify EXCEPT ![c] = TRUE]
        /\ fanout' = fanout \ {c}
    BY <1>2 DEF QueueBinary
  <2>2. out' \in [Clients -> Seq(Frame)]
    BY <2>1, ConstAssumption DEF Chunk, Frame
  <2>3. outBytes' \in [Clients -> Nat]
    BY <2>1
  <2>4. overflow' \in [Clients -> BOOLEAN] /\ notify' \in [Clients -> BOOLEAN]
    <3>1. (outBytes[c] + 1 > MaxBacklog) \in BOOLEAN
      OBVIOUS
    <3>2. QED
      BY <2>1, <3>1
  <2>5. fanout' \subseteq Clients
    BY <2>1
  <2>6. QED
    BY <2>2, <2>3, <2>4, <2>5 DEF QueueBinary, pumpVars, linkVars
<1>3. QED
  BY <1>1, <1>2

LEMMA PumpWriteType ==
  ASSUME TypeOK, NEW c \in Clients, PumpWrite(c)
  PROVE  TypeOK'
<1> USE DEF TypeOK
<1>1. inflight[c] \in Seq(Frame) /\ inflight[c] # <<>>
  BY DEF PumpWrite
<1>2. inflight' \in [Clients -> Seq(Frame)]
  BY <1>1, TailFacts DEF PumpWrite
<1>3. Render(view[c], Head(inflight[c])) \in Nat \cup {Fragment}
  BY <1>1, TailFacts, FrameFields DEF Render
<1>4. view' \in [Clients -> Nat \cup {Fragment}]
  BY <1>3 DEF PumpWrite
<1>5. QED
  BY <1>2, <1>4 DEF PumpWrite, readerVars, linkVars, queueVars

LEMMA TypeStep == TypeOK /\ [Next]_vars => TypeOK'
<1> SUFFICES ASSUME TypeOK, [Next]_vars PROVE TypeOK'
  OBVIOUS
<1> USE ConstAssumption DEF TypeOK, readerVars, queueVars, pumpVars, linkVars
<1>1. CASE PtyRead
  BY <1>1 DEF PtyRead, Frame, Snapshot, Fragment
<1>2. CASE ApplyOutput
  BY <1>2 DEF ApplyOutput, Frame, Snapshot, Fragment
<1>3. CASE UnlockOutput
  BY <1>3 DEF UnlockOutput, Frame, Snapshot, Fragment
<1>4. CASE MarkDead
  BY <1>4 DEF MarkDead, Frame, Snapshot, Fragment
<1>5. CASE CloseDone
  BY <1>5 DEF CloseDone, Frame, Snapshot, Fragment
<1>6. ASSUME NEW c \in Clients, QueueBinary(c) PROVE TypeOK'
  BY <1>6, QueueBinaryType
<1>7. ASSUME NEW c \in Clients, CheckAlive(c) PROVE TypeOK'
  BY <1>7 DEF CheckAlive, Frame, Snapshot, Fragment
<1>8. ASSUME NEW c \in Clients, Upgrade(c) PROVE TypeOK'
  BY <1>8 DEF Upgrade, Frame, Snapshot, Fragment
<1>9. ASSUME NEW c \in Clients, LoseConn(c) PROVE TypeOK'
  BY <1>9 DEF LoseConn, Frame, Snapshot, Fragment
<1>10. ASSUME NEW c \in Clients, EndReadLoop(c) PROVE TypeOK'
  BY <1>10 DEF EndReadLoop, Frame, Snapshot, Fragment
<1>11. ASSUME NEW c \in Clients, DetachClient(c) PROVE TypeOK'
  BY <1>11 DEF DetachClient, Frame, Snapshot, Fragment
<1>12. ASSUME NEW c \in Clients, WakeJoin(c) PROVE TypeOK'
  BY <1>12 DEF WakeJoin, Frame, Snapshot, Fragment
<1>13. ASSUME NEW c \in Clients, CancelJoin(c) PROVE TypeOK'
  BY <1>13 DEF CancelJoin, Frame, Snapshot, Fragment
<1>14. ASSUME NEW c \in Clients, AttachSnapshot(c) PROVE TypeOK'
  BY <1>14 DEF AttachSnapshot, Frame, Snapshot, Fragment
<1>15. ASSUME NEW c \in Clients, AttachAppend(c) PROVE TypeOK'
  BY <1>15 DEF AttachAppend, Frame, Snapshot, Fragment
<1>16. ASSUME NEW c \in Clients, PumpWake(c) PROVE TypeOK'
  BY <1>16 DEF PumpWake, Frame, Snapshot, Fragment
<1>17. ASSUME NEW c \in Clients, PumpTake(c) PROVE TypeOK'
  BY <1>17 DEF PumpTake, TakePending, Frame, Snapshot, Fragment
<1>18. ASSUME NEW c \in Clients, PumpSeeExit(c) PROVE TypeOK'
  BY <1>18 DEF PumpSeeExit, TakePending, Frame, Snapshot, Fragment
<1>19. ASSUME NEW c \in Clients, PumpWrite(c) PROVE TypeOK'
  BY <1>19, PumpWriteType
<1>20. ASSUME NEW c \in Clients, PumpWriteFails(c) PROVE TypeOK'
  BY <1>20 DEF PumpWriteFails, Frame, Snapshot, Fragment
<1>21. ASSUME NEW c \in Clients, PumpSkipText(c) PROVE TypeOK'
  BY <1>21 DEF PumpSkipText, Frame, Snapshot, Fragment
<1>22. ASSUME NEW c \in Clients, PumpFlushed(c) PROVE TypeOK'
  BY <1>22 DEF PumpFlushed, Frame, Snapshot, Fragment
<1>23. ASSUME NEW c \in Clients, PumpNotifyExit(c) PROVE TypeOK'
  BY <1>23 DEF PumpNotifyExit, Frame, Snapshot, Fragment
<1>24. ASSUME NEW c \in Clients, PumpClientDone(c) PROVE TypeOK'
  BY <1>24 DEF PumpClientDone, Frame, Snapshot, Fragment
<1>25. CASE UNCHANGED vars
  BY <1>25 DEF vars
<1>26. QED
  BY <1>1, <1>2, <1>3, <1>4, <1>5, <1>6, <1>7, <1>8, <1>9, <1>10, <1>11, <1>12, <1>13, <1>14, <1>15, <1>16, <1>17, <1>18, <1>19, <1>20, <1>21, <1>22, <1>23, <1>24, <1>25
  DEF Next, ReaderStep, HandlerStep, JoinStep, PumpStep

-----------------------------------------------------------------------------
(* outMu, the joins and the wake-ups. *)

LEMMA LockStep == TypeOK /\ LockInv /\ JoinInv /\ [Next]_vars => LockInv'
<1> SUFFICES ASSUME TypeOK, LockInv, JoinInv, [Next]_vars PROVE LockInv'
  OBVIOUS
<1> USE ConstAssumption DEF TypeOK, LockInv, readerVars, queueVars, pumpVars, linkVars
<1>1. CASE PtyRead
  BY <1>1 DEF PtyRead, JoinInv
<1>2. CASE ApplyOutput
  BY <1>2 DEF ApplyOutput, JoinInv
<1>3. CASE UnlockOutput
  BY <1>3 DEF UnlockOutput, JoinInv
<1>4. CASE MarkDead
  BY <1>4 DEF MarkDead, JoinInv
<1>5. CASE CloseDone
  BY <1>5 DEF CloseDone, JoinInv
<1>6. ASSUME NEW c \in Clients, QueueBinary(c) PROVE LockInv'
  BY <1>6 DEF QueueBinary, JoinInv
<1>7. ASSUME NEW c \in Clients, CheckAlive(c) PROVE LockInv'
  BY <1>7 DEF CheckAlive, JoinInv
<1>8. ASSUME NEW c \in Clients, Upgrade(c) PROVE LockInv'
  BY <1>8 DEF Upgrade, JoinInv
<1>9. ASSUME NEW c \in Clients, LoseConn(c) PROVE LockInv'
  BY <1>9 DEF LoseConn, JoinInv
<1>10. ASSUME NEW c \in Clients, EndReadLoop(c) PROVE LockInv'
  BY <1>10 DEF EndReadLoop, JoinInv
<1>11. ASSUME NEW c \in Clients, DetachClient(c) PROVE LockInv'
  BY <1>11 DEF DetachClient, JoinInv
<1>12. ASSUME NEW c \in Clients, WakeJoin(c) PROVE LockInv'
  BY <1>12 DEF WakeJoin, JoinInv
<1>13. ASSUME NEW c \in Clients, CancelJoin(c) PROVE LockInv'
  BY <1>13 DEF CancelJoin, JoinInv
<1>14. ASSUME NEW c \in Clients, AttachSnapshot(c) PROVE LockInv'
  BY <1>14 DEF AttachSnapshot, JoinInv
<1>15. ASSUME NEW c \in Clients, AttachAppend(c) PROVE LockInv'
  BY <1>15 DEF AttachAppend, JoinInv
<1>16. ASSUME NEW c \in Clients, PumpWake(c) PROVE LockInv'
  BY <1>16 DEF PumpWake, JoinInv
<1>17. ASSUME NEW c \in Clients, PumpTake(c) PROVE LockInv'
  BY <1>17 DEF PumpTake, TakePending, JoinInv
<1>18. ASSUME NEW c \in Clients, PumpSeeExit(c) PROVE LockInv'
  BY <1>18 DEF PumpSeeExit, TakePending, JoinInv
<1>19. ASSUME NEW c \in Clients, PumpWrite(c) PROVE LockInv'
  BY <1>19 DEF PumpWrite, JoinInv
<1>20. ASSUME NEW c \in Clients, PumpWriteFails(c) PROVE LockInv'
  BY <1>20 DEF PumpWriteFails, JoinInv
<1>21. ASSUME NEW c \in Clients, PumpSkipText(c) PROVE LockInv'
  BY <1>21 DEF PumpSkipText, JoinInv
<1>22. ASSUME NEW c \in Clients, PumpFlushed(c) PROVE LockInv'
  BY <1>22 DEF PumpFlushed, JoinInv
<1>23. ASSUME NEW c \in Clients, PumpNotifyExit(c) PROVE LockInv'
  BY <1>23 DEF PumpNotifyExit, JoinInv
<1>24. ASSUME NEW c \in Clients, PumpClientDone(c) PROVE LockInv'
  BY <1>24 DEF PumpClientDone, JoinInv
<1>25. CASE UNCHANGED vars
  BY <1>25 DEF vars, JoinInv
<1>26. QED
  BY <1>1, <1>2, <1>3, <1>4, <1>5, <1>6, <1>7, <1>8, <1>9, <1>10, <1>11, <1>12, <1>13, <1>14, <1>15, <1>16, <1>17, <1>18, <1>19, <1>20, <1>21, <1>22, <1>23, <1>24, <1>25
  DEF Next, ReaderStep, HandlerStep, JoinStep, PumpStep

LEMMA JoinInvStep == TypeOK /\ LockInv /\ JoinInv /\ [Next]_vars => JoinInv'
<1> SUFFICES ASSUME TypeOK, LockInv, JoinInv, [Next]_vars PROVE JoinInv'
  OBVIOUS
<1> USE ConstAssumption DEF TypeOK, JoinInv, readerVars, queueVars, pumpVars, linkVars
<1>1. CASE PtyRead
  BY <1>1 DEF PtyRead, LockInv
<1>2. CASE ApplyOutput
  BY <1>2 DEF ApplyOutput, LockInv
<1>3. CASE UnlockOutput
  BY <1>3 DEF UnlockOutput, LockInv
<1>4. CASE MarkDead
  BY <1>4 DEF MarkDead, LockInv
<1>5. CASE CloseDone
  BY <1>5 DEF CloseDone, LockInv
<1>6. ASSUME NEW c \in Clients, QueueBinary(c) PROVE JoinInv'
  BY <1>6 DEF QueueBinary, LockInv
<1>7. ASSUME NEW c \in Clients, CheckAlive(c) PROVE JoinInv'
  BY <1>7 DEF CheckAlive, LockInv
<1>8. ASSUME NEW c \in Clients, Upgrade(c) PROVE JoinInv'
  BY <1>8 DEF Upgrade, LockInv
<1>9. ASSUME NEW c \in Clients, LoseConn(c) PROVE JoinInv'
  BY <1>9 DEF LoseConn, LockInv
<1>10. ASSUME NEW c \in Clients, EndReadLoop(c) PROVE JoinInv'
  BY <1>10 DEF EndReadLoop, LockInv
<1>11. ASSUME NEW c \in Clients, DetachClient(c) PROVE JoinInv'
  BY <1>11 DEF DetachClient, LockInv
<1>12. ASSUME NEW c \in Clients, WakeJoin(c) PROVE JoinInv'
  BY <1>12 DEF WakeJoin, LockInv
<1>13. ASSUME NEW c \in Clients, CancelJoin(c) PROVE JoinInv'
  BY <1>13 DEF CancelJoin, LockInv
<1>14. ASSUME NEW c \in Clients, AttachSnapshot(c) PROVE JoinInv'
  BY <1>14 DEF AttachSnapshot, LockInv
<1>15. ASSUME NEW c \in Clients, AttachAppend(c) PROVE JoinInv'
  BY <1>15 DEF AttachAppend, LockInv
<1>16. ASSUME NEW c \in Clients, PumpWake(c) PROVE JoinInv'
  BY <1>16 DEF PumpWake, LockInv
<1>17. ASSUME NEW c \in Clients, PumpTake(c) PROVE JoinInv'
  BY <1>17 DEF PumpTake, TakePending, LockInv
<1>18. ASSUME NEW c \in Clients, PumpSeeExit(c) PROVE JoinInv'
  BY <1>18 DEF PumpSeeExit, TakePending, LockInv
<1>19. ASSUME NEW c \in Clients, PumpWrite(c) PROVE JoinInv'
  BY <1>19 DEF PumpWrite, LockInv
<1>20. ASSUME NEW c \in Clients, PumpWriteFails(c) PROVE JoinInv'
  BY <1>20 DEF PumpWriteFails, LockInv
<1>21. ASSUME NEW c \in Clients, PumpSkipText(c) PROVE JoinInv'
  BY <1>21 DEF PumpSkipText, LockInv
<1>22. ASSUME NEW c \in Clients, PumpFlushed(c) PROVE JoinInv'
  BY <1>22 DEF PumpFlushed, LockInv
<1>23. ASSUME NEW c \in Clients, PumpNotifyExit(c) PROVE JoinInv'
  BY <1>23 DEF PumpNotifyExit, LockInv
<1>24. ASSUME NEW c \in Clients, PumpClientDone(c) PROVE JoinInv'
  BY <1>24 DEF PumpClientDone, LockInv
<1>25. CASE UNCHANGED vars
  BY <1>25 DEF vars, LockInv
<1>26. QED
  BY <1>1, <1>2, <1>3, <1>4, <1>5, <1>6, <1>7, <1>8, <1>9, <1>10, <1>11, <1>12, <1>13, <1>14, <1>15, <1>16, <1>17, <1>18, <1>19, <1>20, <1>21, <1>22, <1>23, <1>24, <1>25
  DEF Next, ReaderStep, HandlerStep, JoinStep, PumpStep

LEMMA WakeStep == TypeOK /\ JoinInv /\ WakeInv /\ [Next]_vars => WakeInv'
<1> SUFFICES ASSUME TypeOK, JoinInv, WakeInv, [Next]_vars PROVE WakeInv'
  OBVIOUS
<1> USE DEF TypeOK, WakeInv, readerVars, queueVars, pumpVars, linkVars
<1>1. CASE PtyRead
  BY <1>1 DEF PtyRead, JoinInv
<1>2. CASE ApplyOutput
  BY <1>2 DEF ApplyOutput, JoinInv
<1>3. CASE UnlockOutput
  BY <1>3 DEF UnlockOutput, JoinInv
<1>4. CASE MarkDead
  BY <1>4 DEF MarkDead, JoinInv
<1>5. CASE CloseDone
  BY <1>5 DEF CloseDone, JoinInv
<1>6. ASSUME NEW c \in Clients, QueueBinary(c) PROVE WakeInv'
  BY <1>6, ZenonT(60) DEF QueueBinary, JoinInv
<1>7. ASSUME NEW c \in Clients, CheckAlive(c) PROVE WakeInv'
  BY <1>7 DEF CheckAlive, JoinInv
<1>8. ASSUME NEW c \in Clients, Upgrade(c) PROVE WakeInv'
  BY <1>8 DEF Upgrade, JoinInv
<1>9. ASSUME NEW c \in Clients, LoseConn(c) PROVE WakeInv'
  BY <1>9 DEF LoseConn, JoinInv
<1>10. ASSUME NEW c \in Clients, EndReadLoop(c) PROVE WakeInv'
  BY <1>10 DEF EndReadLoop, JoinInv
<1>11. ASSUME NEW c \in Clients, DetachClient(c) PROVE WakeInv'
  BY <1>11 DEF DetachClient, JoinInv
<1>12. ASSUME NEW c \in Clients, WakeJoin(c) PROVE WakeInv'
  BY <1>12 DEF WakeJoin, JoinInv
<1>13. ASSUME NEW c \in Clients, CancelJoin(c) PROVE WakeInv'
  BY <1>13 DEF CancelJoin, JoinInv
<1>14. ASSUME NEW c \in Clients, AttachSnapshot(c) PROVE WakeInv'
  BY <1>14 DEF AttachSnapshot, JoinInv
<1>15. ASSUME NEW c \in Clients, AttachAppend(c) PROVE WakeInv'
  BY <1>15 DEF AttachAppend, JoinInv
<1>16. ASSUME NEW c \in Clients, PumpWake(c) PROVE WakeInv'
  BY <1>16 DEF PumpWake, JoinInv
<1>17. ASSUME NEW c \in Clients, PumpTake(c) PROVE WakeInv'
  BY <1>17 DEF PumpTake, TakePending, JoinInv
<1>18. ASSUME NEW c \in Clients, PumpSeeExit(c) PROVE WakeInv'
  BY <1>18 DEF PumpSeeExit, TakePending, JoinInv
<1>19. ASSUME NEW c \in Clients, PumpWrite(c) PROVE WakeInv'
  BY <1>19 DEF PumpWrite, JoinInv
<1>20. ASSUME NEW c \in Clients, PumpWriteFails(c) PROVE WakeInv'
  BY <1>20 DEF PumpWriteFails, JoinInv
<1>21. ASSUME NEW c \in Clients, PumpSkipText(c) PROVE WakeInv'
  BY <1>21 DEF PumpSkipText, JoinInv
<1>22. ASSUME NEW c \in Clients, PumpFlushed(c) PROVE WakeInv'
  BY <1>22 DEF PumpFlushed, JoinInv
<1>23. ASSUME NEW c \in Clients, PumpNotifyExit(c) PROVE WakeInv'
  BY <1>23 DEF PumpNotifyExit, JoinInv
<1>24. ASSUME NEW c \in Clients, PumpClientDone(c) PROVE WakeInv'
  BY <1>24 DEF PumpClientDone, JoinInv
<1>25. CASE UNCHANGED vars
  BY <1>25 DEF vars, JoinInv
<1>26. QED
  BY <1>1, <1>2, <1>3, <1>4, <1>5, <1>6, <1>7, <1>8, <1>9, <1>10, <1>11, <1>12, <1>13, <1>14, <1>15, <1>16, <1>17, <1>18, <1>19, <1>20, <1>21, <1>22, <1>23, <1>24, <1>25
  DEF Next, ReaderStep, HandlerStep, JoinStep, PumpStep

-----------------------------------------------------------------------------
(* The frames. *)

\* The part of the invariant the queues depend on.
Inv0 == TypeOK /\ LockInv /\ JoinInv /\ FrameInv /\ RunInv

LEMMA QueueBinaryFrame ==
  ASSUME Inv0, NEW c \in Clients, QueueBinary(c)
  PROVE  FrameInv'
<1>1. CASE overflow[c]
  BY <1>1 DEF QueueBinary, Inv0, FrameInv, Bounded, queueVars, pumpVars
<1>2. CASE ~overflow[c]
  <2> DEFINE s == out[c]
             f == Chunk(applied)
  <2>1. /\ out' = [out EXCEPT ![c] = Append(s, f)] /\ c \in fanout
        /\ applied' = applied /\ exited' = exited
        /\ inflight' = inflight /\ pump' = pump /\ view' = view
    BY <1>2 DEF QueueBinary, pumpVars
  <2>2. s \in Seq(Frame) /\ f \in Frame /\ f.text = FALSE /\ f.upto = applied /\ applied \in Nat
    BY ConstAssumption DEF Inv0, TypeOK, Chunk, Frame
  <2>3. applied >= 1
    BY <2>1, <2>2 DEF Inv0, JoinInv, LockInv
  <2>4. Bounded(Append(s, f))
    BY <2>2, <2>3, AppendFacts DEF Inv0, FrameInv, Bounded
  <2>5. \A d \in Clients : Bounded(out'[d])
    BY <2>1, <2>4 DEF Inv0, FrameInv, TypeOK
  <2>6. QED
    BY <2>1, <2>5 DEF Inv0, FrameInv, Bounded
<1>3. QED
  BY <1>1, <1>2


LEMMA ApplyOutputFrame ==
  ASSUME Inv0, ApplyOutput
  PROVE  FrameInv'
<1>1. /\ applied' = applied + 1 /\ applied \in Nat
      /\ exited' = exited /\ out' = out /\ inflight' = inflight /\ pump' = pump /\ view' = view
  BY DEF ApplyOutput, Inv0, LockInv, TypeOK, queueVars, pumpVars
<1>2. ASSUME NEW s \in Seq(Frame), Bounded(s) PROVE Bounded(s)'
  BY <1>1, <1>2, FrameFields DEF Bounded
<1>3. \A c \in Clients : view[c] \in Int /\ view[c] <= applied'
  BY <1>1 DEF Inv0, FrameInv, TypeOK, Fragment
<1>4. \A c \in Clients : Bounded(out[c])' /\ Bounded(inflight[c])'
  BY <1>1, FrameFields DEF Inv0, FrameInv, TypeOK, Bounded
<1>5. QED
  BY <1>1, <1>3, <1>4 DEF Inv0, FrameInv

LEMMA PumpWriteFrame ==
  ASSUME Inv0, NEW c \in Clients, PumpWrite(c)
  PROVE  FrameInv'
<1> DEFINE s == inflight[c]
           f == Head(s)
<1>1. /\ s \in Seq(Frame) /\ s # <<>> /\ Bounded(s) /\ applied \in Nat
      /\ view[c] \in Int /\ view[c] <= applied /\ (view[c] = Fragment => exited)
      /\ pump[c] \in {"flushing", "exiting"} /\ (pump[c] = "exiting" => exited)
  BY DEF PumpWrite, Inv0, TypeOK, FrameInv, Fragment
<1>2. /\ inflight' = [inflight EXCEPT ![c] = Tail(s)]
      /\ view' = IF conn[c] THEN [view EXCEPT ![c] = Render(view[c], f)] ELSE view
      /\ pump' = pump /\ out' = out /\ applied' = applied /\ exited' = exited
  BY DEF PumpWrite, readerVars, queueVars
<1>3. f = s[1] /\ f \in Frame /\ f.upto \in Nat /\ f.upto <= applied
  BY <1>1, TailFacts, FrameFields DEF Bounded
<1>4. Bounded(Tail(s))
  BY <1>1, TailFacts DEF Bounded
<1>5. Render(view[c], f) <= applied /\ (conn[c] /\ Render(view[c], f) = Fragment => exited)
  <2>1. Render(view[c], f) \in {f.upto, Fragment}
    BY DEF Render
  <2>2. CASE conn[c] /\ pump[c] = "flushing"
    <3>1. Continues(view[c], f)
      BY <1>1, <1>3, <2>2 DEF Inv0, RunInv, RunOf, Linked
    <3>2. Render(view[c], f) = f.upto
      BY <1>1, <1>3, <3>1, FrameFields DEF Render, Continues
    <3>3. QED
      BY <1>3, <3>2 DEF Fragment
  <2>3. CASE ~conn[c] \/ pump[c] = "exiting"
    BY <1>1, <1>3, <2>1, <2>3 DEF Fragment
  <2>4. QED
    BY <1>1, <2>2, <2>3
<1>6. view'[c] <= applied /\ (view'[c] = Fragment => exited)
  BY <1>1, <1>2, <1>5 DEF Inv0, TypeOK
<1>7. inflight'[c] = Tail(s) /\ \A d \in Clients \ {c} : inflight'[d] = inflight[d] /\ view'[d] = view[d]
  BY <1>2 DEF Inv0, TypeOK
<1>8. ASSUME NEW d \in Clients
      PROVE  /\ Bounded(out[d])' /\ Bounded(inflight[d])'
             /\ (pump[d] \in {"select", "taking"} => inflight[d] = <<>>)'
             /\ (pump[d] = "exiting" => exited)'
             /\ (view[d] <= applied /\ (view[d] = Fragment => exited))'
  <2>1. CASE d = c
    BY <1>1, <1>2, <1>4, <1>6, <1>7, <2>1 DEF Inv0, FrameInv, Bounded
  <2>2. CASE d # c
    BY <1>2, <1>7, <2>2 DEF Inv0, FrameInv, Bounded
  <2>3. QED
    BY <2>1, <2>2
<1>9. QED
  BY <1>8 DEF FrameInv

LEMMA FrameStep == Inv0 /\ [Next]_vars => FrameInv'
<1> SUFFICES ASSUME Inv0, [Next]_vars PROVE FrameInv'
  OBVIOUS
<1> USE ConstAssumption DEF Inv0, TypeOK, LockInv, JoinInv, FrameInv, readerVars, queueVars, pumpVars, linkVars
<1>1. CASE PtyRead
  BY <1>1 DEF PtyRead, Bounded, Snapshot, Fragment, Frame
<1>2. CASE ApplyOutput
  BY <1>2, ApplyOutputFrame
<1>3. CASE UnlockOutput
  BY <1>3 DEF UnlockOutput, Bounded, Snapshot, Fragment, Frame
<1>4. CASE MarkDead
  BY <1>4 DEF MarkDead, Bounded, Snapshot, Fragment, Frame
<1>5. CASE CloseDone
  BY <1>5 DEF CloseDone, Bounded, Snapshot, Fragment, Frame
<1>6. ASSUME NEW c \in Clients, QueueBinary(c) PROVE FrameInv'
  BY <1>6, QueueBinaryFrame
<1>7. ASSUME NEW c \in Clients, CheckAlive(c) PROVE FrameInv'
  BY <1>7 DEF CheckAlive, Bounded, Snapshot, Fragment, Frame
<1>8. ASSUME NEW c \in Clients, Upgrade(c) PROVE FrameInv'
  BY <1>8 DEF Upgrade, Bounded, Snapshot, Fragment, Frame
<1>9. ASSUME NEW c \in Clients, LoseConn(c) PROVE FrameInv'
  BY <1>9 DEF LoseConn, Bounded, Snapshot, Fragment, Frame
<1>10. ASSUME NEW c \in Clients, EndReadLoop(c) PROVE FrameInv'
  BY <1>10 DEF EndReadLoop, Bounded, Snapshot, Fragment, Frame
<1>11. ASSUME NEW c \in Clients, DetachClient(c) PROVE FrameInv'
  BY <1>11 DEF DetachClient, Bounded, Snapshot, Fragment, Frame
<1>12. ASSUME NEW c \in Clients, WakeJoin(c) PROVE FrameInv'
  BY <1>12 DEF WakeJoin, Bounded, Snapshot, Fragment, Frame
<1>13. ASSUME NEW c \in Clients, CancelJoin(c) PROVE FrameInv'
  BY <1>13 DEF CancelJoin, Bounded, Snapshot, Fragment, Frame
<1>14. ASSUME NEW c \in Clients, AttachSnapshot(c) PROVE FrameInv'
  BY <1>14 DEF AttachSnapshot, Bounded, Snapshot, Fragment, Frame
<1>15. ASSUME NEW c \in Clients, AttachAppend(c) PROVE FrameInv'
  BY <1>15 DEF AttachAppend, Bounded, Snapshot, Fragment, Frame
<1>16. ASSUME NEW c \in Clients, PumpWake(c) PROVE FrameInv'
  BY <1>16 DEF PumpWake, Bounded, Snapshot, Fragment, Frame
<1>17. ASSUME NEW c \in Clients, PumpTake(c) PROVE FrameInv'
  BY <1>17, SMTT(30) DEF PumpTake, TakePending, Bounded, Snapshot, Fragment, Frame
<1>18. ASSUME NEW c \in Clients, PumpSeeExit(c) PROVE FrameInv'
  BY <1>18, SMTT(30) DEF PumpSeeExit, TakePending, Bounded, Snapshot, Fragment, Frame
<1>19. ASSUME NEW c \in Clients, PumpWrite(c) PROVE FrameInv'
  BY <1>19, PumpWriteFrame
<1>20. ASSUME NEW c \in Clients, PumpWriteFails(c) PROVE FrameInv'
  BY <1>20 DEF PumpWriteFails, Bounded, Snapshot, Fragment, Frame
<1>21. ASSUME NEW c \in Clients, PumpSkipText(c) PROVE FrameInv'
  BY <1>21 DEF PumpSkipText, Bounded, Snapshot, Fragment, Frame
<1>22. ASSUME NEW c \in Clients, PumpFlushed(c) PROVE FrameInv'
  BY <1>22, SMTT(30) DEF PumpFlushed, Bounded, Snapshot, Fragment, Frame
<1>23. ASSUME NEW c \in Clients, PumpNotifyExit(c) PROVE FrameInv'
  BY <1>23 DEF PumpNotifyExit, Bounded, Snapshot, Fragment, Frame
<1>24. ASSUME NEW c \in Clients, PumpClientDone(c) PROVE FrameInv'
  BY <1>24 DEF PumpClientDone, Bounded, Snapshot, Fragment, Frame
<1>25. CASE UNCHANGED vars
  BY <1>25 DEF vars, Bounded
<1>26. QED
  BY <1>1, <1>2, <1>3, <1>4, <1>5, <1>6, <1>7, <1>8, <1>9, <1>10, <1>11, <1>12, <1>13, <1>14, <1>15, <1>16, <1>17, <1>18, <1>19, <1>20, <1>21, <1>22, <1>23, <1>24, <1>25
  DEF Next, ReaderStep, HandlerStep, JoinStep, PumpStep

-----------------------------------------------------------------------------
(* Screen, frames in flight and queue form one run. *)

LEMMA RunElsewhere ==
  ASSUME RunInv, NEW c \in Clients,
         applied' = applied,
         \A d \in Clients \ {c} :
           /\ view'[d] = view[d] /\ out'[d] = out[d] /\ inflight'[d] = inflight[d]
           /\ pump'[d] = pump[d] /\ conn'[d] = conn[d] /\ join'[d] = join[d]
           /\ overflow'[d] = overflow[d]
           /\ (d \in clients') <=> (d \in clients)
           /\ (d \in fanout') <=> (d \in fanout),
         RunOf(c)'
  PROVE  RunInv'
<1> SUFFICES ASSUME NEW d \in Clients, d # c PROVE RunOf(d)'
  BY DEF RunInv
<1>1. RunOf(d)
  BY DEF RunInv
<1>2. QED
  BY <1>1 DEF RunOf, Linked, LastGiven, Ordered, Continues


LEMMA QueueBinaryRun ==
  ASSUME Inv0, NEW c \in Clients, QueueBinary(c)
  PROVE  RunInv'
<1>1. CASE overflow[c]
  BY <1>1 DEF QueueBinary, Inv0, RunInv, RunOf, Linked, LastGiven, Ordered, Continues, queueVars, pumpVars, linkVars
<1>2. CASE ~overflow[c]
  <2> DEFINE s == out[c]
             f == Chunk(applied)
  <2>1. /\ s \in Seq(Frame) /\ f \in Frame /\ f.text = FALSE /\ f.upto = applied
        /\ view[c] \in Int /\ applied \in Nat /\ inflight[c] \in Seq(Frame)
    BY DEF Inv0, TypeOK, Frame, Chunk, Fragment
  <2>2. /\ out' = [out EXCEPT ![c] = Append(s, f)]
        /\ fanout' = fanout \ {c} /\ c \in fanout /\ fanout \subseteq Clients
        /\ applied' = applied /\ clients' = clients /\ view' = view /\ inflight' = inflight
        /\ pump' = pump /\ conn' = conn /\ join' = join
    BY <1>2 DEF QueueBinary, pumpVars, linkVars, Inv0, TypeOK
  <2>3. \A d \in Clients \ {c} : overflow'[d] = overflow[d]
    BY <1>2 DEF QueueBinary, Inv0, TypeOK
  <2>4. out'[c] = Append(s, f)
    BY <2>2 DEF Inv0, TypeOK
  <2>5. ASSUME Linked(c) PROVE
        /\ view[c] >= 0
        /\ Ordered(s) /\ Ordered(inflight[c])
        /\ inflight[c] # <<>> => Continues(view[c], inflight[c][1])
        /\ inflight[c] = <<>> /\ s # <<>> => Continues(view[c], s[1])
        /\ inflight[c] # <<>> /\ s # <<>> =>
             ~s[1].text /\ s[1].upto = inflight[c][Len(inflight[c])].upto + 1
        /\ LastGiven(c) = applied - 1
    BY <1>2, <2>2, <2>5 DEF Inv0, RunInv, RunOf
  <2>6. ASSUME Linked(c) PROVE
        /\ Ordered(Append(s, f))
        /\ inflight[c] = <<>> => Continues(view[c], Append(s, f)[1])
        /\ inflight[c] # <<>> =>
             ~Append(s, f)[1].text /\ Append(s, f)[1].upto = inflight[c][Len(inflight[c])].upto + 1
        /\ Append(s, f)[Len(Append(s, f))].upto = applied
    <3>1. CASE s = <<>>
      <4>1. Len(Append(s, f)) = 1 /\ Append(s, f)[1] = f
        BY <2>1, <3>1, AppendFacts
      <4>2. Ordered(Append(s, f))
        BY <4>1 DEF Ordered
      <4>3. inflight[c] = <<>> => view[c] = applied - 1
        BY <2>5, <2>6, <3>1 DEF LastGiven
      <4>4. inflight[c] # <<>> => inflight[c][Len(inflight[c])].upto = applied - 1
        BY <2>5, <2>6, <3>1 DEF LastGiven
      <4>5. QED
        BY <2>1, <4>1, <4>2, <4>3, <4>4 DEF Continues
    <3>2. CASE s # <<>>
      <4>1. s[Len(s)].upto = applied - 1 /\ Len(s) \in Nat /\ Len(s) >= 1
        BY <2>1, <2>5, <2>6, <3>2 DEF LastGiven
      <4>2. Ordered(Append(s, f))
        BY <2>1, <2>5, <2>6, <4>1, AppendFacts, SMTT(30) DEF Ordered
      <4>3. Append(s, f)[1] = s[1] /\ Append(s, f)[Len(Append(s, f))] = f
        BY <2>1, <4>1, AppendFacts
      <4>4. QED
        BY <2>1, <2>5, <2>6, <3>2, <4>2, <4>3
    <3>3. QED
      BY <3>1, <3>2
  <2>7. Linked(c)' <=> Linked(c)
    BY <2>2 DEF Linked
  <2>8. LastGiven(c)' = Append(s, f)[Len(Append(s, f))].upto
    BY <2>1, <2>4, AppendFacts DEF LastGiven
  <2>9. RunOf(c)'
    BY <2>1, <2>2, <2>4, <2>5, <2>6, <2>7, <2>8, AppendFacts DEF RunOf, Ordered, Continues
  <2>10. QED
    BY <2>2, <2>3, <2>9, RunElsewhere DEF Inv0
<1>3. QED
  BY <1>1, <1>2

LEMMA AttachSnapshotRun ==
  ASSUME Inv0, NEW c \in Clients, AttachSnapshot(c)
  PROVE  RunInv'
<1> DEFINE f == Snapshot(applied)
<1>1. /\ f \in Frame /\ f.text = TRUE /\ f.upto = applied /\ applied \in Nat
      /\ out[c] = <<>> /\ inflight[c] = <<>> /\ view[c] = 0
      /\ c \notin clients \cup fanout
  BY DEF AttachSnapshot, Inv0, TypeOK, JoinInv, Frame, Snapshot
<1>2. /\ out' = [out EXCEPT ![c] = Append(out[c], f)]
      /\ fanout' = fanout /\ applied' = applied /\ clients' = clients
      /\ view' = view /\ inflight' = inflight /\ overflow' = overflow
      /\ pump' = pump /\ conn' = conn
      /\ \A d \in Clients \ {c} : join'[d] = join[d]
  BY DEF AttachSnapshot, pumpVars, readerVars, Inv0, TypeOK
<1>3. out'[c] = Append(<<>>, f) /\ Len(Append(<<>>, f)) = 1 /\ Append(<<>>, f)[1] = f
  BY <1>1, <1>2 DEF Inv0, TypeOK
<1>4. RunOf(c)'
  <2>1. LastGiven(c)' = applied /\ out'[c] # <<>> /\ Continues(view'[c], out'[c][1])
    <3>1. out'[c] # <<>> /\ out'[c][1] = f /\ Len(out'[c]) = 1 /\ view'[c] = 0
      BY <1>1, <1>2, <1>3, AppendFacts
    <3>2. LastGiven(c)' = applied
      BY <1>1, <3>1 DEF LastGiven
    <3>3. Continues(view'[c], out'[c][1])
      BY <1>1, <3>1 DEF Continues
    <3>4. QED
      BY <3>1, <3>2, <3>3
  <2>2. Ordered(out'[c]) /\ Ordered(inflight'[c]) /\ inflight'[c] = <<>>
    BY <1>1, <1>2, <1>3 DEF Ordered
  <2>3. QED
    BY <1>1, <1>2, <2>1, <2>2 DEF RunOf, Ordered
<1>5. QED
  BY <1>2, <1>4, RunElsewhere DEF Inv0, TypeOK

LEMMA PumpTakeRun ==
  ASSUME Inv0, NEW c \in Clients, PumpTake(c)
  PROVE  RunInv'
<1>1. inflight[c] = <<>> /\ pump[c] = "taking"
  BY DEF PumpTake, Inv0, FrameInv
<1>2. /\ inflight' = [inflight EXCEPT ![c] = out[c]] /\ out' = [out EXCEPT ![c] = <<>>]
      /\ pump' = [pump EXCEPT ![c] = "flushing"]
      /\ view' = view /\ overflow' = overflow /\ conn' = conn /\ join' = join
      /\ applied' = applied /\ clients' = clients /\ fanout' = fanout
  BY DEF PumpTake, TakePending, readerVars, linkVars
<1>3. inflight'[c] = out[c] /\ out'[c] = <<>> /\ pump'[c] = "flushing"
  BY <1>2 DEF Inv0, TypeOK
<1>4. RunOf(c)'
  BY <1>1, <1>2, <1>3 DEF Inv0, RunInv, RunOf, Linked, Ordered, Continues, LastGiven
<1>5. QED
  BY <1>2, <1>4, RunElsewhere DEF Inv0, TypeOK

LEMMA PumpWriteRun ==
  ASSUME Inv0, NEW c \in Clients, PumpWrite(c)
  PROVE  RunInv'
<1> DEFINE s == inflight[c]
<1>1. /\ s \in Seq(Frame) /\ s # <<>> /\ view[c] \in Int /\ applied \in Nat
      /\ out[c] \in Seq(Frame)
  BY DEF PumpWrite, Inv0, TypeOK, Fragment
<1>2. /\ inflight' = [inflight EXCEPT ![c] = Tail(s)]
      /\ view' = IF conn[c] THEN [view EXCEPT ![c] = Render(view[c], Head(s))] ELSE view
      /\ pump' = pump /\ out' = out /\ overflow' = overflow /\ conn' = conn /\ join' = join
      /\ applied' = applied /\ clients' = clients /\ fanout' = fanout
  BY DEF PumpWrite, readerVars, linkVars, queueVars
<1>3. SUFFICES ASSUME Linked(c)' PROVE RunOf(c)'
  <2>1. RunOf(c)'
    BY <1>3 DEF RunOf
  <2>2. QED
    BY <1>2, <2>1, RunElsewhere DEF Inv0, TypeOK
<1>4. Linked(c) /\ conn[c]
  BY <1>2, <1>3 DEF Linked
<1>5. /\ Ordered(s) /\ Ordered(out[c]) /\ Continues(view[c], s[1]) /\ view[c] >= 0
      /\ out[c] # <<>> => ~out[c][1].text /\ out[c][1].upto = s[Len(s)].upto + 1
      /\ (c \in clients \cup fanout \/ join[c] = "joining") /\ ~overflow[c] =>
           LastGiven(c) = IF c \in fanout THEN applied - 1 ELSE applied
  BY <1>1, <1>4 DEF Inv0, RunInv, RunOf
<1>6. inflight'[c] = Tail(s) /\ view'[c] = s[1].upto /\ view'[c] \in Nat
  <2>1. inflight'[c] = Tail(s) /\ view'[c] = Render(view[c], s[1])
    BY <1>1, <1>2, <1>4, TailFacts DEF Inv0, TypeOK
  <2>2. Render(view[c], s[1]) = s[1].upto
    BY <1>1, <1>5, TailFacts, FrameFields DEF Render, Continues
  <2>3. QED
    BY <1>1, <2>1, <2>2, TailFacts, FrameFields
<1>7. Ordered(Tail(s))
  BY <1>1, <1>5, TailFacts DEF Ordered
<1>8. CASE Len(s) = 1
  <2>1. Tail(s) = <<>>
    BY <1>1, <1>8, TailFacts
  <2>2. out[c] # <<>> => Continues(s[1].upto, out[c][1])
    BY <1>5, <1>8 DEF Continues
  <2>3. LastGiven(c)' = LastGiven(c)
    BY <1>1, <1>2, <1>6, <1>8, <2>1 DEF LastGiven
  <2>5. Ordered(Tail(s))
    BY <1>7
  <2>6. view'[c] >= 0
    BY <1>6
  <2>7. Ordered(out'[c]) /\ Ordered(inflight'[c])
    BY <1>2, <1>5, <1>6, <2>5
  <2>8. inflight'[c] = <<>> /\ (out'[c] # <<>> => Continues(view'[c], out'[c][1]))
    BY <1>2, <1>6, <2>1, <2>2
  <2>9. (c \in clients' \cup fanout' \/ join'[c] = "joining") /\ ~overflow'[c] =>
           LastGiven(c)' = IF c \in fanout' THEN applied' - 1 ELSE applied'
    BY <1>2, <1>5, <2>3
  <2>10. QED
    BY <2>6, <2>7, <2>8, <2>9 DEF RunOf
<1>9. CASE Len(s) # 1
  <2>1. /\ Tail(s) # <<>> /\ Tail(s)[1] = s[2] /\ Len(s) >= 2 /\ Len(s) \in Nat
        /\ Tail(s)[Len(Tail(s))] = s[Len(s)]
    BY <1>1, <1>9, TailFacts
  <2>2. Continues(s[1].upto, Tail(s)[1])
    BY <1>5, <2>1 DEF Ordered, Continues
  <2>3. LastGiven(c)' = LastGiven(c)
    BY <1>1, <1>2, <1>6, <2>1 DEF LastGiven
  <2>5. out[c] # <<>> => ~out[c][1].text /\ out[c][1].upto = Tail(s)[Len(Tail(s))].upto + 1
    BY <1>5, <2>1
  <2>6. view'[c] >= 0
    BY <1>6
  <2>7. Ordered(out'[c]) /\ Ordered(inflight'[c])
    BY <1>2, <1>5, <1>6, <1>7
  <2>8. inflight'[c] # <<>> /\ Continues(view'[c], inflight'[c][1])
    BY <1>6, <2>1, <2>2
  <2>9. out'[c] # <<>> =>
             ~out'[c][1].text /\ out'[c][1].upto = inflight'[c][Len(inflight'[c])].upto + 1
    BY <1>2, <1>6, <2>5
  <2>10. (c \in clients' \cup fanout' \/ join'[c] = "joining") /\ ~overflow'[c] =>
           LastGiven(c)' = IF c \in fanout' THEN applied' - 1 ELSE applied'
    BY <1>2, <1>5, <2>3
  <2>11. QED
    BY <2>6, <2>7, <2>8, <2>9, <2>10 DEF RunOf
<1>10. QED
  BY <1>8, <1>9

LEMMA PumpFlushedRun ==
  ASSUME Inv0, NEW c \in Clients, PumpFlushed(c)
  PROVE  RunInv'
<1>1. /\ view' = view /\ out' = out /\ inflight' = inflight /\ overflow' = overflow /\ join' = join
      /\ applied' = applied /\ clients' = clients /\ fanout' = fanout /\ pump[c] = "flushing"
      /\ \A d \in Clients \ {c} : pump'[d] = pump[d] /\ conn'[d] = conn[d]
      /\ Linked(c)' => conn[c]
  BY DEF PumpFlushed, readerVars, queueVars, Linked, Inv0, TypeOK
<1>2. Linked(c)' => Linked(c)
  BY <1>1 DEF Linked
<1>3. RunOf(c)'
  BY <1>1, <1>2 DEF Inv0, RunInv, RunOf, Ordered, Continues, LastGiven
<1>4. QED
  BY <1>1, <1>3, RunElsewhere DEF Inv0

LEMMA PumpSkipTextRun ==
  ASSUME Inv0, NEW c \in Clients, PumpSkipText(c)
  PROVE  RunInv'
<1>1. /\ view' = view /\ out' = out /\ overflow' = overflow /\ join' = join /\ pump' = pump /\ conn' = conn
      /\ applied' = applied /\ clients' = clients /\ fanout' = fanout /\ pump[c] = "exiting"
      /\ \A d \in Clients \ {c} : inflight'[d] = inflight[d]
  BY DEF PumpSkipText, readerVars, queueVars, linkVars, Inv0, TypeOK
<1>2. RunOf(c)'
  BY <1>1 DEF RunOf, Linked
<1>3. QED
  BY <1>1, <1>2, RunElsewhere DEF Inv0

LEMMA RunStep == Inv0 /\ [Next]_vars => RunInv'
<1> SUFFICES ASSUME Inv0, [Next]_vars PROVE RunInv'
  OBVIOUS
<1> USE ConstAssumption DEF Inv0, TypeOK, LockInv, JoinInv, FrameInv, RunInv, readerVars, queueVars, pumpVars, linkVars
<1>1. CASE PtyRead
  BY <1>1 DEF PtyRead, RunOf, Linked, LastGiven, Ordered, Continues
<1>2. CASE ApplyOutput
  BY <1>2 DEF ApplyOutput, RunOf, Linked, LastGiven, Ordered, Continues
<1>3. CASE UnlockOutput
  BY <1>3 DEF UnlockOutput, RunOf, Linked, LastGiven, Ordered, Continues
<1>4. CASE MarkDead
  BY <1>4 DEF MarkDead, RunOf, Linked, LastGiven, Ordered, Continues
<1>5. CASE CloseDone
  BY <1>5 DEF CloseDone, RunOf, Linked, LastGiven, Ordered, Continues
<1>6. ASSUME NEW c \in Clients, QueueBinary(c) PROVE RunInv'
  BY <1>6, QueueBinaryRun
<1>7. ASSUME NEW c \in Clients, CheckAlive(c) PROVE RunInv'
  BY <1>7 DEF CheckAlive, RunOf, Linked, LastGiven, Ordered, Continues
<1>8. ASSUME NEW c \in Clients, Upgrade(c) PROVE RunInv'
  BY <1>8 DEF Upgrade, RunOf, Linked, LastGiven, Ordered, Continues
<1>9. ASSUME NEW c \in Clients, LoseConn(c) PROVE RunInv'
  BY <1>9 DEF LoseConn, RunOf, Linked, LastGiven, Ordered, Continues
<1>10. ASSUME NEW c \in Clients, EndReadLoop(c) PROVE RunInv'
  BY <1>10 DEF EndReadLoop, RunOf, Linked, LastGiven, Ordered, Continues
<1>11. ASSUME NEW c \in Clients, DetachClient(c) PROVE RunInv'
  BY <1>11 DEF DetachClient, RunOf, Linked, LastGiven, Ordered, Continues
<1>12. ASSUME NEW c \in Clients, WakeJoin(c) PROVE RunInv'
  BY <1>12 DEF WakeJoin, RunOf, Linked, LastGiven, Ordered, Continues
<1>13. ASSUME NEW c \in Clients, CancelJoin(c) PROVE RunInv'
  BY <1>13 DEF CancelJoin, RunOf, Linked, LastGiven, Ordered, Continues
<1>14. ASSUME NEW c \in Clients, AttachSnapshot(c) PROVE RunInv'
  BY <1>14, AttachSnapshotRun
<1>15. ASSUME NEW c \in Clients, AttachAppend(c) PROVE RunInv'
  BY <1>15 DEF AttachAppend, RunOf, Linked, LastGiven, Ordered, Continues
<1>16. ASSUME NEW c \in Clients, PumpWake(c) PROVE RunInv'
  BY <1>16 DEF PumpWake, RunOf, Linked, LastGiven, Ordered, Continues
<1>17. ASSUME NEW c \in Clients, PumpTake(c) PROVE RunInv'
  BY <1>17, PumpTakeRun
<1>18. ASSUME NEW c \in Clients, PumpSeeExit(c) PROVE RunInv'
  BY <1>18 DEF PumpSeeExit, TakePending, RunOf, Linked, LastGiven, Ordered, Continues
<1>19. ASSUME NEW c \in Clients, PumpWrite(c) PROVE RunInv'
  BY <1>19, PumpWriteRun
<1>20. ASSUME NEW c \in Clients, PumpWriteFails(c) PROVE RunInv'
  BY <1>20 DEF PumpWriteFails, RunOf, Linked, LastGiven, Ordered, Continues
<1>21. ASSUME NEW c \in Clients, PumpSkipText(c) PROVE RunInv'
  BY <1>21, PumpSkipTextRun
<1>22. ASSUME NEW c \in Clients, PumpFlushed(c) PROVE RunInv'
  BY <1>22, PumpFlushedRun
<1>23. ASSUME NEW c \in Clients, PumpNotifyExit(c) PROVE RunInv'
  BY <1>23 DEF PumpNotifyExit, RunOf, Linked, LastGiven, Ordered, Continues
<1>24. ASSUME NEW c \in Clients, PumpClientDone(c) PROVE RunInv'
  BY <1>24 DEF PumpClientDone, RunOf, Linked, LastGiven, Ordered, Continues
<1>25. CASE UNCHANGED vars
  BY <1>25 DEF vars, RunOf, Linked, LastGiven, Ordered, Continues
<1>26. QED
  BY <1>1, <1>2, <1>3, <1>4, <1>5, <1>6, <1>7, <1>8, <1>9, <1>10, <1>11, <1>12, <1>13, <1>14, <1>15, <1>16, <1>17, <1>18, <1>19, <1>20, <1>21, <1>22, <1>23, <1>24, <1>25
  DEF Next, ReaderStep, HandlerStep, JoinStep, PumpStep

-----------------------------------------------------------------------------
(* The theorems. *)

LEMMA InitIInv == Init => IInv
<1> SUFFICES ASSUME Init PROVE IInv
  OBVIOUS
<1> USE ConstAssumption DEF Init
<1>1. TypeOK
  <2>1. /\ produced \in 0 .. MaxChunks /\ applied \in 0 .. MaxChunks
        /\ outBytes \in [Clients -> Nat] /\ view \in [Clients -> Nat \cup {Fragment}]
    BY DEF Fragment
  <2>2. /\ alive \in BOOLEAN /\ exited \in BOOLEAN
        /\ conn \in [Clients -> BOOLEAN] /\ notify \in [Clients -> BOOLEAN]
        /\ overflow \in [Clients -> BOOLEAN] /\ tooSlow \in [Clients -> BOOLEAN]
        /\ gotExit \in [Clients -> BOOLEAN]
    BY Zenon
  <2>3. /\ reader = "reading" /\ fanout \subseteq Clients /\ clients \subseteq Clients
        /\ outMu \in Clients \cup {Free, Reader}
    OBVIOUS
  <2>4. /\ handler \in [Clients -> {"idle", "checked", "open", "done", "gone"}]
        /\ join \in [Clients -> {"none", "waiting", "locking", "joining", "joined", "cancelled"}]
        /\ pump \in [Clients -> {"none", "select", "taking", "flushing", "exiting", "stopped"}]
    OBVIOUS
  <2>5. <<>> \in Seq(Frame)
    OBVIOUS
  <2>6. out \in [Clients -> Seq(Frame)] /\ inflight \in [Clients -> Seq(Frame)]
    BY <2>5
  <2>7. QED
    BY <2>1, <2>2, <2>3, <2>4, <2>6 DEF TypeOK
<1>2. LockInv /\ JoinInv /\ WakeInv
  BY DEF LockInv, JoinInv, WakeInv
<1>3. FrameInv
  BY DEF FrameInv, Bounded, Fragment
<1>4. RunInv
  BY DEF RunInv, RunOf, Linked
<1>5. QED
  BY <1>1, <1>2, <1>3, <1>4 DEF IInv

LEMMA NextIInv == IInv /\ [Next]_vars => IInv'
<1> SUFFICES ASSUME IInv, [Next]_vars PROVE IInv'
  OBVIOUS
<1>1. TypeOK /\ LockInv /\ JoinInv /\ WakeInv /\ Inv0
  BY DEF IInv, Inv0
<1>2. TypeOK' /\ LockInv' /\ JoinInv' /\ WakeInv'
  BY <1>1, TypeStep, LockStep, JoinInvStep, WakeStep
<1>3. FrameInv' /\ RunInv'
  BY <1>1, FrameStep, RunStep
<1>4. QED
  BY <1>2, <1>3 DEF IInv

\* The inductive invariant holds throughout.
THEOREM StreamInvariant == Spec => []IInv
BY InitIInv, NextIInv, PTL DEF Spec

\* No client of a running session shows output with a hole in it, however
\* joins, output, slow clients and overflows interleave (AttachClient's
\* "no chunk is lost between the two and none is delivered twice").
THEOREM StreamNoHole == Spec => []NoHoleWhileRunning
<1>1. IInv => NoHoleWhileRunning
  BY DEF IInv, FrameInv, NoHoleWhileRunning
<1>2. QED
  BY <1>1, StreamInvariant, PTL

\* The one-slot notify channel never loses the wake-up of a waiting writePump.
THEOREM StreamNoLostWakeup == Spec => []NoLostWakeup
<1>1. IInv => NoLostWakeup
  BY DEF IInv, WakeInv, NoLostWakeup
<1>2. QED
  BY <1>1, StreamInvariant, PTL

\* Whenever outMu is free, every joined client that keeps up has been given
\* all that the terminal has been given (Session.Broadcast).
THEOREM StreamUpToDate == Spec => []JoinedIsUpToDate
<1>1. IInv => JoinedIsUpToDate
  <2> SUFFICES ASSUME IInv, outMu = Free, NEW c \in clients, Linked(c), ~overflow[c]
               PROVE  LastGiven(c) = applied
    BY DEF JoinedIsUpToDate
  <2>1. c \in Clients /\ fanout = {}
    BY ConstAssumption DEF IInv, TypeOK, LockInv
  <2>2. QED
    BY <2>1 DEF IInv, RunInv, RunOf
<1>2. QED
  BY <1>1, StreamInvariant, PTL

LEMMA PumpWriteShows ==
  ASSUME IInv, NEW c \in Clients, PumpWrite(c)
  PROVE  [Feed!Next]_(Feed!vars)
<1> DEFINE f == Head(inflight[c])
           v == view[c]
<1>1. /\ inflight[c] \in Seq(Frame) /\ inflight[c] # <<>>
      /\ applied \in Nat /\ produced \in Nat /\ applied <= produced
      /\ v \in Nat \cup {Fragment} /\ Bounded(inflight[c])
  BY DEF PumpWrite, IInv, TypeOK, LockInv, FrameInv
<1>2. /\ f = inflight[c][1] /\ f \in Frame /\ f.upto \in Nat /\ f.upto <= applied
      /\ ~f.text => f.upto >= 1
  BY <1>1, TailFacts, FrameFields DEF Bounded
<1>3. produced' = produced /\ exited' = exited
  BY DEF PumpWrite, readerVars
<1>4. CASE ~conn[c]
  BY <1>3, <1>4 DEF PumpWrite, Feed!vars
<1>5. ASSUME conn[c] PROVE view' = [view EXCEPT ![c] = Render(v, f)]
  BY <1>5 DEF PumpWrite
<1>6. CASE conn[c] /\ pump[c] = "flushing"
  <2>1. Continues(v, f)
    BY <1>1, <1>2, <1>6 DEF IInv, RunInv, RunOf, Linked
  <2>2. CASE f.text
    <3>1. v = 0 /\ view' = [view EXCEPT ![c] = f.upto] /\ f.upto \in 0 .. produced
      BY <1>1, <1>2, <1>5, <1>6, <2>1, <2>2 DEF Continues, Render
    <3>2. Feed!ShowSnapshot(c)
      BY <1>3, <3>1 DEF Feed!ShowSnapshot
    <3>3. QED
      BY <3>2 DEF Feed!Next
  <2>3. CASE ~f.text
    <3>1. /\ f.upto = v + 1 /\ view' = [view EXCEPT ![c] = v + 1]
          /\ v \in 0 .. produced - 1
      BY <1>1, <1>2, <1>5, <1>6, <2>1, <2>3 DEF Continues, Render, Fragment
    <3>2. Feed!ShowChunk(c)
      BY <1>3, <3>1 DEF Feed!ShowChunk
    <3>3. QED
      BY <3>2 DEF Feed!Next
  <2>4. QED
    BY <2>2, <2>3
<1>7. CASE conn[c] /\ pump[c] = "exiting"
  <2>1. ~f.text /\ exited
    BY <1>7 DEF PumpWrite, IInv, FrameInv
  <2>2. CASE v + 1 = f.upto
    <3>1. view' = [view EXCEPT ![c] = v + 1] /\ v \in 0 .. produced - 1
      BY <1>1, <1>2, <1>5, <1>7, <2>1, <2>2 DEF Render, Fragment
    <3>2. Feed!ShowChunk(c)
      BY <1>3, <3>1 DEF Feed!ShowChunk
    <3>3. QED
      BY <3>2 DEF Feed!Next
  <2>3. CASE v + 1 # f.upto
    <3>1. view' = [view EXCEPT ![c] = Fragment]
      BY <1>5, <1>7, <2>1, <2>3 DEF Render
    <3>2. Feed!LoseSnapshot(c)
      BY <1>3, <2>1, <3>1 DEF Feed!LoseSnapshot, Feed!Fragment, Fragment
    <3>3. QED
      BY <3>2 DEF Feed!Next
  <2>4. QED
    BY <2>2, <2>3
<1>8. QED
  BY <1>4, <1>6, <1>7 DEF PumpWrite

LEMMA StepShows == IInv /\ [Next]_vars => [Feed!Next]_(Feed!vars)
<1> SUFFICES ASSUME IInv, [Next]_vars PROVE [Feed!Next]_(Feed!vars)
  OBVIOUS
<1>1. CASE PtyRead
  BY <1>1 DEF PtyRead, pumpVars, IInv, LockInv, Feed!Next, Feed!Emit
<1>2. CASE CloseDone
  BY <1>2 DEF CloseDone, pumpVars, IInv, LockInv, Feed!Next, Feed!End
<1>3. ASSUME NEW c \in Clients, PumpWrite(c) PROVE [Feed!Next]_(Feed!vars)
  BY <1>3, PumpWriteShows
<1>4. CASE ApplyOutput \/ UnlockOutput \/ MarkDead \/ UNCHANGED vars
  BY <1>4 DEF ApplyOutput, UnlockOutput, MarkDead, vars, readerVars, pumpVars, Feed!vars
<1>5. ASSUME NEW c \in Clients, QueueBinary(c) \/ HandlerStep(c) \/ JoinStep(c)
      PROVE  UNCHANGED Feed!vars
  BY <1>5 DEF QueueBinary, HandlerStep, CheckAlive, Upgrade, LoseConn, EndReadLoop, DetachClient,
     JoinStep, WakeJoin, CancelJoin, AttachSnapshot, AttachAppend, readerVars, pumpVars, Feed!vars
<1>6. ASSUME NEW c \in Clients, PumpStep(c), ~PumpWrite(c)
      PROVE  UNCHANGED Feed!vars
  BY <1>6 DEF PumpStep, PumpWake, PumpTake, PumpSeeExit, PumpWriteFails, PumpSkipText,
     PumpFlushed, PumpNotifyExit, PumpClientDone, readerVars, Feed!vars
<1>7. QED
  BY <1>1, <1>2, <1>3, <1>4, <1>5, <1>6 DEF Next, ReaderStep

\* The session keeps the promise of OutputFeed to each of its viewers: a
\* view starts blank, jumps at most once to a snapshot, then advances chunk
\* by chunk behind the shell; only the exit of the shell may cut it.
THEOREM StreamImplementsFeed == Spec => FeedSpec
<1>1. Init => Feed!Init
  BY DEF Init, Feed!Init
<1>2. QED
  BY <1>1, StepShows, StreamInvariant, PTL DEF Spec, FeedSpec, Feed!Spec
=============================================================================
