----------------------------- MODULE RingBuffer -----------------------------
(***************************************************************************)
(* The fixed-size scrollback ring of a session (session.go, RingBuffer).   *)
(*                                                                         *)
(* A byte is identified by its offset in the PTY's output stream (1 for    *)
(* the first byte), so "which bytes, in which order" is all the data the   *)
(* model keeps.  Every method runs under r.mu, so each is one step.        *)
(* `first' and `total' are history variables: the ring has been given the  *)
(* bytes first+1 .. total since it was created or last loaded.             *)
(***************************************************************************)
EXTENDS Integers, Sequences

CONSTANTS
  Cap,       \* len(r.buf): the -scrollback size
  MaxWrite,  \* bound: largest slice passed to Write (ptyReadBuf in the code)
  MaxTotal,  \* bound: offset of the last byte the PTY produces
  MaxFile    \* bound: size of a scrollback file left by an earlier run

ASSUME CapAssumption == Cap \in Nat \ {0}
ASSUME BoundAssumption == MaxWrite \in Nat /\ MaxTotal \in Nat /\ MaxFile \in Nat

VARIABLES
  buf,    \* the byte slots, 0 where nothing was ever written
  pos,    \* next slot to write
  full,   \* the ring has wrapped: every slot counts
  file,   \* what the scrollback file holds
  first, total

ringVars == <<buf, pos, full, file, first, total>>

Slots == 0 .. Cap - 1

\* A consecutive run of stream bytes from+1 .. to.
Bytes(from, to) == [i \in 1 .. to - from |-> from + i]

-----------------------------------------------------------------------------
\* readAll: oldest to newest.
ReadAll ==
  IF full THEN [i \in 1 .. Cap |-> buf[IF pos + i - 1 < Cap THEN pos + i - 1
                                                            ELSE pos + i - 1 - Cap]]
          ELSE [i \in 1 .. pos |-> buf[i - 1]]

\* Len, computed by the code without copying the bytes.
RingLen == IF full THEN Cap ELSE pos

\* Mutant: the overhang is copied one slot too far.
Copied_OffByOne(n) ==
  [i \in Slots |->
     IF pos <= i /\ i < pos + n THEN total + 1 + (i - pos)
     ELSE IF 0 < i /\ i <= pos + n - Cap THEN total + (i + Cap - pos)
     ELSE buf[i]]

\* The slots after n bytes were copied in at pos, the overhang wrapping to 0.
Copied(n) ==
  [i \in Slots |->
     IF pos <= i /\ i < pos + n THEN total + 1 + (i - pos)
     ELSE IF i < pos + n - Cap  THEN total + 1 + (i + Cap - pos)
     ELSE buf[i]]

\* A slice at least as large as the ring: only its tail is kept.
WriteTail(n) ==
  /\ n >= Cap
  /\ buf' = [i \in Slots |-> total + n - Cap + 1 + i]
  /\ pos' = 0
  /\ full' = TRUE

\* Mutant: pos runs off the ring when it is filled exactly.
WriteFits_NoModulo(n) ==
  /\ n < Cap /\ n <= Cap - pos
  /\ buf' = Copied(n)
  /\ pos' = pos + n
  /\ UNCHANGED full

\* It fits before the end of the ring, possibly filling it exactly.
WriteFits(n) ==
  /\ n < Cap
  /\ n <= Cap - pos
  /\ buf' = Copied(n)
  /\ pos' = (pos + n) % Cap
  /\ UNCHANGED full

\* Mutant: wrapping around does not mark the ring full.
WriteWraps_NotFull(n) ==
  /\ n < Cap /\ n > Cap - pos
  /\ buf' = Copied(n)
  /\ pos' = (pos + n) % Cap
  /\ UNCHANGED full

\* It wraps around: full from now on.
WriteWraps(n) ==
  /\ n < Cap
  /\ n > Cap - pos
  /\ buf' = Copied(n)
  /\ pos' = (pos + n) % Cap
  /\ full' = TRUE

Write(n) ==
  /\ total + n <= MaxTotal
  /\ WriteTail(n) \/ WriteFits(n) \/ WriteWraps(n)
  /\ total' = total + n
  /\ UNCHANGED <<file, first>>

SaveTo ==
  /\ file' = ReadAll
  /\ UNCHANGED <<buf, pos, full, first, total>>

\* NewRingBuffer: the server starts again, the file survives.
NewRingBuffer ==
  /\ buf' = [i \in Slots |-> 0]
  /\ pos' = 0
  /\ full' = FALSE
  /\ first' = total
  /\ UNCHANGED <<file, total>>

\* LoadFrom replaces the content; a file as large as the ring or larger
\* (the size is a flag, it may have shrunk) keeps only its tail.
LoadFrom ==
  /\ IF Len(file) >= Cap
     THEN /\ buf' = [i \in Slots |-> file[Len(file) - Cap + 1 + i]]
          /\ pos' = 0
          /\ full' = TRUE
     ELSE /\ buf' = [i \in Slots |-> IF i < Len(file) THEN file[i + 1] ELSE buf[i]]
          /\ pos' = Len(file)
          /\ full' = FALSE
  /\ first' = IF file = <<>> THEN total ELSE file[1] - 1
  /\ total' = IF file = <<>> THEN total ELSE file[Len(file)]
  /\ UNCHANGED file

RingInit ==
  /\ buf = [i \in Slots |-> 0]
  /\ pos = 0
  /\ full = FALSE
  /\ first = 0
  /\ total = 0
  /\ \E n \in 0 .. MaxFile : file = Bytes(0, n)

RingNext ==
  \/ \E n \in 1 .. MaxWrite : Write(n)
  \/ SaveTo
  \/ NewRingBuffer
  \/ LoadFrom

RingSpec == RingInit /\ [][RingNext]_ringVars

-----------------------------------------------------------------------------
\* The type of every variable; a slot index never leaves the ring.
RingTypeOK ==
  /\ buf \in [Slots -> Nat]
  /\ pos \in Slots
  /\ full \in BOOLEAN
  /\ file \in Seq(Nat)
  /\ first \in Nat /\ total \in Nat
  /\ first <= total

\* "ReadAll returns data from oldest to newest" (session.go, RingBuffer.ReadAll):
\* what it returns is an unbroken run of the stream that ends with the newest
\* byte, whatever sequence of short, wrapping and oversized writes and reloads
\* led there.  A slot overwritten at the wrong place or a wrong start breaks it.
ReadsNewestRun ==
  LET data == ReadAll IN
  \A i \in 1 .. Len(data) : data[i] = total - Len(data) + i

\* The only write after which RingBuffer returns less than before is one that
\* fills the ring to its last slot exactly: that wraps pos to 0 and leaves full
\* unset.  Every write that runs over the end keeps what was there.
ShrinksOnlyByExactFill ==
  [][\A n \in 1 .. MaxWrite : Write(n) /\ RingLen' < RingLen => ~full /\ pos + n = Cap]_ringVars
=============================================================================
