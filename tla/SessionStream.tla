--------------------------- MODULE SessionStream ----------------------------
(***************************************************************************)
(* One live session and the WebSocket clients that watch it: how PTY       *)
(* output goes from readPump through the terminal and the clients' queues  *)
(* to their writePumps (session.go, handleSessionWS in handler.go).        *)
(*                                                                         *)
(* The goroutines are the session's reader and, per client, the handler's  *)
(* read loop, the goroutine that joins the client, and its writePump.      *)
(* They share outMu, the client list and each client's queue.              *)
(*                                                                         *)
(* Output is counted in chunks (one PTY read each).  A queued frame is a   *)
(* chunk, or the snapshot of the terminal after `upto' chunks.  Merging    *)
(* neighbouring chunks into one WebSocket message (maxCoalescedFrame) is   *)
(* left out: it changes neither their order nor their bytes, and writing   *)
(* the chunks one by one allows every outcome of writing them together.    *)
(* Pongs, input and resizing do not touch the output path.                 *)
(***************************************************************************)
EXTENDS Integers, Sequences, FiniteSets

CONSTANTS
  Clients,        \* the WebSocket connections made to this session
  MaxChunks,      \* bound: chunks the shell writes
  MaxBacklog,     \* maxClientBacklog, in chunks
  SnapshotWeight, \* what a snapshot adds to outBytes, in chunks
  Free, Reader    \* outMu held by nobody, by the reader

ASSUME ConstAssumption ==
  /\ MaxChunks \in Nat /\ MaxBacklog \in Nat /\ SnapshotWeight \in Nat
  /\ Free \notin Clients /\ Reader \notin Clients /\ Free # Reader

VARIABLES
  produced,   \* chunks read from the PTY
  applied,    \* chunks written to the scrollback and the terminal
  reader,     \* where readPump is
  fanout,     \* clients of the snapshot Broadcast still has to queue to
  outMu,      \* who holds Session.outMu
  clients,    \* Session.clients
  alive,      \* Session.Alive
  exited,     \* Session.done is closed
  handler,    \* where each connection's handleSessionWS is
  join,       \* where each connection's joining goroutine is
  conn,       \* the connection is up
  out, outBytes, notify, overflow,  \* the wsClient fields
  pump,       \* where each writePump is
  inflight,   \* frames the writePump took and has not written
  tooSlow,    \* the overflow flag takePending returned with them
  view,       \* what the browser's terminal shows: the chunks 1 .. view
  gotExit     \* the browser received the exit notice

readerVars == <<produced, applied, reader, fanout, alive, exited>>
queueVars  == <<out, outBytes, notify, overflow>>
pumpVars   == <<pump, inflight, tooSlow, view, gotExit>>
linkVars   == <<handler, join, conn>>
vars == <<readerVars, outMu, clients, linkVars, queueVars, pumpVars>>

\* A chunk without the picture it continues.
Fragment == -1

Snapshot(k) == [text |-> TRUE,  upto |-> k]
Chunk(k)    == [text |-> FALSE, upto |-> k]
Frame == [text : BOOLEAN, upto : Nat]

\* The browser resets its terminal to a snapshot and appends a chunk.
Render(v, f) ==
  IF f.text \/ v + 1 = f.upto THEN f.upto ELSE Fragment

Init ==
  /\ produced = 0 /\ applied = 0
  /\ reader = "reading" /\ fanout = {} /\ outMu = Free /\ clients = {}
  /\ alive = TRUE /\ exited = FALSE
  /\ handler  = [c \in Clients |-> "idle"]
  /\ join     = [c \in Clients |-> "none"]
  /\ conn     = [c \in Clients |-> FALSE]
  /\ out      = [c \in Clients |-> <<>>]
  /\ outBytes = [c \in Clients |-> 0]
  /\ notify   = [c \in Clients |-> FALSE]
  /\ overflow = [c \in Clients |-> FALSE]
  /\ pump     = [c \in Clients |-> "none"]
  /\ inflight = [c \in Clients |-> <<>>]
  /\ tooSlow  = [c \in Clients |-> FALSE]
  /\ view     = [c \in Clients |-> 0]
  /\ gotExit  = [c \in Clients |-> FALSE]

-----------------------------------------------------------------------------
(* readPump *)

PtyRead ==
  /\ reader = "reading" /\ produced < MaxChunks
  /\ produced' = produced + 1
  /\ reader' = "locking"
  /\ UNCHANGED <<applied, fanout, alive, exited, outMu, clients, linkVars, queueVars, pumpVars>>

\* outMu.Lock, scrollback.Write, term.Write, and the copy of the client list
\* Broadcast takes.
ApplyOutput ==
  /\ reader = "locking" /\ outMu = Free
  /\ outMu' = Reader
  /\ applied' = produced
  /\ fanout' = clients
  /\ reader' = "fanout"
  /\ UNCHANGED <<produced, alive, exited, clients, linkVars, queueVars, pumpVars>>

\* Mutant: a chunk for a client that still has one queued is dropped.
QueueBinary_DropsWhenBusy(c) ==
  /\ reader = "fanout" /\ c \in fanout
  /\ fanout' = fanout \ {c}
  /\ IF overflow[c] \/ out[c] # <<>> THEN UNCHANGED queueVars
     ELSE /\ out' = [out EXCEPT ![c] = Append(@, Chunk(applied))]
          /\ outBytes' = [outBytes EXCEPT ![c] = @ + 1]
          /\ overflow' = [overflow EXCEPT ![c] = outBytes[c] + 1 > MaxBacklog]
          /\ notify' = [notify EXCEPT ![c] = TRUE]
  /\ UNCHANGED <<produced, applied, reader, alive, exited, outMu, clients, linkVars, pumpVars>>

\* Mutant: the writePump is not woken up.
QueueBinary_NoSignal(c) ==
  /\ reader = "fanout" /\ c \in fanout
  /\ fanout' = fanout \ {c}
  /\ IF overflow[c] THEN UNCHANGED queueVars
     ELSE /\ out' = [out EXCEPT ![c] = Append(@, Chunk(applied))]
          /\ outBytes' = [outBytes EXCEPT ![c] = @ + 1]
          /\ overflow' = [overflow EXCEPT ![c] = outBytes[c] + 1 > MaxBacklog]
          /\ UNCHANGED notify
  /\ UNCHANGED <<produced, applied, reader, alive, exited, outMu, clients, linkVars, pumpVars>>

\* queueBinary for one client of the copy; the overflow check comes after
\* the append, and nothing is queued past an overflow.
QueueBinary(c) ==
  /\ reader = "fanout" /\ c \in fanout
  /\ fanout' = fanout \ {c}
  /\ IF overflow[c] THEN UNCHANGED queueVars
     ELSE /\ out' = [out EXCEPT ![c] = Append(@, Chunk(applied))]
          /\ outBytes' = [outBytes EXCEPT ![c] = @ + 1]
          /\ overflow' = [overflow EXCEPT ![c] = outBytes[c] + 1 > MaxBacklog]
          /\ notify' = [notify EXCEPT ![c] = TRUE]
  /\ UNCHANGED <<produced, applied, reader, alive, exited, outMu, clients, linkVars, pumpVars>>

\* Mutant: the lock is released before every client has its chunk.
UnlockOutput_Early ==
  /\ reader = "fanout"
  /\ outMu' = Free
  /\ reader' = "reading"
  /\ UNCHANGED <<produced, applied, fanout, alive, exited, clients, linkVars, queueVars, pumpVars>>

UnlockOutput ==
  /\ reader = "fanout" /\ fanout = {}
  /\ outMu' = Free
  /\ reader' = "reading"
  /\ UNCHANGED <<produced, applied, fanout, alive, exited, clients, linkVars, queueVars, pumpVars>>

\* The PTY reports EOF (the shell exited or was killed): wait, Alive = false.
MarkDead ==
  /\ reader = "reading"
  /\ alive' = FALSE
  /\ reader' = "dead"
  /\ UNCHANGED <<produced, applied, fanout, exited, outMu, clients, linkVars, queueVars, pumpVars>>

CloseDone ==
  /\ reader = "dead"
  /\ exited' = TRUE
  /\ reader' = "stopped"
  /\ UNCHANGED <<produced, applied, fanout, alive, outMu, clients, linkVars, queueVars, pumpVars>>

-----------------------------------------------------------------------------
(* handleSessionWS: a dead session is revived instead, so only a live one is
   joined; the shell may still exit before the upgrade completes. *)

CheckAlive(c) ==
  /\ handler[c] = "idle" /\ alive
  /\ handler' = [handler EXCEPT ![c] = "checked"]
  /\ UNCHANGED <<join, conn, readerVars, outMu, clients, queueVars, pumpVars>>

Upgrade(c) ==
  /\ handler[c] = "checked"
  /\ handler' = [handler EXCEPT ![c] = "open"]
  /\ conn' = [conn EXCEPT ![c] = TRUE]
  /\ join' = [join EXCEPT ![c] = "waiting"]
  /\ pump' = [pump EXCEPT ![c] = "select"]
  /\ UNCHANGED <<readerVars, outMu, clients, queueVars, inflight, tooSlow, view, gotExit>>

\* The peer leaves, the network fails, the read deadline passes, or
\* DisconnectClients closes the connection.
LoseConn(c) ==
  /\ handler[c] = "open" /\ conn[c]
  /\ conn' = [conn EXCEPT ![c] = FALSE]
  /\ UNCHANGED <<handler, join, readerVars, outMu, clients, queueVars, pumpVars>>

\* ReadMessage fails: the read loop ends with close(client.done).
EndReadLoop(c) ==
  /\ handler[c] = "open" /\ ~conn[c]
  /\ handler' = [handler EXCEPT ![c] = "done"]
  /\ UNCHANGED <<join, conn, readerVars, outMu, clients, queueVars, pumpVars>>

\* The deferred DetachClient.
DetachClient(c) ==
  /\ handler[c] = "done"
  /\ handler' = [handler EXCEPT ![c] = "gone"]
  /\ clients' = clients \ {c}
  /\ UNCHANGED <<join, conn, readerVars, outMu, queueVars, pumpVars>>

ClientDone(c) == handler[c] \in {"done", "gone"}

\* The joining goroutine: the first resize arrived or attachGrace passed.
WakeJoin(c) ==
  /\ join[c] = "waiting"
  /\ join' = [join EXCEPT ![c] = "locking"]
  /\ UNCHANGED <<handler, conn, readerVars, outMu, clients, queueVars, pumpVars>>

CancelJoin(c) ==
  /\ join[c] = "waiting" /\ ClientDone(c)
  /\ join' = [join EXCEPT ![c] = "cancelled"]
  /\ UNCHANGED <<handler, conn, readerVars, outMu, clients, queueVars, pumpVars>>

\* Mutant: the snapshot is taken before the lock.
AttachSnapshot_Unlocked(c) ==
  /\ join[c] = "locking" /\ outMu = Free
  /\ join' = [join EXCEPT ![c] = "joining"]
  /\ out' = [out EXCEPT ![c] = Append(@, Snapshot(applied))]
  /\ outBytes' = [outBytes EXCEPT ![c] = @ + SnapshotWeight]
  /\ notify' = [notify EXCEPT ![c] = TRUE]
  /\ UNCHANGED <<outMu, handler, conn, readerVars, clients, overflow, pumpVars>>

\* AttachClient under outMu: queueText(snapshot), which has no backlog limit...
AttachSnapshot(c) ==
  /\ join[c] = "locking" /\ outMu = Free
  /\ outMu' = c
  /\ join' = [join EXCEPT ![c] = "joining"]
  /\ out' = [out EXCEPT ![c] = Append(@, Snapshot(applied))]
  /\ outBytes' = [outBytes EXCEPT ![c] = @ + SnapshotWeight]
  /\ notify' = [notify EXCEPT ![c] = TRUE]
  /\ UNCHANGED <<handler, conn, readerVars, clients, overflow, pumpVars>>

\* ... and the append to the client list, then outMu.Unlock.
AttachAppend(c) ==
  /\ join[c] = "joining"
  /\ outMu' = Free
  /\ join' = [join EXCEPT ![c] = "joined"]
  /\ clients' = clients \cup {c}
  /\ UNCHANGED <<handler, conn, readerVars, queueVars, pumpVars>>

-----------------------------------------------------------------------------
(* writePump: select picks any of its ready cases *)

\* case <-c.notify
PumpWake(c) ==
  /\ pump[c] = "select" /\ notify[c]
  /\ notify' = [notify EXCEPT ![c] = FALSE]
  /\ pump' = [pump EXCEPT ![c] = "taking"]
  /\ UNCHANGED <<out, outBytes, overflow, inflight, tooSlow, view, gotExit,
                 readerVars, outMu, clients, linkVars>>

\* Mutant: the frames taken stay in the queue.
TakePending_KeepsQueue(c) ==
  /\ inflight' = [inflight EXCEPT ![c] = out[c]]
  /\ outBytes' = [outBytes EXCEPT ![c] = 0]
  /\ UNCHANGED out

TakePending(c) ==
  /\ inflight' = [inflight EXCEPT ![c] = out[c]]
  /\ out' = [out EXCEPT ![c] = <<>>]
  /\ outBytes' = [outBytes EXCEPT ![c] = 0]

PumpTake(c) ==
  /\ pump[c] = "taking"
  /\ TakePending(c)
  /\ tooSlow' = [tooSlow EXCEPT ![c] = overflow[c]]
  /\ pump' = [pump EXCEPT ![c] = "flushing"]
  /\ UNCHANGED <<notify, overflow, view, gotExit, readerVars, outMu, clients, linkVars>>

\* Mutant: the pump ends without telling the browser.
PumpSeeExit_Silent(c) ==
  /\ pump[c] = "select" /\ exited
  /\ TakePending(c)
  /\ pump' = [pump EXCEPT ![c] = "stopped"]
  /\ UNCHANGED <<notify, overflow, tooSlow, view, gotExit, readerVars, outMu, clients, linkVars>>

\* case <-sess.Done(): takePending, ignoring overflow
PumpSeeExit(c) ==
  /\ pump[c] = "select" /\ exited
  /\ TakePending(c)
  /\ pump' = [pump EXCEPT ![c] = "exiting"]
  /\ UNCHANGED <<notify, overflow, tooSlow, view, gotExit, readerVars, outMu, clients, linkVars>>

\* WriteMessage of the next frame.  On a lost connection it fails, ending
\* the pump, or the kernel still takes the bytes and nobody receives them.
PumpWrite(c) ==
  /\ \/ pump[c] = "flushing"
     \/ pump[c] = "exiting" /\ inflight[c] # <<>> /\ ~Head(inflight[c]).text
  /\ inflight[c] # <<>>
  /\ inflight' = [inflight EXCEPT ![c] = Tail(@)]
  /\ view' = IF conn[c] THEN [view EXCEPT ![c] = Render(@, Head(inflight[c]))] ELSE view
  /\ UNCHANGED <<pump, tooSlow, gotExit, readerVars, outMu, clients, linkVars, queueVars>>

\* A failed write, or a failed ping while the pump waits.
PumpWriteFails(c) ==
  /\ ~conn[c]
  /\ \/ pump[c] = "select"
     \/ pump[c] = "flushing" /\ inflight[c] # <<>>
     \/ pump[c] = "exiting" /\ inflight[c] # <<>> /\ ~Head(inflight[c]).text
  /\ pump' = [pump EXCEPT ![c] = "stopped"]
  /\ UNCHANGED <<inflight, tooSlow, view, gotExit, readerVars, outMu, clients, linkVars, queueVars>>

\* The exit branch writes the binary frames only.
PumpSkipText(c) ==
  /\ pump[c] = "exiting" /\ inflight[c] # <<>> /\ Head(inflight[c]).text
  /\ inflight' = [inflight EXCEPT ![c] = Tail(@)]
  /\ UNCHANGED <<pump, tooSlow, view, gotExit, readerVars, outMu, clients, linkVars, queueVars>>

\* Mutant: a wake-up that came during the flush is discarded.
PumpFlushed_ClearsNotify(c) ==
  /\ pump[c] = "flushing" /\ inflight[c] = <<>>
  /\ IF tooSlow[c]
     THEN pump' = [pump EXCEPT ![c] = "stopped"] /\ conn' = [conn EXCEPT ![c] = FALSE]
     ELSE pump' = [pump EXCEPT ![c] = "select"]  /\ UNCHANGED conn
  /\ notify' = [notify EXCEPT ![c] = FALSE]
  /\ UNCHANGED <<handler, join, inflight, tooSlow, view, gotExit, readerVars, outMu, clients,
                 out, outBytes, overflow>>

\* Mutant: an overflow is not acted on.
PumpFlushed_IgnoresOverflow(c) ==
  /\ pump[c] = "flushing" /\ inflight[c] = <<>>
  /\ pump' = [pump EXCEPT ![c] = "select"]
  /\ UNCHANGED <<handler, join, conn, inflight, tooSlow, view, gotExit, readerVars, outMu, clients, queueVars>>

PumpFlushed(c) ==
  /\ pump[c] = "flushing" /\ inflight[c] = <<>>
  /\ IF tooSlow[c]
     THEN pump' = [pump EXCEPT ![c] = "stopped"] /\ conn' = [conn EXCEPT ![c] = FALSE]
     ELSE pump' = [pump EXCEPT ![c] = "select"]  /\ UNCHANGED conn
  /\ UNCHANGED <<handler, join, inflight, tooSlow, view, gotExit, readerVars, outMu, clients, queueVars>>

PumpNotifyExit(c) ==
  /\ pump[c] = "exiting" /\ inflight[c] = <<>>
  /\ gotExit' = [gotExit EXCEPT ![c] = conn[c]]
  /\ pump' = [pump EXCEPT ![c] = "stopped"]
  /\ UNCHANGED <<inflight, tooSlow, view, readerVars, outMu, clients, linkVars, queueVars>>

\* case <-c.done
PumpClientDone(c) ==
  /\ pump[c] = "select" /\ ClientDone(c)
  /\ pump' = [pump EXCEPT ![c] = "stopped"]
  /\ UNCHANGED <<inflight, tooSlow, view, gotExit, readerVars, outMu, clients, linkVars, queueVars>>

-----------------------------------------------------------------------------
ReaderStep == PtyRead \/ ApplyOutput \/ UnlockOutput \/ MarkDead \/ CloseDone
              \/ \E c \in Clients : QueueBinary(c)

HandlerStep(c) == CheckAlive(c) \/ Upgrade(c) \/ LoseConn(c) \/ EndReadLoop(c) \/ DetachClient(c)

JoinStep(c) == WakeJoin(c) \/ CancelJoin(c) \/ AttachSnapshot(c) \/ AttachAppend(c)

PumpStep(c) ==
  \/ PumpWake(c) \/ PumpTake(c) \/ PumpSeeExit(c)
  \/ PumpWrite(c) \/ PumpWriteFails(c) \/ PumpSkipText(c)
  \/ PumpFlushed(c) \/ PumpNotifyExit(c) \/ PumpClientDone(c)

Next ==
  \/ ReaderStep
  \/ \E c \in Clients : HandlerStep(c) \/ JoinStep(c) \/ PumpStep(c)

Spec == Init /\ [][Next]_vars

(* Fairness: goroutines that can run do run.  Go's mutexes hand over to a
   waiter that has waited long, so a join waiting for outMu gets it (SF).
   A write blocked by a peer that does not read ends too: the pump is the
   only one that pings, so the read deadline passes and the connection goes.
   Nothing obliges the shell to write or exit, or a peer to come or leave. *)
WriteDeadline(c) == pump[c] \in {"flushing", "exiting"} /\ LoseConn(c)

Fairness ==
  /\ WF_vars(ApplyOutput \/ UnlockOutput \/ CloseDone \/ \E c \in Clients : QueueBinary(c))
  /\ \A c \in Clients :
       /\ WF_vars(WakeJoin(c) \/ CancelJoin(c))
       /\ SF_vars(AttachSnapshot(c))
       /\ WF_vars(AttachAppend(c))
       /\ WF_vars(PumpStep(c) \/ WriteDeadline(c))
       /\ WF_vars(EndReadLoop(c) \/ DetachClient(c))

FairSpec == Spec /\ Fairness

-----------------------------------------------------------------------------
\* The type of every variable.
TypeOK ==
  /\ produced \in 0 .. MaxChunks /\ applied \in 0 .. MaxChunks
  /\ reader \in {"reading", "locking", "fanout", "dead", "stopped"}
  /\ fanout \subseteq Clients /\ clients \subseteq Clients
  /\ outMu \in Clients \cup {Free, Reader}
  /\ alive \in BOOLEAN /\ exited \in BOOLEAN
  /\ handler \in [Clients -> {"idle", "checked", "open", "done", "gone"}]
  /\ join \in [Clients -> {"none", "waiting", "locking", "joining", "joined", "cancelled"}]
  /\ conn \in [Clients -> BOOLEAN]
  /\ out \in [Clients -> Seq(Frame)] /\ inflight \in [Clients -> Seq(Frame)]
  /\ outBytes \in [Clients -> Nat]
  /\ notify \in [Clients -> BOOLEAN] /\ overflow \in [Clients -> BOOLEAN]
  /\ pump \in [Clients -> {"none", "select", "taking", "flushing", "exiting", "stopped"}]
  /\ tooSlow \in [Clients -> BOOLEAN]
  /\ view \in [Clients -> Nat \cup {Fragment}]
  /\ gotExit \in [Clients -> BOOLEAN]

\* The writePump of c serves a live connection.
Linked(c) == conn[c] /\ pump[c] \in {"select", "taking", "flushing"}

\* The last chunk c shows or has on its way to it.
LastGiven(c) ==
  IF out[c] # <<>> THEN out[c][Len(out[c])].upto
  ELSE IF inflight[c] # <<>> THEN inflight[c][Len(inflight[c])].upto
  ELSE view[c]

\* A client on a running session never shows output with a hole in it
\* (session.go:628-633, AttachClient; session.go:193, "PTY output is never
\* dropped"): joins, slow clients and overflows included.
NoHoleWhileRunning == \A c \in Clients : view[c] = Fragment => exited

\* The wake-up in the one-slot notify channel is never lost: whenever frames
\* are queued and the writePump waits in select, its notify case is ready
\* (wsClient.signal drops a send only because a wake-up is already there).
NoLostWakeup ==
  \A c \in Clients : out[c] # <<>> /\ pump[c] = "select" => notify[c]

\* Between two chunks every joined client that has not overflowed has been
\* given everything the terminal has: what it shows plus what is on its way
\* ends with the last chunk applied (Session.Broadcast never skips a client).
JoinedIsUpToDate ==
  outMu = Free =>
    \A c \in clients : Linked(c) /\ ~overflow[c] => LastGiven(c) = applied

(* The inductive invariant behind them. *)

\* The reader and the joins exclude each other through outMu, and the
\* terminal lags the PTY by the chunk readPump holds.
LockInv ==
  /\ (outMu = Reader) <=> (reader = "fanout")
  /\ \A c \in Clients : (outMu = c) <=> (join[c] = "joining")
  /\ fanout # {} => reader = "fanout"
  /\ reader = "fanout" => applied >= 1
  /\ produced = IF reader = "locking" THEN applied + 1 ELSE applied
  /\ exited => reader = "stopped"

\* Nothing is queued for a client before its join.
JoinInv ==
  \A c \in Clients :
    /\ c \in clients \cup fanout => join[c] = "joined"
    /\ handler[c] \in {"idle", "checked"} => join[c] = "none"
    /\ join[c] \in {"none", "waiting", "locking", "cancelled"} =>
         out[c] = <<>> /\ inflight[c] = <<>> /\ view[c] = 0

Bounded(s) == \A i \in 1 .. Len(s) : s[i].upto <= applied /\ (~s[i].text => s[i].upto >= 1)

\* Only the first frame may be the snapshot; each other one is the next chunk.
Ordered(s) == \A i \in 1 .. Len(s) : i > 1 => ~s[i].text /\ s[i].upto = s[i - 1].upto + 1

\* f may be rendered on a terminal that shows v chunks.
Continues(v, f) == IF f.text THEN v = 0 ELSE f.upto = v + 1

FrameInv ==
  \A c \in Clients :
    /\ Bounded(out[c]) /\ Bounded(inflight[c])
    /\ pump[c] \in {"select", "taking"} => inflight[c] = <<>>
    /\ pump[c] = "exiting" => exited
    /\ view[c] <= applied
    /\ view[c] = Fragment => exited

\* Screen, frames in flight and queue of a served client form one run.
RunOf(c) ==
  Linked(c) =>
    /\ view[c] >= 0
    /\ Ordered(out[c]) /\ Ordered(inflight[c])
    /\ inflight[c] # <<>> => Continues(view[c], inflight[c][1])
    /\ inflight[c] = <<>> /\ out[c] # <<>> => Continues(view[c], out[c][1])
    /\ inflight[c] # <<>> /\ out[c] # <<>> =>
         ~out[c][1].text /\ out[c][1].upto = inflight[c][Len(inflight[c])].upto + 1
    /\ (c \in clients \cup fanout \/ join[c] = "joining") /\ ~overflow[c] =>
         LastGiven(c) = IF c \in fanout THEN applied - 1 ELSE applied

RunInv == \A c \in Clients : RunOf(c)

\* What was queued after the last take has its wake-up pending.
WakeInv ==
  \A c \in Clients : out[c] # <<>> /\ pump[c] \in {"select", "flushing"} => notify[c]

IInv == TypeOK /\ LockInv /\ JoinInv /\ FrameInv /\ RunInv /\ WakeInv

-----------------------------------------------------------------------------
\* The session keeps the promise made to its viewers: OutputFeed.
Feed == INSTANCE OutputFeed WITH Viewers <- Clients, ended <- exited
FeedSpec == Feed!Spec

\* A joined client of a running session catches up with everything the shell
\* wrote, or its connection is lost: no chunk waits forever in a queue.
CatchesUp ==
  \A c \in Clients : (join[c] = "joined") ~> (view[c] = produced \/ ~conn[c] \/ exited)

\* A client whose backlog overflowed is disconnected (so that it reconnects
\* and resyncs, session.go:193-198), unless the session exits first.
OverflowDisconnects ==
  \A c \in Clients : overflow[c] ~> (~conn[c] \/ exited)

\* Every connected client of a session whose shell exits learns of it
\* (writePump's Done case), or its connection goes.
ExitIsAnnounced ==
  \A c \in Clients : (exited /\ conn[c]) ~> (gotExit[c] \/ ~conn[c])
=============================================================================
