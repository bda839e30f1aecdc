----------------------------- MODULE OutputFeed -----------------------------
(***************************************************************************)
(* What a session promises the terminals that watch it (the comments on    *)
(* Session.outMu, AttachClient and wsClient.out in session.go): each       *)
(* viewer shows the output up to some chunk, with nothing missing and      *)
(* nothing twice.  It starts from a blank screen, may once jump to a       *)
(* snapshot, and then goes forward one chunk at a time, never ahead of the *)
(* shell.  Only once the shell has exited may a viewer be left with a      *)
(* fragment: chunks without the picture they continue.                     *)
(***************************************************************************)
EXTENDS Integers

CONSTANT Viewers

VARIABLES
  produced,  \* chunks of output so far
  ended,     \* the shell has exited
  view       \* per viewer, the last chunk of the prefix it shows

vars == <<produced, ended, view>>

Fragment == -1

Init ==
  /\ produced = 0
  /\ ended = FALSE
  /\ view = [v \in Viewers |-> 0]

Emit ==
  /\ ~ended
  /\ produced' = produced + 1
  /\ UNCHANGED <<ended, view>>

End ==
  /\ ~ended
  /\ ended' = TRUE
  /\ UNCHANGED <<produced, view>>

ShowSnapshot(v) ==
  /\ view[v] = 0
  /\ \E k \in 0 .. produced : view' = [view EXCEPT ![v] = k]
  /\ UNCHANGED <<produced, ended>>

ShowChunk(v) ==
  /\ view[v] \in 0 .. produced - 1
  /\ view' = [view EXCEPT ![v] = @ + 1]
  /\ UNCHANGED <<produced, ended>>

LoseSnapshot(v) ==
  /\ ended
  /\ view' = [view EXCEPT ![v] = Fragment]
  /\ UNCHANGED <<produced, ended>>

Next ==
  \/ Emit
  \/ End
  \/ \E v \in Viewers : ShowSnapshot(v) \/ ShowChunk(v) \/ LoseSnapshot(v)

Spec == Init /\ [][Next]_vars
=============================================================================
