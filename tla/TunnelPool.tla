----------------------------- MODULE TunnelPool -----------------------------
(***************************************************************************)
(* The remote-access agent (termulaa -rc): every process keeps a pool of   *)
(* tunnels to the rendezvous, each redialled by a goroutine of its own     *)
(* (runTunnel) under a context they share, whose first cause ends them     *)
(* all.  Processes with one token contend for it; the rendezvous, which is *)
(* not part of the repository, follows docs/rc-protocol.md section 8.      *)
(*                                                                         *)
(* A process is its instance id: a restart is another process.  Backoff    *)
(* only spaces the dials, and is left out, as are the streams in a tunnel. *)
(***************************************************************************)
EXTENDS Naturals, FiniteSets

CONSTANTS
  Agents,     \* processes
  Slots,      \* the tunnels of a pool
  MaxTroubles \* bound: connections the network loses, and processes stopped

ASSUME TunnelPoolAssumption ==
  /\ IsFiniteSet(Agents) /\ Agents # {}
  /\ MaxTroubles \in Nat

VARIABLES
  cause,    \* context.Cause of each process, "none" while it runs, "off" before
  takeover, \* the processes started with -rc-takeover
  tunnel,   \* each runTunnel: where it is, and what is on its way to it
  requests, \* handshakes on their way to the rendezvous
  passed,   \* handshakes past its checks and not registered yet
  pool,     \* the rendezvous' tunnels: none, live, or stale (the agent's end is gone)
  valid,    \* the token
  troubles,
  \* history
  admitted, \* processes that have been in the pool
  crossed,  \* a dead tunnel left the pool while a refusal was on its way, or
            \* another dial of the process refused
  collided  \* a registration met a rival's pool that was not there at its check,
            \* and displaced it without having been told to

agent == <<cause, takeover>>
rendezvous == <<requests, passed, pool, valid>>
history == <<admitted, crossed, collided>>
vars == <<agent, tunnel, rendezvous, troubles, history>>

Tunnels == Agents \X Slots
At(where, why) == [at |-> where, why |-> why]
Terminal == {"auth", "conflict", "superseded"}
Running(a) == cause[a] = "none"
RefusalOnTheWay == \/ \E t \in Tunnels : tunnel[t] = At("answered", "conflict")
                   \/ \E t \in requests \cup passed : cause[t[1]] = "conflict"

Init ==
  /\ cause = [a \in Agents |-> "off"] /\ takeover = {}
  /\ tunnel = [t \in Tunnels |-> At("ended", "none")]
  /\ requests = {} /\ passed = {} /\ pool = [t \in Tunnels |-> "none"] /\ valid = TRUE
  /\ troubles = 0 /\ admitted = {} /\ crossed = FALSE /\ collided = FALSE

-----------------------------------------------------------------------------
(* The agent *)

\* runTunnelAgent starts the goroutines, at the head of their loops.
Start(a) ==
  /\ cause[a] = "off"
  /\ cause' = [cause EXCEPT ![a] = "none"]
  /\ takeover' \in {takeover, takeover \cup {a}}
  /\ tunnel' = [t \in Tunnels |-> IF t[1] = a THEN At("waiting", "none") ELSE tunnel[t]]
  /\ UNCHANGED <<rendezvous, troubles, history>>

\* The backoff is over: dialAndServeTunnel.  A tunnel has one handshake at the
\* rendezvous at most: the last one is over, or not looked at yet.
Dial(t) ==
  /\ tunnel[t].at = "waiting" /\ Running(t[1]) /\ t \notin passed
  /\ tunnel' = [tunnel EXCEPT ![t] = At("dialing", "none")]
  /\ requests' = requests \cup {t}
  /\ UNCHANGED <<agent, passed, pool, valid, troubles, history>>

\* Mutant: a terminal answer ends its own tunnel only.
Return_Alone(t, err) ==
  /\ tunnel' = [tunnel EXCEPT ![t] = At(IF ~Running(t[1]) \/ err \in Terminal THEN "ended" ELSE "waiting", "none")]
  /\ UNCHANGED cause

\* dialAndServeTunnel returned: runTunnel ends with the context, fails it on a
\* terminal error, and waits before the next attempt on any other.
Return(t, err) ==
  /\ tunnel' = [tunnel EXCEPT ![t] = At(IF ~Running(t[1]) \/ err \in Terminal THEN "ended" ELSE "waiting", "none")]
  /\ cause' = IF Running(t[1]) /\ err \in Terminal THEN [cause EXCEPT ![t[1]] = err] ELSE cause

\* Mutant: the connection is left open.
Closed_Never(t) == UNCHANGED pool
\* The agent's end of the connection is closed.
Closed(t) == pool' = [pool EXCEPT ![t] = IF @ = "live" THEN "stale" ELSE @]

\* The upgrade: serveTunnel takes over the connection.
Upgraded(t) ==
  /\ tunnel[t].at = "answered" /\ tunnel[t].why \in {"ok", "superseded"}
  /\ tunnel' = [tunnel EXCEPT ![t].at = "up"]
  /\ UNCHANGED <<agent, rendezvous, troubles, history>>

\* The dial fails: 401 or 403, 409, or any other error.
DialFails(t) ==
  /\ tunnel[t].at = "answered" /\ tunnel[t].why \in {"auth", "conflict", "lost"}
  /\ Return(t, tunnel[t].why)
  /\ UNCHANGED <<takeover, rendezvous, troubles, history>>

\* AcceptStream fails, after the SUPERSEDED close frame or without one.
ServeEnds(t) ==
  /\ tunnel[t].at = "up" /\ tunnel[t].why \in {"superseded", "lost"}
  /\ Return(t, tunnel[t].why) /\ Closed(t)
  /\ UNCHANGED <<takeover, requests, passed, valid, troubles, history>>

\* The context is done: the wait, the dial (whose request may be on its way) and
\* the session end.
Cancelled(t) ==
  /\ tunnel[t].at \in {"waiting", "dialing", "answered", "up"} /\ ~Running(t[1])
  /\ Return(t, "lost") /\ Closed(t)
  /\ UNCHANGED <<takeover, requests, passed, valid, troubles, history>>

\* What befalls the processes and the network from outside.
Trouble == troubles < MaxTroubles /\ troubles' = troubles + 1

\* SIGINT or SIGTERM.
Signal(a) ==
  /\ Running(a) /\ Trouble
  /\ cause' = [cause EXCEPT ![a] = "signal"]
  /\ UNCHANGED <<takeover, tunnel, rendezvous, history>>

\* The process is killed.
Kill(a) ==
  /\ Running(a) /\ Trouble
  /\ cause' = [cause EXCEPT ![a] = "killed"]
  /\ tunnel' = [t \in Tunnels |-> IF t[1] = a THEN At("ended", "none") ELSE tunnel[t]]
  /\ pool' = [t \in Tunnels |-> IF t[1] = a /\ pool[t] = "live" THEN "stale" ELSE pool[t]]
  /\ UNCHANGED <<takeover, requests, passed, valid, history>>

-----------------------------------------------------------------------------
(* The rendezvous and the network *)

Answered(t, why) ==
  IF tunnel[t].at = "dialing" THEN [tunnel EXCEPT ![t] = At("answered", why)] ELSE tunnel

\* Mutant: every dial asks for the token.
AsksTakeover_Always(a) == TRUE
\* takeover=1, on every dial of the process.
AsksTakeover(a) == a \in takeover

\* Mutant: an instance id per tunnel.
SameInstance_Tunnel(t, u) == t = u
SameInstance(t, u) == t[1] = u[1]
Incumbents(t) == {u \in Tunnels : ~SameInstance(t, u) /\ pool[u] # "none"}

\* The checks of a handshake: the token, and the conflict.
Refuse(t) ==
  /\ t \in requests
  /\ ~valid \/ (Incumbents(t) # {} /\ ~AsksTakeover(t[1]))
  /\ requests' = requests \ {t}
  /\ tunnel' = Answered(t, IF valid THEN "conflict" ELSE "auth")
  /\ UNCHANGED <<agent, passed, pool, valid, troubles, history>>

Pass(t) ==
  /\ t \in requests
  /\ valid /\ (Incumbents(t) = {} \/ AsksTakeover(t[1]))
  /\ requests' = requests \ {t} /\ passed' = passed \cup {t}
  /\ UNCHANGED <<agent, tunnel, pool, valid, troubles, history>>

\* Registered: its slot is replaced, and the whole pool of another instance
\* displaced, also one that registered since the check.  A handshake whose sender
\* has gone registers all the same.
Admit(t) ==
  LET told == {u \in Incumbents(t) : tunnel[u].at \in {"answered", "up"} /\ tunnel[u].why = "ok"} IN
  /\ t \in passed
  /\ passed' = passed \ {t}
  /\ pool' = [u \in Tunnels |-> IF u = t THEN (IF tunnel[t].at = "dialing" THEN "live" ELSE "stale")
                                ELSE IF u \in Incumbents(t) THEN "none" ELSE pool[u]]
  /\ tunnel' = [u \in Tunnels |-> IF u \in told THEN At(tunnel[u].at, "superseded") ELSE Answered(t, "ok")[u]]
  /\ admitted' = admitted \cup {t[1]}
  /\ collided' = (collided \/ (Incumbents(t) # {} /\ ~AsksTakeover(t[1])))
  /\ UNCHANGED <<agent, requests, valid, troubles, crossed>>

\* The rendezvous notices a dead tunnel.
Reap(t) ==
  /\ pool[t] = "stale"
  /\ pool' = [pool EXCEPT ![t] = "none"]
  /\ crossed' = (crossed \/ RefusalOnTheWay)
  /\ UNCHANGED <<agent, tunnel, requests, passed, valid, troubles, admitted, collided>>

\* A dial fails or a connection is lost, with what was on its way.
Lose(t) ==
  /\ tunnel[t].at \in {"dialing", "answered", "up"} /\ tunnel[t].why # "lost" /\ Trouble
  /\ tunnel' = [tunnel EXCEPT ![t] = At(IF @.at = "up" THEN "up" ELSE "answered", "lost")]
  /\ Closed(t)
  /\ UNCHANGED <<agent, requests, passed, valid, history>>

\* The token is revoked, and its tunnels closed, those about to register included.
Revoke ==
  /\ valid
  /\ valid' = FALSE
  /\ pool' = [t \in Tunnels |-> "none"] /\ passed' = {}
  /\ tunnel' = [t \in Tunnels |->
       IF tunnel[t].at \in {"answered", "up"} /\ tunnel[t].why = "ok" THEN At(tunnel[t].at, "lost")
       ELSE IF t \in passed THEN Answered(t, "lost")[t] ELSE tunnel[t]]
  /\ UNCHANGED <<agent, requests, troubles, history>>

-----------------------------------------------------------------------------
TunnelStep(t) == Dial(t) \/ Upgraded(t) \/ DialFails(t) \/ ServeEnds(t) \/ Cancelled(t)
Handshake(t) == Refuse(t) \/ Pass(t) \/ Admit(t)

Next ==
  \/ \E a \in Agents : Start(a) \/ Signal(a) \/ Kill(a)
  \/ \E t \in Tunnels : TunnelStep(t) \/ Handshake(t) \/ Reap(t) \/ Lose(t)
  \/ Revoke

Spec == Init /\ [][Next]_vars

\* Goroutines run, requests and answers arrive, and dead connections are noticed
\* (the keepalive sees to it within 30 s, at both ends).
FairSpec ==
  /\ Spec
  /\ \A t \in Tunnels : WF_vars(TunnelStep(t)) /\ WF_vars(Handshake(t)) /\ WF_vars(Reap(t))

-----------------------------------------------------------------------------
\* The type of every variable; and a tunnel the rendezvous holds as live has its
\* agent's end open (dialAndServeTunnel returns with the connection closed).
TypeOK ==
  /\ cause \in [Agents -> {"off", "none", "signal", "killed"} \cup Terminal]
  /\ takeover \subseteq Agents /\ admitted \subseteq Agents /\ requests \subseteq Tunnels /\ passed \subseteq Tunnels
  /\ tunnel \in [Tunnels -> [at : {"waiting", "dialing", "answered", "up", "ended"},
                             why : {"none", "ok", "lost"} \cup Terminal]]
  /\ pool \in [Tunnels -> {"none", "live", "stale"}]
  /\ \A t \in Tunnels : pool[t] = "live" => tunnel[t].at \in {"answered", "up"}
  /\ valid \in BOOLEAN /\ crossed \in BOOLEAN /\ collided \in BOOLEAN /\ troubles \in 0..MaxTroubles

\* An agent is ended by a conflict or a takeover only when another process has
\* held the token: its own reconnections and its other tunnels never end it
\* (newInstanceID: one id per process).
OnlyRivalsEndIt ==
  \A a \in Agents : cause[a] \in {"conflict", "superseded"} => admitted \ {a} # {}

\* Contending agents do not end each other to the last, unless two of them were
\* told to take over; or two handshakes passed the check together and the later
\* displaced the other (the race docs/rc-protocol.md names at the end of section
\* 8.1); or the tunnel one was refused for went while the refusal, or another of
\* its dials, was on its way.
OneSurvivesUnlessRaced ==
  (\A a \in Agents : cause[a] \in {"conflict", "superseded"}) =>
     Cardinality(takeover) > 1 \/ collided \/ crossed

\* Its inductive invariant: the type; what the pool holds is one process's, and
\* was admitted; what an agent is told by its rendezvous has a rival behind it ...
PoolInv ==
  /\ \A t \in Tunnels : pool[t] = "live" => tunnel[t].why = "ok"
  /\ \A t \in Tunnels : pool[t] # "none" => t[1] \in admitted
  /\ \A t, u \in Tunnels : pool[t] # "none" /\ pool[u] # "none" => t[1] = u[1]
  /\ \A t \in Tunnels : cause[t[1]] = "off" => tunnel[t].at = "ended"
RivalInv ==
  /\ \A t \in Tunnels : tunnel[t].why \in {"conflict", "superseded"} => admitted \ {t[1]} # {}
  /\ OnlyRivalsEndIt

\* ... and, unless handshakes collided, someone is left: the only agent told to
\* take over, or, without one, the holder of the pool, which nobody refused; when
\* the pool runs empty, no refusal is on its way.
Refused(a) ==
  \/ cause[a] = "conflict"
  \/ \E t \in Tunnels : t[1] = a /\ tunnel[t] = At("answered", "conflict")
TakerInv ==
  ~collided => \A a \in Agents : takeover = {a} =>
     /\ cause[a] \notin {"conflict", "superseded"}
     /\ \A t \in Tunnels : t[1] = a => tunnel[t].why \notin {"conflict", "superseded"}
PeaceInv ==
  takeover = {} /\ ~collided => /\ \A a \in Agents : cause[a] # "superseded"
                                /\ \A t \in Tunnels : tunnel[t].why # "superseded"
HolderInv ==
  takeover = {} /\ ~crossed /\ ~collided =>
     /\ \E a \in Agents : ~Refused(a)
     /\ valid => \A t \in Tunnels : pool[t] # "none" => ~Refused(t[1])
     /\ valid /\ (\A t \in Tunnels : pool[t] = "none") => ~RefusalOnTheWay
IInv == TypeOK /\ PoolInv /\ RivalInv /\ TakerInv /\ PeaceInv /\ HolderInv

\* Once the network is quiet every agent settles, with its whole pool up or with
\* all of it ended: no tunnel goes on alone, and no two agents displace each
\* other for ever (runTunnel: "nothing keeps retrying in the background").
Settles ==
  \A a \in Agents : \/ <>[](\A s \in Slots : tunnel[<<a, s>>] = At("up", "ok"))
                    \/ <>[](\A s \in Slots : tunnel[<<a, s>>].at = "ended")
=============================================================================
