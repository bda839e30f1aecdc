-------------------------- MODULE TunnelPoolProofs --------------------------
(***************************************************************************)
(* Proofs about TunnelPool, for any processes, pools and troubles.  One      *)
(* lemma per part of the inductive invariant; each goes through the        *)
(* actions of Next.                                                        *)
(***************************************************************************)
EXTENDS TunnelPool, FiniteSetTheorems, TLAPS

\* The type; an agent's end of a live tunnel stays open.
LEMMA TypeStep ==
  TypeOK /\ PoolInv /\ [Next]_vars => TypeOK'
<1> SUFFICES ASSUME TypeOK, PoolInv, [Next]_vars PROVE TypeOK'
  OBVIOUS
<1> USE TunnelPoolAssumption DEF TypeOK, PoolInv, vars, agent, rendezvous, history, Tunnels, At, Terminal, Running
<1>1. ASSUME NEW a \in Agents, Start(a) PROVE TypeOK'
  BY <1>1 DEF Start
<1>2. ASSUME NEW a \in Agents, Signal(a) PROVE TypeOK'
  BY <1>2 DEF Signal, Trouble
<1>3. ASSUME NEW a \in Agents, Kill(a) PROVE TypeOK'
  BY <1>3 DEF Kill, Trouble
<1>4. ASSUME NEW t \in Tunnels, Dial(t) PROVE TypeOK'
  BY <1>4 DEF Dial
<1>5. ASSUME NEW t \in Tunnels, Upgraded(t) PROVE TypeOK'
  BY <1>5 DEF Upgraded
<1>6. ASSUME NEW t \in Tunnels, DialFails(t) PROVE TypeOK'
  BY <1>6 DEF DialFails, Return
<1>7. ASSUME NEW t \in Tunnels, ServeEnds(t) PROVE TypeOK'
  BY <1>7 DEF ServeEnds, Return, Closed
<1>8. ASSUME NEW t \in Tunnels, Cancelled(t) PROVE TypeOK'
  BY <1>8 DEF Cancelled, Return, Closed
<1>9. ASSUME NEW t \in Tunnels, Refuse(t) PROVE TypeOK'
  BY <1>9 DEF Refuse, Answered, Incumbents, AsksTakeover, SameInstance
<1>10. ASSUME NEW t \in Tunnels, Pass(t) PROVE TypeOK'
  BY <1>10 DEF Pass, Incumbents, AsksTakeover, SameInstance
<1>11. ASSUME NEW t \in Tunnels, Admit(t) PROVE TypeOK'
  BY <1>11 DEF Admit, Answered, Incumbents, AsksTakeover, SameInstance
<1>12. ASSUME NEW t \in Tunnels, Reap(t) PROVE TypeOK'
  BY <1>12 DEF Reap
<1>13. ASSUME NEW t \in Tunnels, Lose(t) PROVE TypeOK'
  BY <1>13 DEF Lose, Closed, Trouble
<1>14. CASE Revoke
  BY <1>14 DEF Revoke, Answered
<1>15. CASE UNCHANGED vars
  BY <1>15
<1>16. QED
  BY <1>1, <1>2, <1>3, <1>4, <1>5, <1>6, <1>7, <1>8, <1>9, <1>10, <1>11, <1>12, <1>13, <1>14, <1>15 DEF Next, TunnelStep, Handshake

\* The pool holds one process, which was admitted.
LEMMA PoolStep ==
  TypeOK /\ PoolInv /\ [Next]_vars => PoolInv'
<1> SUFFICES ASSUME TypeOK, PoolInv, [Next]_vars PROVE PoolInv'
  OBVIOUS
<1> USE DEF TypeOK, PoolInv, vars, agent, rendezvous, history, Tunnels, At, Terminal, Running
<1>1. ASSUME NEW a \in Agents, Start(a) PROVE PoolInv'
  BY <1>1 DEF Start
<1>2. ASSUME NEW a \in Agents, Signal(a) PROVE PoolInv'
  BY <1>2 DEF Signal, Trouble
<1>3. ASSUME NEW a \in Agents, Kill(a) PROVE PoolInv'
  BY <1>3 DEF Kill, Trouble
<1>4. ASSUME NEW t \in Tunnels, Dial(t) PROVE PoolInv'
  BY <1>4 DEF Dial
<1>5. ASSUME NEW t \in Tunnels, Upgraded(t) PROVE PoolInv'
  BY <1>5 DEF Upgraded
<1>6. ASSUME NEW t \in Tunnels, DialFails(t) PROVE PoolInv'
  BY <1>6 DEF DialFails, Return
<1>7. ASSUME NEW t \in Tunnels, ServeEnds(t) PROVE PoolInv'
  BY <1>7 DEF ServeEnds, Return, Closed
<1>8. ASSUME NEW t \in Tunnels, Cancelled(t) PROVE PoolInv'
  BY <1>8 DEF Cancelled, Return, Closed
<1>9. ASSUME NEW t \in Tunnels, Refuse(t) PROVE PoolInv'
  BY <1>9 DEF Refuse, Answered, Incumbents, AsksTakeover, SameInstance
<1>10. ASSUME NEW t \in Tunnels, Pass(t) PROVE PoolInv'
  BY <1>10 DEF Pass, Incumbents, AsksTakeover, SameInstance
<1>11. ASSUME NEW t \in Tunnels, Admit(t) PROVE PoolInv'
  BY <1>11 DEF Admit, Answered, Incumbents, AsksTakeover, SameInstance
<1>12. ASSUME NEW t \in Tunnels, Reap(t) PROVE PoolInv'
  BY <1>12 DEF Reap
<1>13. ASSUME NEW t \in Tunnels, Lose(t) PROVE PoolInv'
  BY <1>13 DEF Lose, Closed, Trouble
<1>14. CASE Revoke
  BY <1>14 DEF Revoke, Answered
<1>15. CASE UNCHANGED vars
  BY <1>15
<1>16. QED
  BY <1>1, <1>2, <1>3, <1>4, <1>5, <1>6, <1>7, <1>8, <1>9, <1>10, <1>11, <1>12, <1>13, <1>14, <1>15 DEF Next, TunnelStep, Handshake

\* Behind every conflict and every takeover there is a rival.
LEMMA RivalStep ==
  TypeOK /\ PoolInv /\ RivalInv /\ [Next]_vars => RivalInv'
<1> SUFFICES ASSUME TypeOK, PoolInv, RivalInv, [Next]_vars PROVE RivalInv'
  OBVIOUS
<1> USE DEF TypeOK, PoolInv, RivalInv, OnlyRivalsEndIt, vars, agent, rendezvous, history, Tunnels, At, Terminal, Running
<1>1. ASSUME NEW a \in Agents, Start(a) PROVE RivalInv'
  BY <1>1 DEF Start
<1>2. ASSUME NEW a \in Agents, Signal(a) PROVE RivalInv'
  BY <1>2 DEF Signal, Trouble
<1>3. ASSUME NEW a \in Agents, Kill(a) PROVE RivalInv'
  BY <1>3 DEF Kill, Trouble
<1>4. ASSUME NEW t \in Tunnels, Dial(t) PROVE RivalInv'
  BY <1>4 DEF Dial
<1>5. ASSUME NEW t \in Tunnels, Upgraded(t) PROVE RivalInv'
  BY <1>5 DEF Upgraded
<1>6. ASSUME NEW t \in Tunnels, DialFails(t) PROVE RivalInv'
  BY <1>6 DEF DialFails, Return
<1>7. ASSUME NEW t \in Tunnels, ServeEnds(t) PROVE RivalInv'
  BY <1>7 DEF ServeEnds, Return, Closed
<1>8. ASSUME NEW t \in Tunnels, Cancelled(t) PROVE RivalInv'
  BY <1>8 DEF Cancelled, Return, Closed
<1>9. ASSUME NEW t \in Tunnels, Refuse(t) PROVE RivalInv'
  BY <1>9 DEF Refuse, Answered, Incumbents, AsksTakeover, SameInstance
<1>10. ASSUME NEW t \in Tunnels, Pass(t) PROVE RivalInv'
  BY <1>10 DEF Pass, Incumbents, AsksTakeover, SameInstance
<1>11. ASSUME NEW t \in Tunnels, Admit(t) PROVE RivalInv'
  BY <1>11, ZenonT(60) DEF Admit, Answered, Incumbents, AsksTakeover, SameInstance
<1>12. ASSUME NEW t \in Tunnels, Reap(t) PROVE RivalInv'
  BY <1>12 DEF Reap
<1>13. ASSUME NEW t \in Tunnels, Lose(t) PROVE RivalInv'
  BY <1>13 DEF Lose, Closed, Trouble
<1>14. CASE Revoke
  BY <1>14 DEF Revoke, Answered
<1>15. CASE UNCHANGED vars
  BY <1>15
<1>16. QED
  BY <1>1, <1>2, <1>3, <1>4, <1>5, <1>6, <1>7, <1>8, <1>9, <1>10, <1>11, <1>12, <1>13, <1>14, <1>15 DEF Next, TunnelStep, Handshake

\* The only agent told to take over is neither refused nor displaced.
LEMMA TakerStep ==
  TypeOK /\ PoolInv /\ TakerInv /\ [Next]_vars => TakerInv'
<1> SUFFICES ASSUME TypeOK, PoolInv, TakerInv, [Next]_vars PROVE TakerInv'
  OBVIOUS
<1> USE DEF TypeOK, PoolInv, TakerInv, vars, agent, rendezvous, history, Tunnels, At, Terminal, Running
<1>1. ASSUME NEW a \in Agents, Start(a) PROVE TakerInv'
  BY <1>1 DEF Start
<1>2. ASSUME NEW a \in Agents, Signal(a) PROVE TakerInv'
  BY <1>2 DEF Signal, Trouble
<1>3. ASSUME NEW a \in Agents, Kill(a) PROVE TakerInv'
  BY <1>3 DEF Kill, Trouble
<1>4. ASSUME NEW t \in Tunnels, Dial(t) PROVE TakerInv'
  BY <1>4 DEF Dial
<1>5. ASSUME NEW t \in Tunnels, Upgraded(t) PROVE TakerInv'
  BY <1>5 DEF Upgraded
<1>6. ASSUME NEW t \in Tunnels, DialFails(t) PROVE TakerInv'
  BY <1>6 DEF DialFails, Return
<1>7. ASSUME NEW t \in Tunnels, ServeEnds(t) PROVE TakerInv'
  BY <1>7 DEF ServeEnds, Return, Closed
<1>8. ASSUME NEW t \in Tunnels, Cancelled(t) PROVE TakerInv'
  BY <1>8 DEF Cancelled, Return, Closed
<1>9. ASSUME NEW t \in Tunnels, Refuse(t) PROVE TakerInv'
  BY <1>9 DEF Refuse, Answered, Incumbents, AsksTakeover, SameInstance
<1>10. ASSUME NEW t \in Tunnels, Pass(t) PROVE TakerInv'
  BY <1>10 DEF Pass, Incumbents, AsksTakeover, SameInstance
<1>11. ASSUME NEW t \in Tunnels, Admit(t) PROVE TakerInv'
  BY <1>11 DEF Admit, Answered, Incumbents, AsksTakeover, SameInstance
<1>12. ASSUME NEW t \in Tunnels, Reap(t) PROVE TakerInv'
  BY <1>12 DEF Reap
<1>13. ASSUME NEW t \in Tunnels, Lose(t) PROVE TakerInv'
  BY <1>13 DEF Lose, Closed, Trouble
<1>14. CASE Revoke
  BY <1>14 DEF Revoke, Answered
<1>15. CASE UNCHANGED vars
  BY <1>15
<1>16. QED
  BY <1>1, <1>2, <1>3, <1>4, <1>5, <1>6, <1>7, <1>8, <1>9, <1>10, <1>11, <1>12, <1>13, <1>14, <1>15 DEF Next, TunnelStep, Handshake

\* Nobody is displaced when nobody was told to take over.
LEMMA PeaceStep ==
  TypeOK /\ PeaceInv /\ [Next]_vars => PeaceInv'
<1> SUFFICES ASSUME TypeOK, PeaceInv, [Next]_vars PROVE PeaceInv'
  OBVIOUS
<1> USE DEF TypeOK, PeaceInv, vars, agent, rendezvous, history, Tunnels, At, Terminal, Running
<1>1. ASSUME NEW a \in Agents, Start(a) PROVE PeaceInv'
  BY <1>1 DEF Start
<1>2. ASSUME NEW a \in Agents, Signal(a) PROVE PeaceInv'
  BY <1>2 DEF Signal, Trouble
<1>3. ASSUME NEW a \in Agents, Kill(a) PROVE PeaceInv'
  BY <1>3 DEF Kill, Trouble
<1>4. ASSUME NEW t \in Tunnels, Dial(t) PROVE PeaceInv'
  BY <1>4 DEF Dial
<1>5. ASSUME NEW t \in Tunnels, Upgraded(t) PROVE PeaceInv'
  BY <1>5 DEF Upgraded
<1>6. ASSUME NEW t \in Tunnels, DialFails(t) PROVE PeaceInv'
  BY <1>6 DEF DialFails, Return
<1>7. ASSUME NEW t \in Tunnels, ServeEnds(t) PROVE PeaceInv'
  BY <1>7 DEF ServeEnds, Return, Closed
<1>8. ASSUME NEW t \in Tunnels, Cancelled(t) PROVE PeaceInv'
  BY <1>8 DEF Cancelled, Return, Closed
<1>9. ASSUME NEW t \in Tunnels, Refuse(t) PROVE PeaceInv'
  BY <1>9 DEF Refuse, Answered, Incumbents, AsksTakeover, SameInstance
<1>10. ASSUME NEW t \in Tunnels, Pass(t) PROVE PeaceInv'
  BY <1>10 DEF Pass, Incumbents, AsksTakeover, SameInstance
<1>11. ASSUME NEW t \in Tunnels, Admit(t) PROVE PeaceInv'
  BY <1>11 DEF Admit, Answered, Incumbents, AsksTakeover, SameInstance
<1>12. ASSUME NEW t \in Tunnels, Reap(t) PROVE PeaceInv'
  BY <1>12 DEF Reap
<1>13. ASSUME NEW t \in Tunnels, Lose(t) PROVE PeaceInv'
  BY <1>13 DEF Lose, Closed, Trouble
<1>14. CASE Revoke
  BY <1>14 DEF Revoke, Answered
<1>15. CASE UNCHANGED vars
  BY <1>15
<1>16. QED
  BY <1>1, <1>2, <1>3, <1>4, <1>5, <1>6, <1>7, <1>8, <1>9, <1>10, <1>11, <1>12, <1>13, <1>14, <1>15 DEF Next, TunnelStep, Handshake

\* Without takeovers the holder of the pool was refused nothing.
LEMMA HolderStep ==
  TypeOK /\ PoolInv /\ PeaceInv /\ HolderInv /\ [Next]_vars => HolderInv'
<1> SUFFICES ASSUME TypeOK, PoolInv, PeaceInv, HolderInv, [Next]_vars PROVE HolderInv'
  OBVIOUS
<1> USE DEF TypeOK, PoolInv, PeaceInv, HolderInv, Refused, RefusalOnTheWay, vars, agent, rendezvous, history, Tunnels, At, Terminal, Running
<1>1. ASSUME NEW a \in Agents, Start(a) PROVE HolderInv'
  BY <1>1 DEF Start
<1>2. ASSUME NEW a \in Agents, Signal(a) PROVE HolderInv'
  BY <1>2 DEF Signal, Trouble
<1>3. ASSUME NEW a \in Agents, Kill(a) PROVE HolderInv'
  BY <1>3 DEF Kill, Trouble
<1>4. ASSUME NEW t \in Tunnels, Dial(t) PROVE HolderInv'
  BY <1>4 DEF Dial
<1>5. ASSUME NEW t \in Tunnels, Upgraded(t) PROVE HolderInv'
  BY <1>5 DEF Upgraded
<1>6. ASSUME NEW t \in Tunnels, DialFails(t) PROVE HolderInv'
  BY <1>6 DEF DialFails, Return
<1>7. ASSUME NEW t \in Tunnels, ServeEnds(t) PROVE HolderInv'
  BY <1>7 DEF ServeEnds, Return, Closed
<1>8. ASSUME NEW t \in Tunnels, Cancelled(t) PROVE HolderInv'
  BY <1>8 DEF Cancelled, Return, Closed
<1>9. ASSUME NEW t \in Tunnels, Refuse(t) PROVE HolderInv'
  BY <1>9 DEF Refuse, Answered, Incumbents, AsksTakeover, SameInstance
<1>10. ASSUME NEW t \in Tunnels, Pass(t) PROVE HolderInv'
  BY <1>10 DEF Pass, Incumbents, AsksTakeover, SameInstance
<1>11. ASSUME NEW t \in Tunnels, Admit(t) PROVE HolderInv'
  <2> SUFFICES ASSUME (takeover = {} /\ ~crossed /\ ~collided)' PROVE HolderInv'
    BY DEF HolderInv
  <2>1. takeover = {} /\ ~crossed /\ ~collided /\ Incumbents(t) = {} /\ t \in passed
    BY <1>11 DEF Admit, AsksTakeover
  <2>2. \A u \in Tunnels : pool[u] # "none" => u[1] = t[1]
    BY <2>1 DEF Incumbents, SameInstance
  <2>3. valid => ~Refused(t[1])
    BY <2>1, <2>2
  <2>4. tunnel' = Answered(t, "ok")
    BY <1>11, <2>1 DEF Admit, Answered
  <2>5. \A a \in Agents : Refused(a)' => Refused(a)
    <3>1. cause' = cause
      BY <1>11 DEF Admit
    <3>2. \A u \in Tunnels : tunnel'[u] # tunnel[u] => tunnel'[u].why = "ok"
      BY <2>4 DEF Answered
    <3>3. QED
      BY <3>1, <3>2
  <2>6. pool'[t] # "none" /\ \A u \in Tunnels : pool'[u] # "none" => u[1] = t[1]
    BY <1>11, <2>2 DEF Admit
  <2>7. valid' = valid
    BY <1>11 DEF Admit
  <2>8. \E a \in Agents : ~Refused(a)'
    BY <2>1, <2>5
  <2>9. valid => ~Refused(t[1])'
    BY <2>1, <2>3, <2>5
  <2>10. QED
    BY <2>6, <2>7, <2>8, <2>9
<1>12. ASSUME NEW t \in Tunnels, Reap(t) PROVE HolderInv'
  BY <1>12 DEF Reap
<1>13. ASSUME NEW t \in Tunnels, Lose(t) PROVE HolderInv'
  BY <1>13 DEF Lose, Closed, Trouble
<1>14. CASE Revoke
  <2>1. \A a \in Agents : Refused(a)' => Refused(a)
    <3> SUFFICES ASSUME NEW a \in Agents, NEW u \in Tunnels, u[1] = a,
                        tunnel'[u] = [at |-> "answered", why |-> "conflict"]
                 PROVE  tunnel[u] = tunnel'[u]
      BY <1>14 DEF Revoke, Answered
    <3>1. QED
      BY <1>14 DEF Revoke, Answered
  <2>2. QED
    BY <1>14, <2>1 DEF Revoke, Answered
<1>15. CASE UNCHANGED vars
  BY <1>15
<1>16. QED
  BY <1>1, <1>2, <1>3, <1>4, <1>5, <1>6, <1>7, <1>8, <1>9, <1>10, <1>11, <1>12, <1>13, <1>14, <1>15 DEF Next, TunnelStep, Handshake

\* The inductive invariant, for every number of processes and tunnels.
THEOREM TunnelInvariant == Spec => []IInv
<1> USE DEF IInv
<1>1. Init => IInv
  <2> SUFFICES ASSUME Init PROVE IInv
    OBVIOUS
  <2> USE TunnelPoolAssumption DEF Init, At, Tunnels
  <2>1. TypeOK
    <3>1. troubles \in 0..MaxTroubles
      OBVIOUS
    <3>2. tunnel \in [Tunnels -> [at : {"ended"}, why : {"none"}]]
      OBVIOUS
    <3>3. QED
      BY <3>1, <3>2 DEF TypeOK
  <2>2. PoolInv /\ RivalInv /\ TakerInv /\ PeaceInv
    BY DEF PoolInv, RivalInv, OnlyRivalsEndIt, TakerInv, PeaceInv
  <2>3. HolderInv
    BY DEF HolderInv, Refused, RefusalOnTheWay
  <2>4. QED
    BY <2>1, <2>2, <2>3
<1>2. IInv /\ [Next]_vars => IInv'
  BY TypeStep, PoolStep, RivalStep, TakerStep, PeaceStep, HolderStep
<1>3. QED
  BY <1>1, <1>2, PTL DEF Spec

\* Every variable keeps its type, and a tunnel the rendezvous holds as live has
\* its agent's end open (dialAndServeTunnel).
THEOREM TunnelTypeOK == Spec => []TypeOK
BY TunnelInvariant, PTL DEF IInv

\* An agent's own reconnections and other tunnels never end it (newInstanceID).
THEOREM TunnelOnlyRivals == Spec => []OnlyRivalsEndIt
<1>1. IInv => OnlyRivalsEndIt
  BY DEF IInv, RivalInv
<1>2. QED
  BY <1>1, TunnelInvariant, PTL

\* Contending agents never end each other to the last, but for two that were both
\* told to take over and for a tunnel that left while a refusal was on its way.
THEOREM TunnelOneSurvives == Spec => []OneSurvivesUnlessRaced
<1>1. IInv => OneSurvivesUnlessRaced
  <2> SUFFICES ASSUME IInv, \A a \in Agents : cause[a] \in {"conflict", "superseded"}, ~crossed, ~collided
               PROVE  Cardinality(takeover) > 1
    BY DEF OneSurvivesUnlessRaced
  <2>1. takeover \subseteq Agents
    BY DEF IInv, TypeOK
  <2>2. takeover # {}
    BY DEF IInv, PeaceInv, HolderInv, Refused
  <2>3. \A x : takeover # {x}
    BY <2>1 DEF IInv, TakerInv
  <2>4. IsFiniteSet(takeover)
    BY <2>1, FS_Subset, TunnelPoolAssumption
  <2>5. Cardinality(takeover) \in Nat /\ Cardinality(takeover) # 0 /\ Cardinality(takeover) # 1
    BY <2>2, <2>3, <2>4, FS_CardinalityType, FS_EmptySet, FS_Singleton
  <2>6. QED
    BY <2>5
<1>2. QED
  BY <1>1, TunnelInvariant, PTL
=============================================================================
