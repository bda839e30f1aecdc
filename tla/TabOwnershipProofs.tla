------------------------- MODULE TabOwnershipProofs -------------------------
(***************************************************************************)
(* Proofs about TabOwnership, for any number of pages, connections and     *)
(* panes.  One lemma per part of the inductive invariant; each goes        *)
(* through the actions of Next.                                            *)
(***************************************************************************)
EXTENDS TabOwnership, TLAPS

LEMMA TypeStep ==
  TypeOK /\ [Next]_vars => TypeOK'
<1> SUFFICES ASSUME TypeOK, [Next]_vars PROVE TypeOK'
  OBVIOUS
<1> USE PageAssumption DEF TypeOK, vars, serverVars, handlerVars, paneVars, pageVars, history, Goto, Handlers, Stages
<1>1. ASSUME NEW p \in Pages, PageDrops(p) PROVE TypeOK'
  BY <1>1 DEF PageDrops, Close, Accepted, SweptPanes, Window
<1>2. ASSUME NEW p \in Pages, PageTold(p) PROVE TypeOK'
  BY <1>2 DEF PageTold, Close, Accepted, SweptPanes, Window
<1>3. ASSUME NEW c \in Conns, Open(c) PROVE TypeOK'
  BY <1>3 DEF Open, Close, Accepted, SweptPanes, Window
<1>4. ASSUME NEW c \in Conns, LoseConn(c) PROVE TypeOK'
  BY <1>4 DEF LoseConn, Close, Accepted, SweptPanes, Window
<1>5. ASSUME NEW c \in Conns, ChooseTakeover(c) PROVE TypeOK'
  BY <1>5 DEF ChooseTakeover, Close, Accepted, SweptPanes, Window
<1>6. ASSUME NEW c \in Conns, ChooseNew(c) PROVE TypeOK'
  BY <1>6 DEF ChooseNew, Close, Accepted, SweptPanes, Window
<1>7. ASSUME NEW c \in Conns, Resume(c) PROVE TypeOK'
  BY <1>7 DEF Resume, Close, Accepted, SweptPanes, Window
<1>8. ASSUME NEW c \in Conns, DropOld(c) PROVE TypeOK'
  BY <1>8 DEF DropOld, Close, Accepted, SweptPanes, Window
<1>9. ASSUME NEW c \in Conns, CheckActive(c) PROVE TypeOK'
  BY <1>9 DEF CheckActive, Close, Accepted, SweptPanes, Window
<1>10. ASSUME NEW c \in Conns, NoChoice(c) PROVE TypeOK'
  BY <1>10 DEF NoChoice, Close, Accepted, SweptPanes, Window
<1>11. ASSUME NEW c \in Conns, Replace(c) PROVE TypeOK'
  <2>1. session' \in 0 .. MaxReplace
    BY <1>11 DEF Replace
  <2>2. hs' \in [Handlers -> Stages] /\ hs'[Deleter] = hs[Deleter] /\ up' \in [Conns -> BOOLEAN]
    BY <1>11 DEF Replace, Close
  <2>3. QED
    BY <1>11, <2>1, <2>2 DEF Replace
<1>12. ASSUME NEW c \in Conns, Register(c) PROVE TypeOK'
  BY <1>12 DEF Register, Close, Accepted, SweptPanes, Window
<1>13. ASSUME NEW c \in Conns, Greet(c) PROVE TypeOK'
  BY <1>13, SMTT(30) DEF Greet, Close, Accepted, SweptPanes, Window
<1>14. ASSUME NEW c \in Conns, EndReadLoop(c) PROVE TypeOK'
  BY <1>14 DEF EndReadLoop, Close, Accepted, SweptPanes, Window
<1>15. ASSUME NEW c \in Conns, Unregister(c) PROVE TypeOK'
  BY <1>15 DEF Unregister, Close, Accepted, SweptPanes, Window
<1>16. ASSUME NEW e \in Handlers, Evict(e) PROVE TypeOK'
  <2>1. Accepted \subseteq Conns \cup {None}
    BY DEF Accepted
  <2>2. /\ owners' \subseteq Conns /\ toClose' \in [Handlers -> SUBSET Conns]
        /\ revoked' \in [Handlers -> SUBSET (Conns \cup {None})]
    BY <1>16, <2>1 DEF Evict
  <2>3. hs' \in [Handlers -> Stages] /\ hs'[Deleter] \in {"idle", "evicting", "closing", "closed"}
    BY <1>16 DEF Evict
  <2>4. raced' \in BOOLEAN
    BY <1>16, Zenon DEF Evict
  <2>5. QED
    BY <1>16, <2>2, <2>3, <2>4 DEF Evict
<1>17. ASSUME NEW e \in Handlers, Sweep(e) PROVE TypeOK'
  BY <1>17 DEF Sweep, Close, Accepted, SweptPanes, Window
<1>18. ASSUME NEW e \in Handlers, NEW v \in Conns, CloseVictim(e, v) PROVE TypeOK'
  BY <1>18 DEF CloseVictim, Close, Accepted, SweptPanes, Window
<1>19. CASE DeleteTab
  BY <1>19 DEF DeleteTab, Close, Accepted, SweptPanes, Window
<1>20. ASSUME NEW q \in Panes, Authorise(q) PROVE TypeOK'
  BY <1>20 DEF Authorise, Close, Accepted, SweptPanes, Window
<1>21. ASSUME NEW q \in Panes, Attach(q) PROVE TypeOK'
  BY <1>21 DEF Attach, Close, Accepted, SweptPanes, Window
<1>22. ASSUME NEW q \in Panes, LosePane(q) PROVE TypeOK'
  BY <1>22 DEF LosePane, Close, Accepted, SweptPanes, Window
<1>23. ASSUME NEW q \in Panes, EndPane(q) PROVE TypeOK'
  BY <1>23 DEF EndPane, Close, Accepted, SweptPanes, Window
<1>24. CASE UNCHANGED vars
  BY <1>24
<1>25. QED
  BY <1>1, <1>2, <1>3, <1>4, <1>5, <1>6, <1>7, <1>8, <1>9, <1>10, <1>11, <1>12, <1>13, <1>14, <1>15, <1>16, <1>17, <1>18, <1>19, <1>20, <1>21, <1>22, <1>23, <1>24
  DEF Next, PageStep, HandlerStep, EvictStep

\* Owners and connections to close.
LEMMA OwnerStep ==
  TypeOK /\ OwnerInv /\ [Next]_vars => OwnerInv'
<1> SUFFICES ASSUME TypeOK /\ OwnerInv, [Next]_vars PROVE OwnerInv'
  OBVIOUS
<1> USE PageAssumption DEF TypeOK, OwnerInv, OwnerHasHandler, vars, serverVars, handlerVars, paneVars, pageVars, history, Goto, Handlers, Stages, Window
<1>1. ASSUME NEW p \in Pages, PageDrops(p) PROVE OwnerInv'
  BY <1>1 DEF PageDrops, Close
<1>2. ASSUME NEW p \in Pages, PageTold(p) PROVE OwnerInv'
  BY <1>2 DEF PageTold, Close
<1>3. ASSUME NEW c \in Conns, Open(c) PROVE OwnerInv'
  BY <1>3, SMTT(30) DEF Open, Close
<1>4. ASSUME NEW c \in Conns, LoseConn(c) PROVE OwnerInv'
  BY <1>4 DEF LoseConn, Close
<1>5. ASSUME NEW c \in Conns, ChooseTakeover(c) PROVE OwnerInv'
  BY <1>5 DEF ChooseTakeover, Close
<1>6. ASSUME NEW c \in Conns, ChooseNew(c) PROVE OwnerInv'
  BY <1>6 DEF ChooseNew, Close
<1>7. ASSUME NEW c \in Conns, Resume(c) PROVE OwnerInv'
  BY <1>7, SMTT(30) DEF Resume, Close
<1>8. ASSUME NEW c \in Conns, DropOld(c) PROVE OwnerInv'
  <2>1. OwnerHasHandler'
    BY <1>8 DEF DropOld
  <2>2. \A x \in Handlers : toClose'[x] # {} => hs'[x] \in {"dropping", "closing"}
    BY <1>8 DEF DropOld
  <2>3. \A d \in Conns : hs'[d] \in {"dropping", "greeting", "reading"} /\ up'[d] /\ d \notin owners' =>
          \E x \in Handlers : d \in toClose'[x]
    BY <1>8 DEF DropOld
  <2>4. ~raced' => \A d, f \in owners' \cup Window' : d = f
    BY <1>8 DEF DropOld
  <2>5. QED
    BY <2>1, <2>2, <2>3, <2>4 DEF OwnerInv
<1>9. ASSUME NEW c \in Conns, CheckActive(c) PROVE OwnerInv'
  <2>1. OwnerHasHandler'
    BY <1>9 DEF CheckActive
  <2>2. \A x \in Handlers : toClose'[x] # {} => hs'[x] \in {"dropping", "closing"}
    BY <1>9 DEF CheckActive
  <2>3. \A d \in Conns : hs'[d] \in {"dropping", "greeting", "reading"} /\ up'[d] /\ d \notin owners' =>
          \E x \in Handlers : d \in toClose'[x]
    BY <1>9 DEF CheckActive
  <2>4. ~raced' => \A d, f \in owners' \cup Window' : d = f
    <3>1. ~raced' => ~raced /\ ~(owners = {} /\ Window # {})
      BY <1>9, Zenon DEF CheckActive
    <3>2. owners' = owners /\ Window' = IF owners = {} THEN Window \cup {c} ELSE Window
      BY <1>9 DEF CheckActive
    <3>3. QED
      BY <3>1, <3>2 DEF OwnerInv
  <2>5. QED
    BY <2>1, <2>2, <2>3, <2>4 DEF OwnerInv
<1>10. ASSUME NEW c \in Conns, NoChoice(c) PROVE OwnerInv'
  BY <1>10 DEF NoChoice, Close
<1>11. ASSUME NEW c \in Conns, Replace(c) PROVE OwnerInv'
  BY <1>11 DEF Replace, Close
<1>12. ASSUME NEW c \in Conns, Register(c) PROVE OwnerInv'
  BY <1>12 DEF Register, Close
<1>13. ASSUME NEW c \in Conns, Greet(c) PROVE OwnerInv'
  BY <1>13 DEF Greet, Close
<1>14. ASSUME NEW c \in Conns, EndReadLoop(c) PROVE OwnerInv'
  BY <1>14 DEF EndReadLoop, Close
<1>15. ASSUME NEW c \in Conns, Unregister(c) PROVE OwnerInv'
  BY <1>15 DEF Unregister, Close
<1>16. ASSUME NEW e \in Handlers, Evict(e) PROVE OwnerInv'
  <2>1. OwnerHasHandler'
    BY <1>16 DEF Evict
  <2>2. \A x \in Handlers : toClose'[x] # {} => hs'[x] \in {"dropping", "closing"}
    BY <1>16 DEF Evict
  <2>3. \A d \in Conns : hs'[d] \in {"dropping", "greeting", "reading"} /\ up'[d] /\ d \notin owners' =>
          \E x \in Handlers : d \in toClose'[x]
    BY <1>16 DEF Evict
  <2>4. ~raced' => \A d, f \in owners' \cup Window' : d = f
    <3>1. ~raced' => ~raced /\ ~(e \in Conns /\ Window # {})
      BY <1>16, Zenon DEF Evict
    <3>2. owners' = {} /\ Window' = IF e \in Conns THEN Window \cup {e} ELSE Window
      BY <1>16 DEF Evict
    <3>3. QED
      BY <3>1, <3>2 DEF OwnerInv
  <2>5. QED
    BY <2>1, <2>2, <2>3, <2>4 DEF OwnerInv
<1>17. ASSUME NEW e \in Handlers, Sweep(e) PROVE OwnerInv'
  BY <1>17 DEF Sweep, Close
<1>18. ASSUME NEW e \in Handlers, NEW v \in Conns, CloseVictim(e, v) PROVE OwnerInv'
  BY <1>18 DEF CloseVictim, Close
<1>19. CASE DeleteTab
  BY <1>19 DEF DeleteTab, Close
<1>20. ASSUME NEW q \in Panes, Authorise(q) PROVE OwnerInv'
  BY <1>20 DEF Authorise, Close
<1>21. ASSUME NEW q \in Panes, Attach(q) PROVE OwnerInv'
  BY <1>21 DEF Attach, Close
<1>22. ASSUME NEW q \in Panes, LosePane(q) PROVE OwnerInv'
  BY <1>22 DEF LosePane, Close
<1>23. ASSUME NEW q \in Panes, EndPane(q) PROVE OwnerInv'
  BY <1>23 DEF EndPane, Close
<1>24. CASE UNCHANGED vars
  BY <1>24
<1>25. QED
  BY <1>1, <1>2, <1>3, <1>4, <1>5, <1>6, <1>7, <1>8, <1>9, <1>10, <1>11, <1>12, <1>13, <1>14, <1>15, <1>16, <1>17, <1>18, <1>19, <1>20, <1>21, <1>22, <1>23, <1>24
  DEF Next, PageStep, HandlerStep, EvictStep

\* Tokens.
LEMMA TokenStep ==
  TypeOK /\ OwnerInv /\ TokenInv /\ [Next]_vars => TokenInv'
<1> SUFFICES ASSUME TypeOK /\ OwnerInv /\ TokenInv, [Next]_vars PROVE TokenInv'
  OBVIOUS
<1> USE PageAssumption DEF TypeOK, OwnerInv, OwnerHasHandler, TokenInv, TokensAreUnique, Fresh, Accepted, vars, serverVars, handlerVars, paneVars, pageVars, history, Goto, Handlers, Stages
<1>1. ASSUME NEW p \in Pages, PageDrops(p) PROVE TokenInv'
  BY <1>1 DEF PageDrops, Close
<1>2. ASSUME NEW p \in Pages, PageTold(p) PROVE TokenInv'
  BY <1>2 DEF PageTold, Close
<1>3. ASSUME NEW c \in Conns, Open(c) PROVE TokenInv'
  BY <1>3, SMTT(30) DEF Open, Close
<1>4. ASSUME NEW c \in Conns, LoseConn(c) PROVE TokenInv'
  BY <1>4 DEF LoseConn, Close
<1>5. ASSUME NEW c \in Conns, ChooseTakeover(c) PROVE TokenInv'
  BY <1>5 DEF ChooseTakeover, Close
<1>6. ASSUME NEW c \in Conns, ChooseNew(c) PROVE TokenInv'
  BY <1>6 DEF ChooseNew, Close
<1>7. ASSUME NEW c \in Conns, Resume(c) PROVE TokenInv'
  BY <1>7 DEF Resume, Close
<1>8. ASSUME NEW c \in Conns, DropOld(c) PROVE TokenInv'
  BY <1>8 DEF DropOld, Close
<1>9. ASSUME NEW c \in Conns, CheckActive(c) PROVE TokenInv'
  BY <1>9 DEF CheckActive, Close
<1>10. ASSUME NEW c \in Conns, NoChoice(c) PROVE TokenInv'
  BY <1>10 DEF NoChoice, Close
<1>11. ASSUME NEW c \in Conns, Replace(c) PROVE TokenInv'
  BY <1>11, SMTT(30) DEF Replace, Close
<1>12. ASSUME NEW c \in Conns, Register(c) PROVE TokenInv'
  BY <1>12 DEF Register, Close
<1>13. ASSUME NEW c \in Conns, Greet(c) PROVE TokenInv'
  BY <1>13 DEF Greet, Close
<1>14. ASSUME NEW c \in Conns, EndReadLoop(c) PROVE TokenInv'
  BY <1>14 DEF EndReadLoop, Close
<1>15. ASSUME NEW c \in Conns, Unregister(c) PROVE TokenInv'
  BY <1>15 DEF Unregister, Close
<1>16. ASSUME NEW e \in Handlers, Evict(e) PROVE TokenInv'
  <2>1. /\ owners' = {} /\ token' = token /\ known' = known /\ swept' = swept
        /\ \A x \in Handlers : revoked'[x] = IF x = e THEN Accepted ELSE revoked[x]
        /\ \A x \in Conns : Fresh(x)' => Fresh(x)
    BY <1>16 DEF Evict
  <2>2. \A x \in Conns : Fresh(x) => x \notin Accepted
    OBVIOUS
  <2>3. \A t \in swept : \E x \in Handlers : t \in revoked'[x]
    <3>1. SUFFICES ASSUME NEW t \in swept PROVE \E x \in Handlers : t \in revoked'[x]
      OBVIOUS
    <3>2. PICK x \in Handlers : t \in revoked[x]
      OBVIOUS
    <3>3. hs[e] = "evicting" /\ revoked[x] # {}
      BY <1>16, <3>2 DEF Evict
    <3>4. x # e
      BY <3>3
    <3>5. QED
      BY <2>1, <3>2, <3>4
  <2>4. \A x \in Handlers : revoked'[x] # {} =>
         hs'[x] \notin {"idle", "resuming", "checking", "conflict", "replacing", "evicting"}
    BY <1>16 DEF Evict
  <2>5. ASSUME NEW c \in Conns, Fresh(c)', NEW x \in Handlers PROVE c \notin revoked'[x]
    <3>1. Fresh(c) /\ c \notin revoked[x] /\ c \notin Accepted
      BY <2>1, <2>2, <2>5
    <3>2. CASE x = e
      <4>1. revoked'[x] = Accepted
        BY <2>1, <3>2
      <4>2. QED
        BY ONLY <3>1, <4>1
    <3>3. CASE x # e
      <4>1. revoked'[x] = revoked[x]
        BY <2>1, <3>3
      <4>2. QED
        BY ONLY <3>1, <4>1
    <3>4. QED
      BY <3>2, <3>3
  <2>6. QED
    BY <2>1, <2>2, <2>3, <2>4, <2>5
<1>17. ASSUME NEW e \in Handlers, Sweep(e) PROVE TokenInv'
  BY <1>17 DEF Sweep, Close
<1>18. ASSUME NEW e \in Handlers, NEW v \in Conns, CloseVictim(e, v) PROVE TokenInv'
  BY <1>18, SMTT(30) DEF CloseVictim, Close
<1>19. CASE DeleteTab
  BY <1>19 DEF DeleteTab, Close
<1>20. ASSUME NEW q \in Panes, Authorise(q) PROVE TokenInv'
  BY <1>20 DEF Authorise, Close
<1>21. ASSUME NEW q \in Panes, Attach(q) PROVE TokenInv'
  BY <1>21 DEF Attach, Close
<1>22. ASSUME NEW q \in Panes, LosePane(q) PROVE TokenInv'
  BY <1>22 DEF LosePane, Close
<1>23. ASSUME NEW q \in Panes, EndPane(q) PROVE TokenInv'
  BY <1>23 DEF EndPane, Close
<1>24. CASE UNCHANGED vars
  BY <1>24
<1>25. QED
  BY <1>1, <1>2, <1>3, <1>4, <1>5, <1>6, <1>7, <1>8, <1>9, <1>10, <1>11, <1>12, <1>13, <1>14, <1>15, <1>16, <1>17, <1>18, <1>19, <1>20, <1>21, <1>22, <1>23, <1>24
  DEF Next, PageStep, HandlerStep, EvictStep

\* Pane connections.
LEMMA PaneStep ==
  TypeOK /\ TokenInv /\ PaneInv /\ [Next]_vars => PaneInv'
<1> SUFFICES ASSUME TypeOK /\ TokenInv /\ PaneInv, [Next]_vars PROVE PaneInv'
  OBVIOUS
<1> USE PageAssumption DEF TypeOK, TokenInv, PaneInv, Accepted, vars, serverVars, handlerVars, paneVars, pageVars, history, Goto, Handlers
<1>1. ASSUME NEW p \in Pages, PageDrops(p) PROVE PaneInv'
  BY <1>1 DEF PageDrops, Close, SweptPanes
<1>2. ASSUME NEW p \in Pages, PageTold(p) PROVE PaneInv'
  BY <1>2 DEF PageTold, Close, SweptPanes
<1>3. ASSUME NEW c \in Conns, Open(c) PROVE PaneInv'
  BY <1>3 DEF Open, Close, SweptPanes
<1>4. ASSUME NEW c \in Conns, LoseConn(c) PROVE PaneInv'
  BY <1>4 DEF LoseConn, Close, SweptPanes
<1>5. ASSUME NEW c \in Conns, ChooseTakeover(c) PROVE PaneInv'
  BY <1>5 DEF ChooseTakeover, Close, SweptPanes
<1>6. ASSUME NEW c \in Conns, ChooseNew(c) PROVE PaneInv'
  BY <1>6 DEF ChooseNew, Close, SweptPanes
<1>7. ASSUME NEW c \in Conns, Resume(c) PROVE PaneInv'
  BY <1>7 DEF Resume, Close, SweptPanes
<1>8. ASSUME NEW c \in Conns, DropOld(c) PROVE PaneInv'
  BY <1>8 DEF DropOld, Close, SweptPanes
<1>9. ASSUME NEW c \in Conns, CheckActive(c) PROVE PaneInv'
  BY <1>9 DEF CheckActive, Close, SweptPanes
<1>10. ASSUME NEW c \in Conns, NoChoice(c) PROVE PaneInv'
  BY <1>10 DEF NoChoice, Close, SweptPanes
<1>11. ASSUME NEW c \in Conns, Replace(c) PROVE PaneInv'
  BY <1>11 DEF Replace, Close, SweptPanes
<1>12. ASSUME NEW c \in Conns, Register(c) PROVE PaneInv'
  BY <1>12 DEF Register, Close, SweptPanes
<1>13. ASSUME NEW c \in Conns, Greet(c) PROVE PaneInv'
  BY <1>13 DEF Greet, Close, SweptPanes
<1>14. ASSUME NEW c \in Conns, EndReadLoop(c) PROVE PaneInv'
  BY <1>14 DEF EndReadLoop, Close, SweptPanes
<1>15. ASSUME NEW c \in Conns, Unregister(c) PROVE PaneInv'
  BY <1>15 DEF Unregister, Close, SweptPanes
<1>16. ASSUME NEW e \in Handlers, Evict(e) PROVE PaneInv'
  BY <1>16 DEF Evict, Close, SweptPanes
<1>17. ASSUME NEW e \in Handlers, Sweep(e) PROVE PaneInv'
  BY <1>17 DEF Sweep, Close, SweptPanes
<1>18. ASSUME NEW e \in Handlers, NEW v \in Conns, CloseVictim(e, v) PROVE PaneInv'
  BY <1>18 DEF CloseVictim, Close, SweptPanes
<1>19. CASE DeleteTab
  BY <1>19 DEF DeleteTab, Close, SweptPanes
<1>20. ASSUME NEW q \in Panes, Authorise(q) PROVE PaneInv'
  BY <1>20 DEF Authorise, Close, SweptPanes
<1>21. ASSUME NEW q \in Panes, Attach(q) PROVE PaneInv'
  BY <1>21 DEF Attach, Close, SweptPanes
<1>22. ASSUME NEW q \in Panes, LosePane(q) PROVE PaneInv'
  BY <1>22 DEF LosePane, Close, SweptPanes
<1>23. ASSUME NEW q \in Panes, EndPane(q) PROVE PaneInv'
  BY <1>23 DEF EndPane, Close, SweptPanes
<1>24. CASE UNCHANGED vars
  BY <1>24
<1>25. QED
  BY <1>1, <1>2, <1>3, <1>4, <1>5, <1>6, <1>7, <1>8, <1>9, <1>10, <1>11, <1>12, <1>13, <1>14, <1>15, <1>16, <1>17, <1>18, <1>19, <1>20, <1>21, <1>22, <1>23, <1>24
  DEF Next, PageStep, HandlerStep, EvictStep

-----------------------------------------------------------------------------
LEMMA InitIInv == Init => IInv
<1> SUFFICES ASSUME Init PROVE IInv
  OBVIOUS
<1> USE PageAssumption DEF Init, Handlers
<1>1. TypeOK
  <2>1. /\ up \in [Conns -> BOOLEAN] /\ told \in [Conns -> BOOLEAN] /\ pup \in [Panes -> BOOLEAN]
        /\ takenOver \in [Pages -> BOOLEAN] /\ tab \in BOOLEAN /\ raced \in BOOLEAN
    BY Zenon
  <2>2. session \in 0 .. MaxReplace /\ psession \in [Panes -> Nat]
    OBVIOUS
  <2>3. QED
    BY <2>1, <2>2 DEF TypeOK, Stages
<1>2. OwnerInv
  BY DEF OwnerInv, OwnerHasHandler, Window
<1>3. TokenInv
  BY DEF TokenInv, TokensAreUnique
<1>4. PaneInv
  BY DEF PaneInv
<1>5. QED
  BY <1>1, <1>2, <1>3, <1>4 DEF IInv

\* The inductive invariant, type correctness included, holds throughout.
THEOREM OwnershipInvariant == Spec => []IInv
<1>1. IInv /\ [Next]_vars => IInv'
  BY TypeStep, OwnerStep, TokenStep, PaneStep DEF IInv
<1>2. QED
  BY InitIInv, <1>1, PTL DEF Spec

\* However resumes, takeovers, late unregistrations and deletions interleave,
\* two windows own the tab only if two handshakes overlapped between their
\* check and their registration (IsTabActive and RegisterTabClient).
THEOREM OwnershipIsExclusive == Spec => []OneOwnerUnlessRaced
<1>1. IInv => OneOwnerUnlessRaced
  BY DEF IInv, OwnerInv, OneOwnerUnlessRaced
<1>2. QED
  BY OwnershipInvariant, <1>1, PTL

\* A window that acts as the owner without being registered is in the list of
\* a handler that is about to close it (DisconnectTabOwner, ResumeTabClient).
THEOREM OwnershipDisplaces == Spec => []DisplacedIsBeingClosed
<1>1. IInv => DisplacedIsBeingClosed
  BY DEF IInv, OwnerInv, DisplacedIsBeingClosed
<1>2. QED
  BY OwnershipInvariant, <1>1, PTL

\* Every registered owner has a handler that will unregister it.
THEOREM OwnershipHasHandler == Spec => []OwnerHasHandler
<1>1. IInv => OwnerHasHandler
  BY DEF IInv, OwnerInv
<1>2. QED
  BY OwnershipInvariant, <1>1, PTL

\* ResumeTabClient finds at most one client with a page's token.
THEOREM OwnershipTokensUnique == Spec => []TokensAreUnique
<1>1. IInv => TokensAreUnique
  BY DEF IInv, TokenInv
<1>2. QED
  BY OwnershipInvariant, <1>1, PTL

\* Only a pane connection that was on its way through handleSessionWS escapes
\* DisconnectTabOwner with a revoked token.
THEOREM OwnershipClosesPanes == Spec => []TakeoverClosesPanes
<1>1. IInv => TakeoverClosesPanes
  BY DEF IInv, PaneInv, TakeoverClosesPanes
<1>2. QED
  BY OwnershipInvariant, <1>1, PTL

\* No step takes a token away but an eviction or the end of its connection.
LEMMA RevocationStep ==
  TypeOK /\ OwnerInv /\ TokenInv /\ [Next]_vars => RevokedRightly
<1> SUFFICES ASSUME TypeOK /\ OwnerInv /\ TokenInv, [Next]_vars PROVE RevokedRightly
  OBVIOUS
<1> USE PageAssumption DEF TypeOK, OwnerInv, OwnerHasHandler, TokenInv, TokensAreUnique, RevokedRightly, Accepted, vars, serverVars, handlerVars, paneVars, pageVars, history, Goto, Handlers
<1>1. ASSUME NEW p \in Pages, PageDrops(p) PROVE RevokedRightly
  BY <1>1 DEF PageDrops, Close
<1>2. ASSUME NEW p \in Pages, PageTold(p) PROVE RevokedRightly
  BY <1>2 DEF PageTold, Close
<1>3. ASSUME NEW c \in Conns, Open(c) PROVE RevokedRightly
  BY <1>3, SMTT(30) DEF Open, Close
<1>4. ASSUME NEW c \in Conns, LoseConn(c) PROVE RevokedRightly
  BY <1>4 DEF LoseConn, Close
<1>5. ASSUME NEW c \in Conns, ChooseTakeover(c) PROVE RevokedRightly
  BY <1>5 DEF ChooseTakeover, Close
<1>6. ASSUME NEW c \in Conns, ChooseNew(c) PROVE RevokedRightly
  BY <1>6 DEF ChooseNew, Close
<1>7. ASSUME NEW c \in Conns, Resume(c) PROVE RevokedRightly
  BY <1>7 DEF Resume, Close
<1>8. ASSUME NEW c \in Conns, DropOld(c) PROVE RevokedRightly
  BY <1>8 DEF DropOld, Close
<1>9. ASSUME NEW c \in Conns, CheckActive(c) PROVE RevokedRightly
  BY <1>9 DEF CheckActive, Close
<1>10. ASSUME NEW c \in Conns, NoChoice(c) PROVE RevokedRightly
  BY <1>10 DEF NoChoice, Close
<1>11. ASSUME NEW c \in Conns, Replace(c) PROVE RevokedRightly
  BY <1>11 DEF Replace, Close
<1>12. ASSUME NEW c \in Conns, Register(c) PROVE RevokedRightly
  BY <1>12 DEF Register, Close
<1>13. ASSUME NEW c \in Conns, Greet(c) PROVE RevokedRightly
  BY <1>13 DEF Greet, Close
<1>14. ASSUME NEW c \in Conns, EndReadLoop(c) PROVE RevokedRightly
  BY <1>14 DEF EndReadLoop, Close
<1>15. ASSUME NEW c \in Conns, Unregister(c) PROVE RevokedRightly
  BY <1>15 DEF Unregister, Close
<1>16. ASSUME NEW e \in Handlers, Evict(e) PROVE RevokedRightly
  BY <1>16 DEF Evict, Close
<1>17. ASSUME NEW e \in Handlers, Sweep(e) PROVE RevokedRightly
  BY <1>17 DEF Sweep, Close
<1>18. ASSUME NEW e \in Handlers, NEW v \in Conns, CloseVictim(e, v) PROVE RevokedRightly
  BY <1>18 DEF CloseVictim, Close
<1>19. CASE DeleteTab
  BY <1>19 DEF DeleteTab, Close
<1>20. ASSUME NEW q \in Panes, Authorise(q) PROVE RevokedRightly
  BY <1>20 DEF Authorise, Close
<1>21. ASSUME NEW q \in Panes, Attach(q) PROVE RevokedRightly
  BY <1>21 DEF Attach, Close
<1>22. ASSUME NEW q \in Panes, LosePane(q) PROVE RevokedRightly
  BY <1>22 DEF LosePane, Close
<1>23. ASSUME NEW q \in Panes, EndPane(q) PROVE RevokedRightly
  BY <1>23 DEF EndPane, Close
<1>24. CASE UNCHANGED vars
  BY <1>24
<1>25. QED
  BY <1>1, <1>2, <1>3, <1>4, <1>5, <1>6, <1>7, <1>8, <1>9, <1>10, <1>11, <1>12, <1>13, <1>14, <1>15, <1>16, <1>17, <1>18, <1>19, <1>20, <1>21, <1>22, <1>23, <1>24
  DEF Next, PageStep, HandlerStep, EvictStep

\* A page keeps its token until a takeover, a deletion or the end of the
\* connection registered with it: a resume never costs it (ResumeTabClient).
THEOREM OwnershipTokenRevocation == Spec => TokenRevocation
<1>1. IInv /\ [Next]_vars => [RevokedRightly]_vars
  BY RevocationStep DEF IInv
<1>2. QED
  BY OwnershipInvariant, <1>1, PTL DEF Spec, TokenRevocation
=============================================================================
