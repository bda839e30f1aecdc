----------------------- MODULE SessionRegistryProofs -----------------------
(***************************************************************************)
(* Proofs about SessionRegistry, for any workers and tabs, and any bound   *)
(* on the shells.  A lemma After<A> says what action A makes of its        *)
(* worker's job and of the registry; one lemma per part of the inductive   *)
(* invariant follows, each going through the actions of Next.              *)
(***************************************************************************)
EXTENDS SessionRegistry, TLAPS, FiniteSetTheorems

\* What w is doing after a step, as far as the invariant is concerned, ...
Becomes(w, op, at, tab, sid, new, made, todo) ==
  /\ \A v \in Workers \ {w} : job'[v] = job[v]
  /\ job'[w].op = op /\ job'[w].at = at /\ job'[w].tab = tab /\ job'[w].sid = sid
  /\ job'[w].new = new /\ job'[w].made = made /\ job'[w].todo = todo

\* ... when it is another place and what is to be deleted that change, ...
Moves(w, from, to, todo) ==
  /\ job[w].at = from
  /\ Becomes(w, job[w].op, to, job[w].tab, job[w].sid, job[w].new, job[w].made, todo)

\* ... and at the beginning and the end of an operation.
Begins(w, op, at, tab, sid, todo) ==
  job[w].at = "idle" /\ Becomes(w, op, at, tab, sid, None, {}, todo)
Ends(w, from) == job[w].at = from /\ Becomes(w, "none", "idle", None, None, None, {}, {})

\* Steps that leave the registry and the shells alone, but for who lives.
Rest == UNCHANGED <<sessions, live, layout, spawned, sidOf, byHand>>


\* Nothing is called None.
LEMMA NoneFacts == None \notin Ids /\ None \notin Tabs
BY RegistryAssumption DEF Ids, Shells

\* The operations a place belongs to.
LEMMA PlaceFacts ==
  ASSUME NEW op \in Ops
  PROVE  /\ "idle" \in StepsOf(op) <=> op = "none"
         /\ "check" \in StepsOf(op) <=> op = "revive"
         /\ "spawn" \in StepsOf(op) <=> op \in {"create", "split", "closeLast", "replace", "revive"}
         /\ "register" \in StepsOf(op) <=> op \in {"create", "split", "closeLast", "replace", "revive"}
         /\ "addTab" \in StepsOf(op) <=> op = "create"
         /\ "insert" \in StepsOf(op) <=> op = "split"
         /\ "swap" \in StepsOf(op) <=> op \in {"closeLast", "replace"}
         /\ "unlink" \in StepsOf(op) <=> op = "close"
         /\ "copy" \in StepsOf(op) <=> op = "replace"
         /\ "olds" \in StepsOf(op) <=> op = "replace"
         /\ "collect" \in StepsOf(op) <=> op = "delete"
         /\ "purge" \in StepsOf(op) <=> op \in {"close", "closeLast", "replace", "delete", "deleteSession"}
         /\ "rollback" \in StepsOf(op) <=> op \in {"split", "replace"}
         /\ "save" \in StepsOf(op) <=> op \in {"split", "close", "closeLast", "replace", "delete", "deleteSession", "save"}
         /\ "write" \in StepsOf(op) <=> op \in {"split", "close", "closeLast", "replace", "delete", "deleteSession", "save"}
BY DEF StepsOf, Ops

\* The types the proofs need.
Typed ==
  /\ \A w \in Workers : /\ job[w].op \in Ops /\ job[w].at \in Places /\ job[w].tab \in Tabs \cup {None}
                        /\ job[w].sid \in Ids \cup {None} /\ job[w].new \in Ids \cup {None}
                        /\ job[w].made \subseteq Ids /\ job[w].todo \subseteq Ids
  /\ layout \in [Tabs -> SUBSET Ids] /\ sessions \in [Ids -> Ids \cup {None}]
  /\ sidOf \in [Ids -> Ids] /\ live \subseteq Tabs
  /\ spawned \in Nat /\ spawned <= MaxShells

LEMMA JobTypes ==
  ASSUME TypeOK PROVE Typed
<1>1. ASSUME NEW w \in Workers
      PROVE  /\ job[w].op \in Ops /\ job[w].at \in Places /\ job[w].tab \in Tabs \cup {None}
             /\ job[w].sid \in Ids \cup {None} /\ job[w].new \in Ids \cup {None}
             /\ job[w].made \subseteq Ids /\ job[w].todo \subseteq Ids
  <2>1. job[w] \in Jobs
    BY DEF TypeOK
  <2>2. QED
    BY <2>1 DEF Jobs, Ids
<1>2. layout \in [Tabs -> SUBSET Ids] /\ live \subseteq Tabs /\ sidOf \in [Ids -> Ids]
  BY DEF TypeOK, Ids
<1>3. sessions \in [Ids -> Ids \cup {None}]
  BY DEF TypeOK, Ids
<1>4. spawned \in Nat /\ spawned <= MaxShells
  BY RegistryAssumption DEF TypeOK
<1>5. QED
  BY <1>1, <1>2, <1>3, <1>4 DEF Typed

\* What each action makes of its worker's job.
LEMMA AfterCreateTab ==
  ASSUME TypeOK, NEW w \in Workers, NEW t \in Tabs, CreateTab(w, t)
  PROVE  /\ Begins(w, "create", "spawn", t, None, {}) /\ Rest
         /\ t \notin live /\ layout[t] = {} /\ \A v \in Workers : job[v].tab # t
BY DEF CreateTab, Begin, Job, TypeOK, Jobs, Becomes, Idle, Begins, Busy, Rest, registry, shells

LEMMA AfterSplitPane ==
  ASSUME TypeOK, NEW w \in Workers, NEW t \in Tabs, NEW s \in Ids, SplitPane(w, t, s)
  PROVE  /\ Begins(w, "split", "spawn", t, s, {}) /\ Rest
         /\ t \in live /\ s \in layout[t]
BY DEF SplitPane, Begin, Job, PaneJob, TypeOK, Jobs, Becomes, Idle, Begins, Busy, Rest,
       registry, shells

LEMMA AfterClosePane ==
  ASSUME TypeOK, NEW w \in Workers, NEW t \in Tabs, NEW s \in Ids, ClosePane(w, t, s)
  PROVE  /\ \/ Begins(w, "closeLast", "spawn", t, s, {})
            \/ Begins(w, "close", "unlink", t, s, {})
         /\ Rest /\ t \in live /\ s \in layout[t]
BY DEF ClosePane, Begin, Job, PaneJob, TypeOK, Jobs, Becomes, Idle, Begins, Busy, Rest,
       registry, shells

LEMMA AfterReplaceTabSessions ==
  ASSUME TypeOK, NEW w \in Workers, NEW t \in Tabs, ReplaceTabSessions(w, t)
  PROVE  Begins(w, "replace", "copy", t, None, {}) /\ Rest /\ t \in live
BY DEF ReplaceTabSessions, Begin, Job, TypeOK, Jobs, Becomes, Idle, Begins, Busy, Rest,
       registry, shells

LEMMA AfterDeleteTab ==
  ASSUME TypeOK, NEW w \in Workers, NEW t \in Tabs, DeleteTab(w, t)
  PROVE  /\ Begins(w, "delete", "collect", t, None, {})
         /\ t \in live /\ live' = live \ {t}
         /\ UNCHANGED <<sessions, layout, spawned, sidOf, byHand>>
BY DEF DeleteTab, Begin, Job, TypeOK, Jobs, Becomes, Idle, Begins, Busy, shells

LEMMA AfterDeleteSession ==
  ASSUME TypeOK, NEW w \in Workers, NEW s \in Ids, DeleteSession(w, s)
  PROVE  /\ Begins(w, "deleteSession", "purge", None, None, {s})
         /\ s \in Registered /\ byHand' = byHand \cup {s}
         /\ UNCHANGED <<sessions, live, layout, spawned, sidOf>>
BY DEF DeleteSession, Job, TypeOK, Jobs, Becomes, Idle, Begins, Busy, registry, shells

LEMMA AfterAttachSession ==
  ASSUME TypeOK, NEW w \in Workers, NEW t \in Tabs, NEW s \in Ids, AttachSession(w, t, s)
  PROVE  Begins(w, "revive", "check", t, s, {}) /\ Rest /\ t \in live /\ s \in layout[t]
BY DEF AttachSession, Begin, Job, PaneJob, TypeOK, Jobs, Becomes, Idle, Begins, Busy, Rest,
       registry, shells

LEMMA AfterSaveState ==
  ASSUME TypeOK, NEW w \in Workers, SaveState(w)
  PROVE  Begins(w, "save", "save", None, None, {}) /\ Rest
BY DEF SaveState, Job, TypeOK, Jobs, Becomes, Idle, Begins, Busy, Rest, registry, shells,
       history

LEMMA AfterCheckDead ==
  ASSUME TypeOK, NEW w \in Workers, CheckDead(w)
  PROVE  (Moves(w, "check", "spawn", job[w].todo) \/ Ends(w, "check")) /\ Rest
BY DEF CheckDead, Go, Done, TypeOK, Jobs, Becomes, Idle, Moves, Ends, Rest, registry, shells,
       history

LEMMA AfterSpawn ==
  ASSUME TypeOK, NEW w \in Workers, Spawn(w)
  PROVE  /\ job[w].at = "spawn" /\ spawned < MaxShells /\ spawned' = spawned + 1
         /\ sidOf' = [sidOf EXCEPT ![spawned + 1] = IF job[w].op = "revive" THEN job[w].sid ELSE @]
         /\ Becomes(w, job[w].op, "register", job[w].tab, job[w].sid, spawned + 1, job[w].made, job[w].todo)
         /\ UNCHANGED <<sessions, live, layout, byHand>>
BY DEF Spawn, TypeOK, Jobs, Becomes, Idle, registry, history

LEMMA AfterSpawnFails ==
  ASSUME TypeOK, NEW w \in Workers, SpawnFails(w)
  PROVE  /\ \/ job[w].op = "replace" /\ Moves(w, "spawn", "rollback", job[w].made)
            \/ job[w].op # "replace" /\ Ends(w, "spawn")
         /\ Rest
BY DEF SpawnFails, Done, TypeOK, Jobs, Becomes, Idle, Moves, Ends, Rest, registry, shells,
       history

LEMMA AfterRegister ==
  ASSUME TypeOK, PlaceInv, NEW w \in Workers, Register(w)
  PROVE  /\ \/ job[w].op = "create" /\ Moves(w, "register", "addTab", job[w].todo)
            \/ job[w].op = "split" /\ Moves(w, "register", "insert", job[w].todo)
            \/ job[w].op = "closeLast" /\ Moves(w, "register", "swap", job[w].todo)
            \/ job[w].op = "revive" /\ Ends(w, "register")
            \/ /\ job[w].op = "replace" /\ job[w].at = "register"
               /\ \E at \in {"spawn", "swap"} :
                    Becomes(w, "replace", at, job[w].tab, job[w].sid, job[w].new,
                            job[w].made \cup {job[w].new}, job[w].todo)
         /\ sessions' = [sessions EXCEPT ![sidOf[job[w].new]] = job[w].new]
         /\ UNCHANGED <<live, layout, spawned, sidOf, byHand>>
<1> USE DEF TypeOK, Jobs, Becomes, Idle, Moves, Ends, shells, history
<1>1. job[w].op \in {"create", "split", "closeLast", "replace", "revive"}
  BY PlaceFacts DEF Register, PlaceInv
<1>2. CASE job[w].op = "create"
  BY <1>2 DEF Register, Go
<1>3. CASE job[w].op = "split"
  BY <1>3 DEF Register, Go
<1>4. CASE job[w].op = "closeLast"
  BY <1>4 DEF Register, Go
<1>5. CASE job[w].op = "revive"
  BY <1>5 DEF Register, Done
<1>6. CASE job[w].op = "replace"
  <2> DEFINE at == IF Cardinality(job[w].made) + 1 < job[w].want THEN "spawn" ELSE "swap"
  <2>1. job' = [job EXCEPT ![w].made = @ \cup {job[w].new}, ![w].at = at]
    BY <1>6 DEF Register
  <2>2. at \in {"spawn", "swap"}
    OBVIOUS
  <2>3. job[w].at = "register" /\ sessions' = [sessions EXCEPT ![sidOf[job[w].new]] = job[w].new]
        /\ UNCHANGED <<live, layout, spawned, sidOf, byHand>>
    BY DEF Register
  <2> HIDE DEF at
  <2>4. Becomes(w, "replace", at, job[w].tab, job[w].sid, job[w].new,
                job[w].made \cup {job[w].new}, job[w].todo)
    BY <1>6, <2>1
  <2> HIDE DEF Becomes, Moves, Ends, TypeOK
  <2>5. QED
    BY <1>6, <2>2, <2>3, <2>4
<1>7. QED
  BY <1>1, <1>2, <1>3, <1>4, <1>5, <1>6

LEMMA AfterAddTab ==
  ASSUME TypeOK, NEW w \in Workers, AddTab(w)
  PROVE  /\ Ends(w, "addTab") /\ live' = live \cup {job[w].tab}
         /\ layout' = [layout EXCEPT ![job[w].tab] = {job[w].new}]
         /\ UNCHANGED <<sessions, spawned, sidOf, byHand>>
BY DEF AddTab, Done, TypeOK, Jobs, Becomes, Idle, Ends, shells, history

LEMMA AfterInsert ==
  ASSUME TypeOK, NEW w \in Workers, Insert(w)
  PROVE  /\ \/ /\ Moves(w, "insert", "save", job[w].todo)
               /\ layout' = [layout EXCEPT ![job[w].tab] = @ \cup {job[w].new}]
            \/ Moves(w, "insert", "rollback", {job[w].new}) /\ layout' = layout
         /\ UNCHANGED <<sessions, live, spawned, sidOf, byHand>>
BY DEF Insert, Go, TypeOK, Jobs, Becomes, Idle, Moves, shells, history

LEMMA AfterSwap ==
  ASSUME TypeOK, NEW w \in Workers, Swap(w)
  PROVE  /\ \/ /\ job[w].op = "replace" /\ Moves(w, "swap", "purge", job[w].todo)
               /\ layout' = [layout EXCEPT ![job[w].tab] = job[w].made]
            \/ /\ job[w].op # "replace" /\ Moves(w, "swap", "purge", {job[w].sid})
               /\ layout' = [layout EXCEPT ![job[w].tab] = {job[w].new}]
         /\ UNCHANGED <<sessions, live, spawned, sidOf, byHand>>
BY ZenonT(60) DEF Swap, TypeOK, Jobs, Becomes, Idle, Moves, shells, history

LEMMA AfterUnlink ==
  ASSUME TypeOK, NEW w \in Workers, Unlink(w)
  PROVE  /\ \/ /\ Moves(w, "unlink", "purge", {job[w].sid})
               /\ layout' = [layout EXCEPT ![job[w].tab] = @ \ {job[w].sid}]
            \/ Ends(w, "unlink") /\ layout' = layout
         /\ UNCHANGED <<sessions, live, spawned, sidOf, byHand>>
BY DEF Unlink, Done, TypeOK, Jobs, Becomes, Idle, Moves, Ends, shells, history

LEMMA AfterCopyLayout ==
  ASSUME TypeOK, NEW w \in Workers, CopyLayout(w)
  PROVE  Moves(w, "copy", "olds", job[w].todo) /\ Rest
BY DEF CopyLayout, TypeOK, Jobs, Becomes, Idle, Moves, Rest, registry, shells, history

LEMMA AfterCollectOld ==
  ASSUME TypeOK, NEW w \in Workers, CollectOld(w)
  PROVE  Moves(w, "olds", "spawn", layout[job[w].tab]) /\ Rest
BY DEF CollectOld, TypeOK, Jobs, Becomes, Idle, Moves, Rest, registry, shells, history

LEMMA AfterCollect ==
  ASSUME TypeOK, NEW w \in Workers, Collect(w)
  PROVE  Moves(w, "collect", "purge", layout[job[w].tab]) /\ Rest
BY DEF Collect, TypeOK, Jobs, Becomes, Idle, Moves, Rest, registry, shells, history

LEMMA AfterPurge ==
  ASSUME TypeOK, NEW w \in Workers, NEW s \in Ids, Purge(w, s)
  PROVE  /\ job[w].at \in {"purge", "rollback"} /\ s \in job[w].todo
         /\ Moves(w, job[w].at, job[w].at, job[w].todo \ {s})
         /\ sessions' = [sessions EXCEPT ![s] = None]
         /\ UNCHANGED <<live, layout, spawned, sidOf, byHand>>
BY DEF Purge, TypeOK, Jobs, Becomes, Idle, Moves, shells, history

LEMMA AfterKill ==
  ASSUME TypeOK, NEW w \in Workers, Kill(w)
  PROVE  Moves(w, job[w].at, job[w].at, job[w].todo) /\ Rest
BY DEF Kill, TypeOK, Jobs, Becomes, Idle, Moves, Rest, registry, history

LEMMA AfterPurged ==
  ASSUME TypeOK, NEW w \in Workers, Purged(w)
  PROVE  /\ \/ Moves(w, "purge", "save", job[w].todo)
            \/ Ends(w, "rollback")
         /\ Rest
BY DEF Purged, Go, Done, TypeOK, Jobs, Becomes, Idle, Moves, Ends, Rest, registry, shells,
       history

LEMMA AfterCapture ==
  ASSUME TypeOK, NEW w \in Workers, Capture(w)
  PROVE  Moves(w, "save", "write", job[w].todo) /\ Rest
BY DEF Capture, TypeOK, Jobs, Becomes, Idle, Moves, Rest, registry, shells

LEMMA AfterWriteState ==
  ASSUME TypeOK, NEW w \in Workers, WriteState(w)
  PROVE  Ends(w, "write") /\ Rest
BY DEF WriteState, Done, TypeOK, Jobs, Becomes, Idle, Ends, Rest, registry, shells, history

\* A worker is where its operation takes it.
Placed(op, at, tab, sid, new, made) ==
  /\ at \in StepsOf(op)
  /\ at \in {"register", "addTab", "insert", "swap"} => new # None
  /\ op \in {"split", "close", "closeLast", "revive"} => sid # None
  /\ op \in {"none", "save", "deleteSession"} <=> tab = None
  /\ op # "replace" \/ at \in {"copy", "olds"} => made = {}

LEMMA PlaceFrame ==
  ASSUME PlaceInv, NEW w \in Workers, \A v \in Workers \ {w} : job'[v] = job[v],
         Placed(job'[w].op, job'[w].at, job'[w].tab, job'[w].sid, job'[w].new, job'[w].made)
  PROVE  PlaceInv'
BY DEF PlaceInv, Placed

\* Every operation takes its own steps.
LEMMA PlaceStep ==
  TypeOK /\ PlaceInv /\ [Next]_vars => PlaceInv'
<1> SUFFICES ASSUME TypeOK, PlaceInv, [Next]_vars PROVE PlaceInv'
  OBVIOUS
<1>0. Typed
  BY JobTypes
<1> USE DEF Typed, PlaceInv, Ops, Placed
<1>1. ASSUME NEW w \in Workers, NEW t \in Tabs, CreateTab(w, t) PROVE PlaceInv'
  BY <1>0, <1>1, AfterCreateTab, PlaceFacts, PlaceFrame, NoneFacts,
     RegistryAssumption DEF Begins, Rest, Becomes
<1>2. ASSUME NEW w \in Workers, NEW t \in Tabs, NEW s \in Ids, SplitPane(w, t, s) PROVE PlaceInv'
  BY <1>0, <1>2, AfterSplitPane, PlaceFacts, PlaceFrame, NoneFacts,
     RegistryAssumption DEF Begins, Rest, Becomes
<1>3. ASSUME NEW w \in Workers, NEW t \in Tabs, NEW s \in Ids, ClosePane(w, t, s) PROVE PlaceInv'
  BY <1>0, <1>3, AfterClosePane, PlaceFacts, PlaceFrame, NoneFacts,
     RegistryAssumption DEF Begins, Rest, Becomes
<1>4. ASSUME NEW w \in Workers, NEW t \in Tabs, ReplaceTabSessions(w, t) PROVE PlaceInv'
  BY <1>0, <1>4, AfterReplaceTabSessions, PlaceFacts, PlaceFrame, NoneFacts,
     RegistryAssumption DEF Begins, Rest, Becomes
<1>5. ASSUME NEW w \in Workers, NEW t \in Tabs, DeleteTab(w, t) PROVE PlaceInv'
  BY <1>0, <1>5, AfterDeleteTab, PlaceFacts, PlaceFrame, NoneFacts,
     RegistryAssumption DEF Begins, Becomes
<1>6. ASSUME NEW w \in Workers, NEW s \in Ids, DeleteSession(w, s) PROVE PlaceInv'
  BY <1>0, <1>6, AfterDeleteSession, PlaceFacts, PlaceFrame, NoneFacts,
     RegistryAssumption DEF Begins, Becomes
<1>7. ASSUME NEW w \in Workers, NEW t \in Tabs, NEW s \in Ids, AttachSession(w, t, s) PROVE PlaceInv'
  BY <1>0, <1>7, AfterAttachSession, PlaceFacts, PlaceFrame, NoneFacts,
     RegistryAssumption DEF Begins, Rest, Becomes
<1>8. ASSUME NEW w \in Workers, SaveState(w) PROVE PlaceInv'
  BY <1>0, <1>8, AfterSaveState, PlaceFacts, PlaceFrame, NoneFacts,
     RegistryAssumption DEF Begins, Rest, Becomes
<1>9. ASSUME NEW w \in Workers, CheckDead(w) PROVE PlaceInv'
  BY <1>0, <1>9, AfterCheckDead, PlaceFacts, PlaceFrame, NoneFacts,
     RegistryAssumption DEF Moves, Ends, Rest, Becomes
<1>10. ASSUME NEW w \in Workers, Spawn(w) PROVE PlaceInv'
  BY <1>0, <1>10, AfterSpawn, PlaceFacts, PlaceFrame, NoneFacts, RegistryAssumption DEF Becomes
<1>11. ASSUME NEW w \in Workers, SpawnFails(w) PROVE PlaceInv'
  BY <1>0, <1>11, AfterSpawnFails, PlaceFacts, PlaceFrame, NoneFacts,
     RegistryAssumption DEF Moves, Ends, Rest, Becomes
<1>12. ASSUME NEW w \in Workers, Register(w) PROVE PlaceInv'
  BY <1>0, <1>12, AfterRegister, PlaceFacts, PlaceFrame, NoneFacts,
     RegistryAssumption DEF Moves, Ends, Becomes
<1>13. ASSUME NEW w \in Workers, AddTab(w) PROVE PlaceInv'
  BY <1>0, <1>13, AfterAddTab, PlaceFacts, PlaceFrame, NoneFacts, RegistryAssumption DEF Ends,
     Becomes
<1>14. ASSUME NEW w \in Workers, Insert(w) PROVE PlaceInv'
  BY <1>0, <1>14, AfterInsert, PlaceFacts, PlaceFrame, NoneFacts, RegistryAssumption DEF Moves,
     Becomes
<1>15. ASSUME NEW w \in Workers, Swap(w) PROVE PlaceInv'
  BY <1>0, <1>15, AfterSwap, PlaceFacts, PlaceFrame, NoneFacts, RegistryAssumption DEF Moves,
     Becomes
<1>16. ASSUME NEW w \in Workers, Unlink(w) PROVE PlaceInv'
  BY <1>0, <1>16, AfterUnlink, PlaceFacts, PlaceFrame, NoneFacts, RegistryAssumption DEF Moves,
     Ends, Becomes
<1>17. ASSUME NEW w \in Workers, CopyLayout(w) PROVE PlaceInv'
  BY <1>0, <1>17, AfterCopyLayout, PlaceFacts, PlaceFrame, NoneFacts,
     RegistryAssumption DEF Moves, Rest, Becomes
<1>18. ASSUME NEW w \in Workers, CollectOld(w) PROVE PlaceInv'
  BY <1>0, <1>18, AfterCollectOld, PlaceFacts, PlaceFrame, NoneFacts,
     RegistryAssumption DEF Moves, Rest, Becomes
<1>19. ASSUME NEW w \in Workers, Collect(w) PROVE PlaceInv'
  BY <1>0, <1>19, AfterCollect, PlaceFacts, PlaceFrame, NoneFacts,
     RegistryAssumption DEF Moves, Rest, Becomes
<1>20. ASSUME NEW w \in Workers, NEW s \in Ids, Purge(w, s) PROVE PlaceInv'
  BY <1>0, <1>20, AfterPurge, PlaceFacts, PlaceFrame, NoneFacts, RegistryAssumption DEF Moves,
     Becomes
<1>21. ASSUME NEW w \in Workers, Kill(w) PROVE PlaceInv'
  BY <1>0, <1>21, AfterKill, PlaceFacts, PlaceFrame, NoneFacts, RegistryAssumption DEF Moves,
     Rest, Becomes
<1>22. ASSUME NEW w \in Workers, Purged(w) PROVE PlaceInv'
  BY <1>0, <1>22, AfterPurged, PlaceFacts, PlaceFrame, NoneFacts, RegistryAssumption DEF Moves,
     Ends, Rest, Becomes
<1>23. ASSUME NEW w \in Workers, Capture(w) PROVE PlaceInv'
  BY <1>0, <1>23, AfterCapture, PlaceFacts, PlaceFrame, NoneFacts,
     RegistryAssumption DEF Moves, Rest, Becomes
<1>24. ASSUME NEW w \in Workers, WriteState(w) PROVE PlaceInv'
  BY <1>0, <1>24, AfterWriteState, PlaceFacts, PlaceFrame, NoneFacts,
     RegistryAssumption DEF Ends, Rest, Becomes
<1>25. ASSUME NEW n \in Shells, ShellExit(n) PROVE PlaceInv'
  BY <1>25 DEF ShellExit, registry, history
<1>26. CASE UNCHANGED vars
  BY <1>26 DEF vars
<1>27. QED
  BY <1>1, <1>2, <1>3, <1>4, <1>5, <1>6, <1>7, <1>8, <1>9, <1>10, <1>11, <1>12, <1>13, <1>14,
     <1>15, <1>16, <1>17, <1>18, <1>19, <1>20, <1>21, <1>22, <1>23, <1>24, <1>25, <1>26
  DEF Next, BeginStep, WorkStep

\* Ids come from starting shells.
LEMMA IdStep ==
  TypeOK /\ PlaceInv /\ IdInv /\ [Next]_vars => IdInv'
<1> SUFFICES ASSUME TypeOK, PlaceInv, IdInv, [Next]_vars PROVE IdInv'
  OBVIOUS
<1>0. Typed
  BY JobTypes
<1> USE DEF Typed, IdInv, Registered, Spawned
<1>1. ASSUME NEW w \in Workers, NEW t \in Tabs, CreateTab(w, t) PROVE IdInv'
  BY <1>0, <1>1, AfterCreateTab, PlaceFacts, NoneFacts DEF Begins, Rest, Becomes
<1>2. ASSUME NEW w \in Workers, NEW t \in Tabs, NEW s \in Ids, SplitPane(w, t, s) PROVE IdInv'
  BY <1>0, <1>2, AfterSplitPane, PlaceFacts, NoneFacts DEF Begins, Rest, Becomes
<1>3. ASSUME NEW w \in Workers, NEW t \in Tabs, NEW s \in Ids, ClosePane(w, t, s) PROVE IdInv'
  BY <1>0, <1>3, AfterClosePane, PlaceFacts, NoneFacts DEF Begins, Rest, Becomes
<1>4. ASSUME NEW w \in Workers, NEW t \in Tabs, ReplaceTabSessions(w, t) PROVE IdInv'
  BY <1>0, <1>4, AfterReplaceTabSessions, PlaceFacts, NoneFacts DEF Begins, Rest, Becomes
<1>5. ASSUME NEW w \in Workers, NEW t \in Tabs, DeleteTab(w, t) PROVE IdInv'
  BY <1>0, <1>5, AfterDeleteTab, PlaceFacts, NoneFacts DEF Begins, Becomes
<1>6. ASSUME NEW w \in Workers, NEW s \in Ids, DeleteSession(w, s) PROVE IdInv'
  BY <1>0, <1>6, AfterDeleteSession, PlaceFacts, NoneFacts DEF Begins, Becomes
<1>7. ASSUME NEW w \in Workers, NEW t \in Tabs, NEW s \in Ids, AttachSession(w, t, s) PROVE IdInv'
  BY <1>0, <1>7, AfterAttachSession, PlaceFacts, NoneFacts DEF Begins, Rest, Becomes
<1>8. ASSUME NEW w \in Workers, SaveState(w) PROVE IdInv'
  BY <1>0, <1>8, AfterSaveState, PlaceFacts, NoneFacts DEF Begins, Rest, Becomes
<1>9. ASSUME NEW w \in Workers, CheckDead(w) PROVE IdInv'
  BY <1>0, <1>9, AfterCheckDead, PlaceFacts, NoneFacts DEF Moves, Ends, Rest, Becomes
<1>10. ASSUME NEW w \in Workers, Spawn(w) PROVE IdInv'
  <2>1. /\ spawned' = spawned + 1 /\ UNCHANGED <<sessions, layout>>
        /\ sidOf' = [sidOf EXCEPT ![spawned + 1] = IF job[w].op = "revive" THEN job[w].sid ELSE @]
        /\ Becomes(w, job[w].op, "register", job[w].tab, job[w].sid, spawned + 1, job[w].made, job[w].todo)
        /\ spawned < MaxShells /\ job[w].at = "spawn"
    BY <1>10, AfterSpawn
  <2>2. Spawned' = Spawned \cup {spawned + 1} /\ spawned + 1 \in Ids
    BY <1>0, <2>1, RegistryAssumption DEF Ids, Shells
  <2>3. \A n \in Shells : (IF n \in Spawned THEN sidOf[n] \in Spawned ELSE sidOf[n] = n)'
    <3>1. job[w].op = "revive" => job[w].sid \in Spawned
      BY DEF PlaceInv
    <3>2. QED
      BY <1>0, <2>1, <2>2, <3>1 DEF Ids
  <2>4. (Registered \subseteq Spawned /\ \A t \in Tabs : layout[t] \subseteq Spawned)'
    BY <2>1, <2>2
  <2>5. (\A v \in Workers : /\ job[v].made \cup job[v].todo \subseteq Spawned
                            /\ job[v].sid \in Spawned \cup {None} /\ job[v].new \in Spawned \cup {None})'
    BY <2>1, <2>2 DEF Becomes
  <2>6. QED
    BY <2>3, <2>4, <2>5
<1>11. ASSUME NEW w \in Workers, SpawnFails(w) PROVE IdInv'
  BY <1>0, <1>11, AfterSpawnFails, PlaceFacts, NoneFacts DEF Moves, Ends, Rest, Becomes
<1>12. ASSUME NEW w \in Workers, Register(w) PROVE IdInv'
  <2>1. job[w].new \in Spawned /\ sidOf[job[w].new] \in Spawned /\ Spawned \subseteq Ids
    <3>1. job[w].at = "register"
      BY <1>12, AfterRegister DEF Moves, Ends
    <3>2. QED
      BY <1>0, <3>1, RegistryAssumption DEF PlaceInv, Ids, Shells
  <2>2. Registered' \subseteq Spawned
    <3>1. sessions' = [sessions EXCEPT ![sidOf[job[w].new]] = job[w].new]
      BY <1>12, AfterRegister
    <3>2. QED
      BY <1>0, <2>1, <3>1
  <2>3. QED
    BY <1>0, <1>12, <2>1, <2>2, AfterRegister DEF Moves, Ends, Becomes
<1>13. ASSUME NEW w \in Workers, AddTab(w) PROVE IdInv'
  BY <1>0, <1>13, AfterAddTab, PlaceFacts, NoneFacts DEF Ends, Becomes, PlaceInv
<1>14. ASSUME NEW w \in Workers, Insert(w) PROVE IdInv'
  BY <1>0, <1>14, AfterInsert, PlaceFacts, NoneFacts DEF Moves, Becomes, PlaceInv
<1>15. ASSUME NEW w \in Workers, Swap(w) PROVE IdInv'
  BY <1>0, <1>15, AfterSwap, PlaceFacts, NoneFacts DEF Moves, Becomes, PlaceInv
<1>16. ASSUME NEW w \in Workers, Unlink(w) PROVE IdInv'
  BY <1>0, <1>16, AfterUnlink, PlaceFacts, NoneFacts DEF Moves, Ends, Becomes, PlaceInv
<1>17. ASSUME NEW w \in Workers, CopyLayout(w) PROVE IdInv'
  BY <1>0, <1>17, AfterCopyLayout, PlaceFacts, NoneFacts DEF Moves, Rest, Becomes
<1>18. ASSUME NEW w \in Workers, CollectOld(w) PROVE IdInv'
  BY <1>0, <1>18, AfterCollectOld, PlaceFacts, NoneFacts DEF Moves, Rest, Becomes, PlaceInv
<1>19. ASSUME NEW w \in Workers, Collect(w) PROVE IdInv'
  BY <1>0, <1>19, AfterCollect, PlaceFacts, NoneFacts DEF Moves, Rest, Becomes, PlaceInv
<1>20. ASSUME NEW w \in Workers, NEW s \in Ids, Purge(w, s) PROVE IdInv'
  BY <1>0, <1>20, AfterPurge, PlaceFacts, NoneFacts DEF Moves, Becomes
<1>21. ASSUME NEW w \in Workers, Kill(w) PROVE IdInv'
  BY <1>0, <1>21, AfterKill, PlaceFacts, NoneFacts DEF Moves, Rest, Becomes
<1>22. ASSUME NEW w \in Workers, Purged(w) PROVE IdInv'
  BY <1>0, <1>22, AfterPurged, PlaceFacts, NoneFacts DEF Moves, Ends, Rest, Becomes
<1>23. ASSUME NEW w \in Workers, Capture(w) PROVE IdInv'
  BY <1>0, <1>23, AfterCapture, PlaceFacts, NoneFacts DEF Moves, Rest, Becomes
<1>24. ASSUME NEW w \in Workers, WriteState(w) PROVE IdInv'
  BY <1>0, <1>24, AfterWriteState, PlaceFacts, NoneFacts DEF Ends, Rest, Becomes
<1>25. ASSUME NEW n \in Shells, ShellExit(n) PROVE IdInv'
  BY <1>25 DEF ShellExit, registry, history
<1>26. CASE UNCHANGED vars
  BY <1>26 DEF vars
<1>27. QED
  BY <1>1, <1>2, <1>3, <1>4, <1>5, <1>6, <1>7, <1>8, <1>9, <1>10, <1>11, <1>12, <1>13, <1>14,
     <1>15, <1>16, <1>17, <1>18, <1>19, <1>20, <1>21, <1>22, <1>23, <1>24, <1>25, <1>26
  DEF Next, BeginStep, WorkStep

\* A step that leaves w with nothing of its own: what enters a layout was w's own,
\* and w is not told of what others have.
LEMMA FreshFrame ==
  ASSUME FreshInv, NEW w \in Workers, \A v \in Workers \ {w} : job'[v] = job[v],
         \A t \in Tabs : layout'[t] \subseteq layout[t] \cup Fresh(w), sidOf' = sidOf,
         InHand(w)' = {}, Made(w)' = {},
         \A v \in Workers \ {w} : Fresh(v) \cap Registered \subseteq Registered' \cup byHand',
         byHand \subseteq byHand', \A v \in Workers \ {w} : Old(w)' \cap Fresh(v) = {}
  PROVE  FreshInv'
<1>1. \A v \in Workers \ {w} : InHand(v)' = InHand(v) /\ Made(v)' = Made(v) /\ Old(v)' = Old(v)
  BY DEF InHand, Made, Old
<1>2. Fresh(w)' = {} /\ \A v \in Workers \ {w} : Fresh(v)' = Fresh(v)
  BY <1>1 DEF Fresh
<1>3. \A v \in Workers : Fresh(v)' = {} \/ (v # w /\ Fresh(v)' = Fresh(v))
  BY <1>2
<1>4. (\A v \in Workers : \A n \in InHand(v) : sidOf[n] = n)'
  BY <1>1 DEF FreshInv
<1>5. (\A v \in Workers, t \in Tabs : Fresh(v) \cap layout[t] = {})'
  BY <1>3 DEF FreshInv
<1>6. (\A u, v \in Workers : u # v => Fresh(u) \cap Fresh(v) = {})'
  BY <1>3 DEF FreshInv
<1>7. (\A u, v \in Workers : Old(u) \cap Fresh(v) = {})'
  BY <1>1, <1>3 DEF FreshInv
<1>8. (\A v \in Workers : /\ Made(v) \subseteq Registered \cup byHand
                          /\ job[v].at # "register" => InHand(v) \subseteq Registered \cup byHand)'
  <2> SUFFICES ASSUME NEW v \in Workers \ {w}
               PROVE  /\ Made(v) \subseteq Registered' \cup byHand'
                      /\ job[v].at # "register" => InHand(v) \subseteq Registered' \cup byHand'
    BY <1>1
  <2>1. /\ Made(v) \subseteq Registered \cup byHand
        /\ job[v].at # "register" => InHand(v) \subseteq Registered \cup byHand
    BY DEF FreshInv
  <2>2. QED
    BY <2>1 DEF Fresh
<1>9. QED
  BY <1>4, <1>5, <1>6, <1>7, <1>8 DEF FreshInv

\* A step in which w keeps some of its own, all of it registered by now.
LEMMA FreshKept ==
  ASSUME FreshInv, NEW w \in Workers, \A v \in Workers \ {w} : job'[v] = job[v],
         UNCHANGED <<layout, sidOf, byHand>>, Registered \subseteq Registered',
         InHand(w)' \subseteq InHand(w), Fresh(w)' \subseteq Fresh(w), Old(w)' \subseteq Old(w),
         Fresh(w)' \subseteq Registered' \cup byHand'
  PROVE  FreshInv'
<1>1. \A v \in Workers \ {w} : InHand(v)' = InHand(v) /\ Made(v)' = Made(v) /\ Old(v)' = Old(v)
  BY DEF InHand, Made, Old
<1>2. \A v \in Workers : InHand(v)' \subseteq InHand(v) /\ Fresh(v)' \subseteq Fresh(v) /\ Old(v)' \subseteq Old(v)
  BY <1>1 DEF Fresh
<1>3. (\A v \in Workers : \A n \in InHand(v) : sidOf[n] = n)'
  BY <1>2 DEF FreshInv
<1>4. (\A v \in Workers, t \in Tabs : Fresh(v) \cap layout[t] = {})'
  BY <1>2 DEF FreshInv
<1>5. (\A u, v \in Workers : u # v => Fresh(u) \cap Fresh(v) = {})'
  BY <1>2 DEF FreshInv
<1>6. (\A u, v \in Workers : Old(u) \cap Fresh(v) = {})'
  BY <1>2 DEF FreshInv
<1>7. (\A v \in Workers : /\ Made(v) \subseteq Registered \cup byHand
                          /\ job[v].at # "register" => InHand(v) \subseteq Registered \cup byHand)'
  <2>1. Made(w)' \subseteq Fresh(w)' /\ InHand(w)' \subseteq Fresh(w)'
    BY DEF Fresh
  <2>2. \A v \in Workers \ {w} : /\ Made(v) \subseteq Registered \cup byHand
                                 /\ job[v].at # "register" => InHand(v) \subseteq Registered \cup byHand
    BY DEF FreshInv
  <2>3. QED
    BY <1>1, <2>1, <2>2
<1>8. QED
  BY <1>3, <1>4, <1>5, <1>6, <1>7 DEF FreshInv

\* A step that does not touch any of it.
LEMMA FreshSame ==
  ASSUME FreshInv, UNCHANGED <<sessions, layout, sidOf, byHand>>,
         \A v \in Workers : /\ InHand(v)' = InHand(v) /\ Made(v)' = Made(v) /\ Old(v)' = Old(v)
                            /\ job'[v].at = job[v].at
  PROVE  FreshInv'
<1>1. (\A v \in Workers : Fresh(v)' = Fresh(v)) /\ Registered' = Registered
  BY DEF Fresh, Registered
<1>2. QED
  BY <1>1 DEF FreshInv

\* What an operation makes stays its own until it is in a layout.
LEMMA FreshStep ==
  TypeOK /\ PlaceInv /\ IdInv /\ FreshInv /\ DoomInv /\ [Next]_vars => FreshInv'
<1> SUFFICES ASSUME TypeOK, PlaceInv, IdInv, FreshInv, DoomInv, [Next]_vars PROVE FreshInv'
  OBVIOUS
<1>0. Typed
  BY JobTypes
<1> USE DEF Typed, FreshInv, InHand, Made, Fresh, Old, Registered
<1>1. ASSUME NEW w \in Workers, NEW t \in Tabs, CreateTab(w, t) PROVE FreshInv'
  <2>1. InHand(w)' = {} /\ Made(w)' = {} /\ Old(w)' = {}
    BY <1>1, AfterCreateTab DEF Begins, Becomes
  <2>2. UNCHANGED <<sessions, layout, sidOf, byHand>> /\ \A v \in Workers \ {w} : job'[v] = job[v]
    BY <1>1, AfterCreateTab DEF Begins, Becomes, Rest
  <2>3. QED
    BY <2>1, <2>2, FreshFrame, SMTT(30)
<1>2. ASSUME NEW w \in Workers, NEW t \in Tabs, NEW s \in Ids, SplitPane(w, t, s) PROVE FreshInv'
  <2>1. InHand(w)' = {} /\ Made(w)' = {}
    BY <1>2, AfterSplitPane DEF Begins, Becomes
  <2>2. Old(w)' \subseteq {s} /\ s \in layout[t] /\ Rest /\ \A v \in Workers \ {w} : job'[v] = job[v]
    BY <1>2, AfterSplitPane DEF Begins, Becomes
  <2>3. \A v \in Workers : s \notin Fresh(v)
    BY <2>2
  <2>4. QED
    BY <2>1, <2>2, <2>3, FreshFrame, SMTT(30) DEF Rest
<1>3. ASSUME NEW w \in Workers, NEW t \in Tabs, NEW s \in Ids, ClosePane(w, t, s) PROVE FreshInv'
  <2>1. InHand(w)' = {} /\ Made(w)' = {}
    BY <1>3, AfterClosePane DEF Begins, Becomes
  <2>2. Old(w)' \subseteq {s} /\ s \in layout[t] /\ Rest /\ \A v \in Workers \ {w} : job'[v] = job[v]
    BY <1>3, AfterClosePane DEF Begins, Becomes
  <2>3. \A v \in Workers : s \notin Fresh(v)
    BY <2>2
  <2>4. QED
    BY <2>1, <2>2, <2>3, FreshFrame, SMTT(30) DEF Rest
<1>4. ASSUME NEW w \in Workers, NEW t \in Tabs, ReplaceTabSessions(w, t) PROVE FreshInv'
  <2>1. InHand(w)' = {} /\ Made(w)' = {} /\ Old(w)' = {}
    BY <1>4, AfterReplaceTabSessions DEF Begins, Becomes
  <2>2. UNCHANGED <<sessions, layout, sidOf, byHand>> /\ \A v \in Workers \ {w} : job'[v] = job[v]
    BY <1>4, AfterReplaceTabSessions DEF Begins, Becomes, Rest
  <2>3. QED
    BY <2>1, <2>2, FreshFrame, SMTT(30)
<1>5. ASSUME NEW w \in Workers, NEW t \in Tabs, DeleteTab(w, t) PROVE FreshInv'
  <2>1. InHand(w)' = {} /\ Made(w)' = {} /\ Old(w)' = {}
    BY <1>5, AfterDeleteTab DEF Begins, Becomes
  <2>2. UNCHANGED <<sessions, layout, sidOf, byHand>> /\ \A v \in Workers \ {w} : job'[v] = job[v]
    BY <1>5, AfterDeleteTab DEF Begins, Becomes, Rest
  <2>3. QED
    BY <2>1, <2>2, FreshFrame, SMTT(30)
<1>6. ASSUME NEW w \in Workers, NEW s \in Ids, DeleteSession(w, s) PROVE FreshInv'
  <2>1. InHand(w)' = {} /\ Made(w)' = {} /\ Old(w)' = {}
    BY <1>6, AfterDeleteSession DEF Begins, Becomes
  <2>2. /\ UNCHANGED <<sessions, layout, sidOf>> /\ byHand \subseteq byHand'
        /\ \A v \in Workers \ {w} : job'[v] = job[v]
    BY <1>6, AfterDeleteSession DEF Begins, Becomes
  <2> HIDE DEF FreshInv, InHand, Made, Fresh, Old
  <2>3. QED
    BY <2>1, <2>2, FreshFrame
<1>7. ASSUME NEW w \in Workers, NEW t \in Tabs, NEW s \in Ids, AttachSession(w, t, s) PROVE FreshInv'
  <2>1. InHand(w)' = {} /\ Made(w)' = {}
    BY <1>7, AfterAttachSession DEF Begins, Becomes
  <2>2. Old(w)' \subseteq {s} /\ s \in layout[t] /\ Rest /\ \A v \in Workers \ {w} : job'[v] = job[v]
    BY <1>7, AfterAttachSession DEF Begins, Becomes
  <2>3. \A v \in Workers : s \notin Fresh(v)
    BY <2>2
  <2>4. QED
    BY <2>1, <2>2, <2>3, FreshFrame, SMTT(30) DEF Rest
<1>8. ASSUME NEW w \in Workers, SaveState(w) PROVE FreshInv'
  <2>1. InHand(w)' = {} /\ Made(w)' = {} /\ Old(w)' = {}
    BY <1>8, AfterSaveState DEF Begins, Becomes
  <2>2. UNCHANGED <<sessions, layout, sidOf, byHand>> /\ \A v \in Workers \ {w} : job'[v] = job[v]
    BY <1>8, AfterSaveState DEF Begins, Becomes, Rest
  <2>3. QED
    BY <2>1, <2>2, FreshFrame, SMTT(30)
<1>9. ASSUME NEW w \in Workers, CheckDead(w) PROVE FreshInv'
  <2>1. job[w].at = "check" /\ job[w].op = "revive" /\ job[w].made = {}
    BY <1>0, <1>9, AfterCheckDead, PlaceFacts DEF PlaceInv, Moves, Ends
  <2>2. InHand(w)' = {} /\ Made(w)' = {}
    BY <1>9, <2>1, AfterCheckDead DEF Moves, Ends, Becomes
  <2>3. Old(w)' \subseteq Old(w) /\ Rest /\ \A v \in Workers \ {w} : job'[v] = job[v]
    BY <1>9, <2>1, AfterCheckDead DEF Moves, Ends, Becomes
  <2>4. \A v \in Workers : Old(w) \cap Fresh(v) = {}
    OBVIOUS
  <2> HIDE DEF FreshInv, InHand, Made, Fresh, Old
  <2>5. QED
    BY <2>2, <2>3, <2>4, FreshFrame DEF Rest
<1>10. ASSUME NEW w \in Workers, Spawn(w) PROVE FreshInv'
  <2> DEFINE n == spawned + 1
  <2>1. /\ job[w].at = "spawn" /\ UNCHANGED <<sessions, layout, byHand>>
        /\ sidOf' = [sidOf EXCEPT ![n] = IF job[w].op = "revive" THEN job[w].sid ELSE @]
        /\ \A v \in Workers \ {w} : job'[v] = job[v]
        /\ job'[w].op = job[w].op /\ job'[w].at = "register" /\ job'[w].new = n
        /\ job'[w].sid = job[w].sid /\ job'[w].made = job[w].made /\ job'[w].todo = job[w].todo
    BY <1>10, AfterSpawn DEF Becomes
  <2>2. n \in Ids /\ n \notin Spawned /\ Spawned \subseteq Ids
    BY <1>0, <1>10, AfterSpawn, RegistryAssumption DEF Spawned, Ids, Shells
  <2> HIDE DEF n
  <2>3. \A v \in Workers : Fresh(v) \subseteq Spawned /\ Old(v) \subseteq Spawned /\ InHand(v) \subseteq Spawned
    BY <1>0 DEF IdInv, PlaceInv
  <2>4. sidOf[n] = n /\ \A t \in Tabs : layout[t] \subseteq Spawned
    BY <2>2 DEF IdInv, Ids
  <2>5. InHand(w)' \subseteq {n} /\ (n \in InHand(w)' => job[w].op # "revive") /\ Made(w)' = Made(w) /\ Old(w)' = Old(w)
    BY <2>1
  <2>6. \A v \in Workers \ {w} : InHand(v)' = InHand(v) /\ Made(v)' = Made(v) /\ Old(v)' = Old(v)
    BY <2>1
  <2>7. Fresh(w)' \subseteq Fresh(w) \cup {n} /\ \A v \in Workers \ {w} : Fresh(v)' = Fresh(v)
    BY <2>5, <2>6
  <2>8. (\A v \in Workers : \A m \in InHand(v) : sidOf[m] = m)'
    <3>1. \A m \in Spawned : sidOf'[m] = sidOf[m]
      BY <1>0, <2>1, <2>2
    <3>2. n \in InHand(w)' => sidOf'[n] = n
      BY <1>0, <2>1, <2>2, <2>4, <2>5
    <3>3. \A v \in Workers \ {w} : \A m \in InHand(v) : sidOf[m] = m /\ m \in Spawned
      BY <2>3
    <3> HIDE DEF InHand, FreshInv, Made, Old, Fresh
    <3>4. QED
      BY <2>5, <2>6, <3>1, <3>2, <3>3
  <2>9. (\A v \in Workers, t \in Tabs : Fresh(v) \cap layout[t] = {})'
    <3>1. \A v \in Workers, t \in Tabs : Fresh(v) \cap layout[t] = {}
      OBVIOUS
    <3> HIDE DEF Fresh, FreshInv
    <3>2. QED
      BY <2>1, <2>2, <2>4, <2>7, <3>1
  <2>10. (\A u, v \in Workers : u # v => Fresh(u) \cap Fresh(v) = {})'
    <3>1. \A u, v \in Workers : u # v => Fresh(u) \cap Fresh(v) = {}
      OBVIOUS
    <3> HIDE DEF Fresh, FreshInv
    <3>2. QED
      BY <2>2, <2>3, <2>7, <3>1
  <2>11. (\A u, v \in Workers : Old(u) \cap Fresh(v) = {})'
    <3>1. \A u, v \in Workers : Old(u) \cap Fresh(v) = {}
      OBVIOUS
    <3> HIDE DEF Fresh, FreshInv, Old, InHand, Made
    <3>2. QED
      BY <2>2, <2>3, <2>5, <2>6, <2>7, <3>1
  <2>12. (\A v \in Workers : /\ Made(v) \subseteq Registered \cup byHand
                             /\ job[v].at # "register" => InHand(v) \subseteq Registered \cup byHand)'
    <3>1. Registered' = Registered
      BY <2>1
    <3>2. \A v \in Workers : /\ Made(v) \subseteq Registered \cup byHand
                             /\ job[v].at # "register" => InHand(v) \subseteq Registered \cup byHand
      OBVIOUS
    <3> HIDE DEF Made, InHand, Registered, FreshInv, Fresh, Old
    <3>3. QED
      BY <2>1, <2>5, <2>6, <3>1, <3>2
  <2>13. QED
    BY <2>8, <2>9, <2>10, <2>11, <2>12
<1>11. ASSUME NEW w \in Workers, SpawnFails(w) PROVE FreshInv'
  <2>1. job[w].at \in {"spawn"} /\ job[w].tab \in Tabs \cup {None}
    BY <1>0, <1>11, AfterSpawnFails DEF Moves, Ends
  <2>2. InHand(w)' = {} /\ Made(w)' = {}
    BY <1>11, <2>1, AfterSpawnFails DEF Moves, Ends, Becomes
  <2>3. UNCHANGED <<sessions, sidOf, byHand>> /\ \A v \in Workers \ {w} : job'[v] = job[v]
    BY <1>11, <2>1, AfterSpawnFails DEF Moves, Ends, Becomes, Rest
  <2>4. Old(w)' \subseteq (Old(w) \cup Fresh(w))
    BY <1>11, <2>1, AfterSpawnFails DEF Moves, Ends, Becomes
  <2>5. \A u \in Tabs : layout'[u] \subseteq layout[u] \cup Fresh(w)
    BY <1>0, <1>11, <2>1, AfterSpawnFails DEF Moves, Ends, Rest
  <2>6. \A v \in Workers \ {w} : (Old(w) \cup Fresh(w)) \cap Fresh(v) = {}
    BY <1>0, <2>1
  <2> HIDE DEF FreshInv, InHand, Made, Fresh, Old
  <2>7. QED
    BY <2>2, <2>3, <2>4, <2>5, <2>6, FreshFrame
<1>12. ASSUME NEW w \in Workers, Register(w) PROVE FreshInv'
  <2>1. job[w].at = "register" /\ job[w].new \in Ids /\ UNCHANGED <<layout, sidOf, byHand>>
    BY <1>0, <1>12, AfterRegister DEF PlaceInv, Moves, Ends
  <2>2. sessions' = [sessions EXCEPT ![sidOf[job[w].new]] = job[w].new]
    BY <1>12, AfterRegister
  <2>3. Registered \subseteq Registered' /\ sidOf[job[w].new] \in Registered'
    BY <1>0, <2>1, <2>2, NoneFacts
  <2>4. \A v \in Workers \ {w} : job'[v] = job[v]
    BY <1>12, AfterRegister DEF Moves, Ends, Becomes
  <2>5. InHand(w)' \subseteq InHand(w) /\ Fresh(w)' \subseteq Fresh(w) /\ Old(w)' \subseteq Old(w)
    BY <1>12, <2>1, AfterRegister DEF Moves, Ends, Becomes
  <2>6. Fresh(w) \subseteq Registered' \cup byHand'
    <3>1. Made(w) \subseteq Registered \cup byHand /\ \A n \in InHand(w) : sidOf[n] = n /\ n = job[w].new
      OBVIOUS
    <3> HIDE DEF InHand, Made
    <3>2. QED
      BY <2>1, <2>3, <3>1
  <2>7. QED
    BY <2>1, <2>3, <2>4, <2>5, <2>6, FreshKept
<1>13. ASSUME NEW w \in Workers, AddTab(w) PROVE FreshInv'
  <2>1. job[w].at \in {"addTab"} /\ job[w].tab \in Tabs \cup {None}
    BY <1>0, <1>13, AfterAddTab DEF Moves, Ends
  <2>2. InHand(w)' = {} /\ Made(w)' = {}
    BY <1>13, <2>1, AfterAddTab DEF Moves, Ends, Becomes
  <2>3. UNCHANGED <<sessions, sidOf, byHand>> /\ \A v \in Workers \ {w} : job'[v] = job[v]
    BY <1>13, <2>1, AfterAddTab DEF Moves, Ends, Becomes, Rest
  <2>4. Old(w)' \subseteq Old(w)
    BY <1>13, <2>1, AfterAddTab DEF Moves, Ends, Becomes
  <2>5. \A u \in Tabs : layout'[u] \subseteq layout[u] \cup Fresh(w)
    <3>1. job[w].new \in Fresh(w)
      BY <1>0, <2>1, PlaceFacts DEF PlaceInv
    <3>2. layout' = [layout EXCEPT ![job[w].tab] = {job[w].new}]
      BY <1>13, AfterAddTab
    <3> HIDE DEF Fresh
    <3>3. QED
      BY <1>0, <3>1, <3>2
  <2>6. \A v \in Workers \ {w} : Old(w) \cap Fresh(v) = {}
    BY <1>0, <2>1
  <2> HIDE DEF FreshInv, InHand, Made, Fresh, Old
  <2>7. QED
    BY <2>2, <2>3, <2>4, <2>5, <2>6, FreshFrame
<1>14. ASSUME NEW w \in Workers, Insert(w) PROVE FreshInv'
  <2>1. job[w].at \in {"insert"} /\ job[w].tab \in Tabs \cup {None}
    BY <1>0, <1>14, AfterInsert DEF Moves, Ends
  <2>0. job[w].op = "split" /\ job[w].new \in Fresh(w)
    BY <1>0, <2>1, PlaceFacts DEF PlaceInv
  <2>2. InHand(w)' = {} /\ Made(w)' = {}
    BY <1>14, <2>1, AfterInsert DEF Moves, Ends, Becomes
  <2>3. UNCHANGED <<sessions, sidOf, byHand>> /\ \A v \in Workers \ {w} : job'[v] = job[v]
    BY <1>14, <2>1, AfterInsert DEF Moves, Ends, Becomes, Rest
  <2>4. Old(w)' \subseteq (Old(w) \cup Fresh(w))
    BY <1>14, <2>0, <2>1, AfterInsert DEF Moves, Ends, Becomes
  <2>5. \A u \in Tabs : layout'[u] \subseteq layout[u] \cup Fresh(w)
    <3>1. layout' = layout \/ layout' = [layout EXCEPT ![job[w].tab] = @ \cup {job[w].new}]
      BY <1>14, AfterInsert
    <3> HIDE DEF Fresh
    <3>2. QED
      BY <1>0, <2>0, <3>1
  <2>6. \A v \in Workers \ {w} : (Old(w) \cup Fresh(w)) \cap Fresh(v) = {}
    BY <1>0, <2>1
  <2> HIDE DEF FreshInv, InHand, Made, Fresh, Old
  <2>7. QED
    BY <2>2, <2>3, <2>4, <2>5, <2>6, FreshFrame
<1>15. ASSUME NEW w \in Workers, Swap(w) PROVE FreshInv'
  <2>1. job[w].at \in {"swap"} /\ job[w].tab \in Tabs \cup {None}
    BY <1>0, <1>15, AfterSwap DEF Moves, Ends
  <2>0. job[w].op \in {"closeLast", "replace"} /\ job[w].sid \in Ids \cup {None} /\ (job[w].op = "closeLast" => job[w].sid # None)
    BY <1>0, <2>1, PlaceFacts DEF PlaceInv
  <2>2. InHand(w)' = {} /\ Made(w)' = {}
    BY <1>15, <2>1, AfterSwap DEF Moves, Ends, Becomes
  <2>3. UNCHANGED <<sessions, sidOf, byHand>> /\ \A v \in Workers \ {w} : job'[v] = job[v]
    BY <1>15, <2>1, AfterSwap DEF Moves, Ends, Becomes, Rest
  <2>4. Old(w)' \subseteq Old(w)
    BY <1>15, <2>0, <2>1, AfterSwap DEF Moves, Ends, Becomes
  <2>5. \A u \in Tabs : layout'[u] \subseteq layout[u] \cup Fresh(w)
    <3>1. \/ layout' = [layout EXCEPT ![job[w].tab] = {job[w].new}]
          \/ layout' = [layout EXCEPT ![job[w].tab] = job[w].made]
      BY <1>15, AfterSwap
    <3>2. {job[w].new} \subseteq Fresh(w) /\ job[w].made \subseteq Fresh(w)
      BY <2>0, <2>1
    <3> HIDE DEF Fresh
    <3>3. QED
      BY <1>0, <3>1, <3>2
  <2>6. \A v \in Workers \ {w} : Old(w) \cap Fresh(v) = {}
    BY <1>0, <2>1
  <2> HIDE DEF FreshInv, InHand, Made, Fresh, Old
  <2>7. QED
    BY <2>2, <2>3, <2>4, <2>5, <2>6, FreshFrame
<1>16. ASSUME NEW w \in Workers, Unlink(w) PROVE FreshInv'
  <2>1. job[w].at \in {"unlink"} /\ job[w].tab \in Tabs \cup {None}
    BY <1>0, <1>16, AfterUnlink DEF Moves, Ends
  <2>0. job[w].op = "close" /\ job[w].sid # None
    BY <1>0, <2>1, PlaceFacts DEF PlaceInv
  <2>2. InHand(w)' = {} /\ Made(w)' = {}
    BY <1>16, <2>1, AfterUnlink DEF Moves, Ends, Becomes
  <2>3. UNCHANGED <<sessions, sidOf, byHand>> /\ \A v \in Workers \ {w} : job'[v] = job[v]
    BY <1>16, <2>1, AfterUnlink DEF Moves, Ends, Becomes, Rest
  <2>4. Old(w)' \subseteq Old(w)
    BY <1>16, <2>0, <2>1, AfterUnlink DEF Moves, Ends, Becomes
  <2>5. \A u \in Tabs : layout'[u] \subseteq layout[u] \cup Fresh(w)
    <3>1. layout' = layout \/ layout' = [layout EXCEPT ![job[w].tab] = @ \ {job[w].sid}]
      BY <1>16, AfterUnlink
    <3> HIDE DEF Fresh
    <3>2. QED
      BY <1>0, <3>1
  <2>6. \A v \in Workers \ {w} : Old(w) \cap Fresh(v) = {}
    BY <1>0, <2>1
  <2> HIDE DEF FreshInv, InHand, Made, Fresh, Old
  <2>7. QED
    BY <2>2, <2>3, <2>4, <2>5, <2>6, FreshFrame
<1>17. ASSUME NEW w \in Workers, CopyLayout(w) PROVE FreshInv'
  <2>1. job[w].at \in {"copy"} /\ job[w].tab \in Tabs \cup {None}
    BY <1>0, <1>17, AfterCopyLayout DEF Moves, Ends
  <2>2. InHand(w)' = {} /\ Made(w)' = {}
    BY <1>17, <2>1, AfterCopyLayout DEF Moves, Ends, Becomes
  <2>3. UNCHANGED <<sessions, sidOf, byHand>> /\ \A v \in Workers \ {w} : job'[v] = job[v]
    BY <1>17, <2>1, AfterCopyLayout DEF Moves, Ends, Becomes, Rest
  <2>4. Old(w)' \subseteq Old(w)
    BY <1>17, <2>1, AfterCopyLayout DEF Moves, Ends, Becomes
  <2>5. \A u \in Tabs : layout'[u] \subseteq layout[u] \cup Fresh(w)
    BY <1>0, <1>17, <2>1, AfterCopyLayout DEF Moves, Ends, Rest
  <2>6. \A v \in Workers \ {w} : Old(w) \cap Fresh(v) = {}
    BY <1>0, <2>1
  <2> HIDE DEF FreshInv, InHand, Made, Fresh, Old
  <2>7. QED
    BY <2>2, <2>3, <2>4, <2>5, <2>6, FreshFrame
<1>18. ASSUME NEW w \in Workers, CollectOld(w) PROVE FreshInv'
  <2>1. job[w].at = "olds" /\ job[w].op = "replace" /\ job[w].made = {} /\ job[w].tab \in Tabs
    BY <1>0, <1>18, AfterCollectOld, PlaceFacts DEF PlaceInv, Moves
  <2>2. InHand(w)' = {} /\ Made(w)' = {}
    BY <1>18, <2>1, AfterCollectOld DEF Moves, Becomes
  <2>3. /\ Old(w)' \subseteq Old(w) \cup layout[job[w].tab]
        /\ Rest /\ \A v \in Workers \ {w} : job'[v] = job[v]
    BY <1>18, <2>1, AfterCollectOld DEF Moves, Becomes
  <2>4. \A v \in Workers : (Old(w) \cup layout[job[w].tab]) \cap Fresh(v) = {}
    BY <2>1
  <2> HIDE DEF FreshInv, InHand, Made, Fresh, Old
  <2>5. QED
    BY <2>2, <2>3, <2>4, FreshFrame DEF Rest
<1>19. ASSUME NEW w \in Workers, Collect(w) PROVE FreshInv'
  <2>1. job[w].at \in {"collect"} /\ job[w].tab \in Tabs \cup {None}
    BY <1>0, <1>19, AfterCollect DEF Moves, Ends
  <2>2. InHand(w)' = {} /\ Made(w)' = {}
    BY <1>19, <2>1, AfterCollect DEF Moves, Ends, Becomes
  <2>3. UNCHANGED <<sessions, sidOf, byHand>> /\ \A v \in Workers \ {w} : job'[v] = job[v]
    BY <1>19, <2>1, AfterCollect DEF Moves, Ends, Becomes, Rest
  <2>4. Old(w)' \subseteq (Old(w) \cup layout[job[w].tab])
    BY <1>19, <2>1, AfterCollect DEF Moves, Ends, Becomes
  <2>5. \A u \in Tabs : layout'[u] \subseteq layout[u] \cup Fresh(w)
    BY <1>0, <1>19, <2>1, AfterCollect DEF Moves, Ends, Rest
  <2>6. \A v \in Workers \ {w} : (Old(w) \cup layout[job[w].tab]) \cap Fresh(v) = {}
    BY <1>0, <2>1, <1>19, AfterCollect, PlaceFacts DEF PlaceInv
  <2> HIDE DEF FreshInv, InHand, Made, Fresh, Old
  <2>7. QED
    BY <2>2, <2>3, <2>4, <2>5, <2>6, FreshFrame
<1>20. ASSUME NEW w \in Workers, NEW s \in Ids, Purge(w, s) PROVE FreshInv'
  <2>1. /\ job[w].at \in {"purge", "rollback"} /\ job'[w].at = job[w].at /\ s \in job[w].todo
        /\ layout' = layout /\ sidOf' = sidOf /\ byHand' = byHand /\ sessions' = [sessions EXCEPT ![s] = None]
        /\ \A v \in Workers \ {w} : job'[v] = job[v]
    BY <1>20, AfterPurge DEF Moves, Becomes
  <2>2. InHand(w)' = {} /\ Made(w)' = {}
    BY <2>1
  <2>3. Old(w)' \subseteq Old(w)
    BY <1>20, AfterPurge DEF Moves, Becomes
  <2>4. \A v \in Workers : Old(w) \cap Fresh(v) = {}
    OBVIOUS
  <2>5. s \in Old(w) \/ s \in byHand
    BY <2>1 DEF DoomInv
  <2>6. Registered \subseteq Registered' \cup {s}
    BY <1>0, <2>1
  <2> HIDE DEF FreshInv, InHand, Made, Fresh, Old, Registered
  <2>7. \A v \in Workers \ {w} : Fresh(v) \cap Registered \subseteq Registered' \cup byHand'
    BY <2>1, <2>4, <2>5, <2>6
  <2>8. QED
    BY <2>1, <2>2, <2>3, <2>4, <2>7, FreshFrame
<1>21. ASSUME NEW w \in Workers, Kill(w) PROVE FreshInv'
  <2>1. /\ Rest /\ \A v \in Workers \ {w} : job'[v] = job[v]
        /\ job'[w].op = job[w].op /\ job'[w].at = job[w].at /\ job'[w].sid = job[w].sid
        /\ job'[w].new = job[w].new /\ job'[w].made = job[w].made /\ job'[w].todo = job[w].todo
    BY <1>21, AfterKill DEF Moves, Becomes
  <2>2. \A v \in Workers : /\ InHand(v)' = InHand(v) /\ Made(v)' = Made(v) /\ Old(v)' = Old(v)
                           /\ job'[v].at = job[v].at
    BY <2>1, ZenonT(60)
  <2>3. QED
    BY <2>1, <2>2, FreshSame DEF Rest
<1>22. ASSUME NEW w \in Workers, Purged(w) PROVE FreshInv'
  <2>1. job[w].at \in {"purge", "rollback"} /\ job[w].tab \in Tabs \cup {None}
    BY <1>0, <1>22, AfterPurged DEF Moves, Ends
  <2>2. InHand(w)' = {} /\ Made(w)' = {}
    BY <1>22, <2>1, AfterPurged DEF Moves, Ends, Becomes
  <2>3. UNCHANGED <<sessions, sidOf, byHand>> /\ \A v \in Workers \ {w} : job'[v] = job[v]
    BY <1>22, <2>1, AfterPurged DEF Moves, Ends, Becomes, Rest
  <2>4. Old(w)' \subseteq Old(w)
    BY <1>22, <2>1, AfterPurged DEF Moves, Ends, Becomes
  <2>5. \A u \in Tabs : layout'[u] \subseteq layout[u] \cup Fresh(w)
    BY <1>0, <1>22, <2>1, AfterPurged DEF Moves, Ends, Rest
  <2>6. \A v \in Workers \ {w} : Old(w) \cap Fresh(v) = {}
    BY <1>0, <2>1
  <2> HIDE DEF FreshInv, InHand, Made, Fresh, Old
  <2>7. QED
    BY <2>2, <2>3, <2>4, <2>5, <2>6, FreshFrame
<1>23. ASSUME NEW w \in Workers, Capture(w) PROVE FreshInv'
  <2>1. job[w].at \in {"save"} /\ job[w].tab \in Tabs \cup {None}
    BY <1>0, <1>23, AfterCapture DEF Moves, Ends
  <2>2. InHand(w)' = {} /\ Made(w)' = {}
    BY <1>23, <2>1, AfterCapture DEF Moves, Ends, Becomes
  <2>3. UNCHANGED <<sessions, sidOf, byHand>> /\ \A v \in Workers \ {w} : job'[v] = job[v]
    BY <1>23, <2>1, AfterCapture DEF Moves, Ends, Becomes, Rest
  <2>4. Old(w)' \subseteq Old(w)
    BY <1>23, <2>1, AfterCapture DEF Moves, Ends, Becomes
  <2>5. \A u \in Tabs : layout'[u] \subseteq layout[u] \cup Fresh(w)
    BY <1>0, <1>23, <2>1, AfterCapture DEF Moves, Ends, Rest
  <2>6. \A v \in Workers \ {w} : Old(w) \cap Fresh(v) = {}
    BY <1>0, <2>1
  <2> HIDE DEF FreshInv, InHand, Made, Fresh, Old
  <2>7. QED
    BY <2>2, <2>3, <2>4, <2>5, <2>6, FreshFrame
<1>24. ASSUME NEW w \in Workers, WriteState(w) PROVE FreshInv'
  <2>1. job[w].at \in {"write"} /\ job[w].tab \in Tabs \cup {None}
    BY <1>0, <1>24, AfterWriteState DEF Moves, Ends
  <2>2. InHand(w)' = {} /\ Made(w)' = {}
    BY <1>24, <2>1, AfterWriteState DEF Moves, Ends, Becomes
  <2>3. UNCHANGED <<sessions, sidOf, byHand>> /\ \A v \in Workers \ {w} : job'[v] = job[v]
    BY <1>24, <2>1, AfterWriteState DEF Moves, Ends, Becomes, Rest
  <2>4. Old(w)' \subseteq Old(w)
    BY <1>24, <2>1, AfterWriteState DEF Moves, Ends, Becomes
  <2>5. \A u \in Tabs : layout'[u] \subseteq layout[u] \cup Fresh(w)
    BY <1>0, <1>24, <2>1, AfterWriteState DEF Moves, Ends, Rest
  <2>6. \A v \in Workers \ {w} : Old(w) \cap Fresh(v) = {}
    BY <1>0, <2>1
  <2> HIDE DEF FreshInv, InHand, Made, Fresh, Old
  <2>7. QED
    BY <2>2, <2>3, <2>4, <2>5, <2>6, FreshFrame
<1>25. ASSUME NEW n \in Shells, ShellExit(n) PROVE FreshInv'
  BY <1>25 DEF ShellExit, registry, history
<1>26. CASE UNCHANGED vars
  BY <1>26 DEF vars
<1>27. QED
  BY <1>1, <1>2, <1>3, <1>4, <1>5, <1>6, <1>7, <1>8, <1>9, <1>10, <1>11, <1>12, <1>13, <1>14,
     <1>15, <1>16, <1>17, <1>18, <1>19, <1>20, <1>21, <1>22, <1>23, <1>24, <1>25, <1>26
  DEF Next, BeginStep, WorkStep

\* What a step puts into a layout was its worker's own.
Gains(w) ==
  /\ job[w].tab \in Tabs /\ \A u \in Tabs \ {job[w].tab} : layout'[u] = layout[u]
  /\ layout'[job[w].tab] \subseteq layout[job[w].tab] \cup Fresh(w)
  /\ Panes' \subseteq Panes \cup Fresh(w)

LEMMA LayoutGains ==
  ASSUME TypeOK, PlaceInv, NEW w \in Workers, AddTab(w) \/ Insert(w) \/ Swap(w) \/ Unlink(w)
  PROVE  Gains(w)
<1>0. Typed
  BY JobTypes
<1> USE DEF Typed
<1>1. CASE AddTab(w)
  <2>1. job[w].at = "addTab" /\ job[w].op = "create" /\ job[w].new \in InHand(w)
    BY <1>0, <1>1, AfterAddTab, PlaceFacts DEF PlaceInv, Ends, InHand
  <2>2. job[w].new \in Fresh(w) /\ job[w].tab \in Tabs
    BY <1>0, <2>1 DEF PlaceInv, Fresh
  <2>3. layout' = [layout EXCEPT ![job[w].tab] = {job[w].new}] /\ live' = live \cup {job[w].tab}
    BY <1>1, AfterAddTab
  <2>4. QED
    BY <1>0, <2>2, <2>3 DEF Gains, Panes
<1>2. CASE Insert(w)
  <2>1. job[w].at = "insert" /\ job[w].op = "split" /\ job[w].new \in InHand(w)
    BY <1>0, <1>2, AfterInsert, PlaceFacts, ZenonT(60) DEF PlaceInv, Moves, InHand
  <2>2. job[w].new \in Fresh(w) /\ job[w].tab \in Tabs
    BY <1>0, <2>1 DEF PlaceInv, Fresh
  <2>3. /\ layout' = layout \/ layout' = [layout EXCEPT ![job[w].tab] = @ \cup {job[w].new}]
        /\ live' = live
    BY <1>2, AfterInsert
  <2>4. QED
    BY <1>0, <2>2, <2>3 DEF Gains, Panes
<1>3. CASE Swap(w)
  <2>1. job[w].at = "swap" /\ job[w].op \in {"closeLast", "replace"} /\ job[w].new \in InHand(w)
    BY <1>0, <1>3, AfterSwap, PlaceFacts, ZenonT(60) DEF PlaceInv, Moves, InHand
  <2>2. job[w].new \in Fresh(w) /\ job[w].made \subseteq Fresh(w) /\ job[w].tab \in Tabs
    BY <1>0, <2>1 DEF PlaceInv, Fresh, Made
  <2>3. /\ \/ layout' = [layout EXCEPT ![job[w].tab] = {job[w].new}]
           \/ layout' = [layout EXCEPT ![job[w].tab] = job[w].made]
        /\ live' = live
    BY <1>3, AfterSwap
  <2>4. QED
    BY <1>0, <2>2, <2>3 DEF Gains, Panes
<1>4. CASE Unlink(w)
  <2>1. job[w].at = "unlink"
    BY <1>4, AfterUnlink DEF Moves, Ends
  <2>2. job[w].tab \in Tabs
    BY <1>0, <2>1, PlaceFacts DEF PlaceInv
  <2>3. layout' = layout \/ layout' = [layout EXCEPT ![job[w].tab] = @ \ {job[w].sid}]
    BY <1>4, AfterUnlink
  <2>4. live' = live
    BY <1>4, AfterUnlink
  <2>5. QED
    BY <1>0, <2>2, <2>3, <2>4 DEF Gains, Panes
<1>5. QED
  BY <1>1, <1>2, <1>3, <1>4

\* A step that brings only w's own into the tab w works on, and tells w only of
\* that tab's sessions.
LEMMA HomeFrame ==
  ASSUME HomeInv, FreshInv, NEW w \in Workers, \A v \in Workers \ {w} : job'[v] = job[v],
         layout' = layout \/ Gains(w),
         \/ Old(w)' = {}
         \/ job'[w].tab = job[w].tab /\ Old(w)' \subseteq Old(w) \cup Fresh(w)
         \/ /\ layout' = layout /\ job'[w].tab \in Tabs
            /\ Old(w)' \subseteq Old(w) \cup layout[job'[w].tab]
            /\ job'[w].tab = job[w].tab \/ Old(w)' \subseteq layout[job'[w].tab]
  PROVE  HomeInv'
<1>1. \A v \in Workers \ {w} : Old(v)' = Old(v) /\ job'[v].tab = job[v].tab
  BY DEF Old
<1>2. \A u \in Tabs : /\ layout'[u] \subseteq layout[u] \cup Fresh(w)
                      /\ u # job[w].tab => layout'[u] = layout[u]
  BY DEF Gains
<1>3. /\ \A u \in Tabs : Fresh(w) \cap layout[u] = {}
      /\ \A v \in Workers : Old(v) \cap Fresh(w) = {}
  BY DEF FreshInv
<1>4. (\A t, u \in Tabs : t # u => layout[t] \cap layout[u] = {})'
  BY <1>2, <1>3 DEF HomeInv
<1>5. \A v \in Workers \ {w}, u \in Tabs : u # job[v].tab => Old(v) \cap layout'[u] = {}
  BY <1>2, <1>3 DEF HomeInv
<1>6. \A u \in Tabs : u # job'[w].tab => Old(w)' \cap layout'[u] = {}
  BY <1>2, <1>3 DEF HomeInv
<1>7. QED
  BY <1>1, <1>4, <1>5, <1>6 DEF HomeInv

\* What is told to a worker on the way, or given up by it, is of its own tab.
LEMMA OldGrows ==
  ASSUME TypeOK, PlaceInv, NEW w \in Workers
  PROVE  /\ SpawnFails(w) \/ Insert(w) \/ Swap(w) \/ Unlink(w) =>
              Old(w)' = {} \/ (job'[w].tab = job[w].tab /\ Old(w)' \subseteq Old(w) \cup Fresh(w))
         /\ CollectOld(w) \/ Collect(w) =>
              /\ job'[w].tab = job[w].tab /\ job[w].tab \in Tabs
              /\ Old(w)' \subseteq Old(w) \cup layout[job[w].tab]
<1>0. Typed
  BY JobTypes
<1> USE DEF Typed
<1>1. ASSUME SpawnFails(w)
      PROVE  Old(w)' = {} \/ (job'[w].tab = job[w].tab /\ Old(w)' \subseteq Old(w) \cup Fresh(w))
  <2>1. job[w].at = "spawn"
    BY <1>1, AfterSpawnFails DEF Moves, Ends
  <2>2. job[w].made \subseteq Fresh(w)
    BY <1>0, <2>1, PlaceFacts DEF PlaceInv, Fresh, InHand, Made
  <2>3. QED
    BY <1>1, <2>1, <2>2, AfterSpawnFails DEF Old, Moves, Ends, Becomes
<1>2. ASSUME Insert(w)
      PROVE  Old(w)' = {} \/ (job'[w].tab = job[w].tab /\ Old(w)' \subseteq Old(w) \cup Fresh(w))
  <2>1. job[w].at = "insert"
    BY <1>2, AfterInsert DEF Moves, Ends
  <2>2. job[w].op = "split" /\ job[w].new \in Fresh(w)
    BY <1>0, <2>1, PlaceFacts DEF PlaceInv, Fresh, InHand, Made
  <2>3. QED
    BY <1>2, <2>1, <2>2, AfterInsert DEF Old, Moves, Ends, Becomes
<1>3. ASSUME Swap(w)
      PROVE  Old(w)' = {} \/ (job'[w].tab = job[w].tab /\ Old(w)' \subseteq Old(w) \cup Fresh(w))
  <2>1. job[w].at = "swap"
    BY <1>3, AfterSwap DEF Moves, Ends
  <2>2. job[w].op # "replace" => job[w].op = "closeLast" /\ job[w].sid # None
    BY <1>0, <2>1, PlaceFacts DEF PlaceInv, Fresh, InHand, Made
  <2>3. QED
    BY <1>3, <2>1, <2>2, AfterSwap DEF Old, Moves, Ends, Becomes
<1>4. ASSUME Unlink(w)
      PROVE  Old(w)' = {} \/ (job'[w].tab = job[w].tab /\ Old(w)' \subseteq Old(w) \cup Fresh(w))
  <2>1. job[w].at = "unlink"
    BY <1>4, AfterUnlink DEF Moves, Ends
  <2>2. job[w].op = "close" /\ job[w].sid # None
    BY <1>0, <2>1, PlaceFacts DEF PlaceInv, Fresh, InHand, Made
  <2>3. QED
    BY <1>4, <2>1, <2>2, AfterUnlink DEF Old, Moves, Ends, Becomes
<1>5. ASSUME CollectOld(w)
      PROVE  /\ job'[w].tab = job[w].tab /\ job[w].tab \in Tabs
             /\ Old(w)' \subseteq Old(w) \cup layout[job[w].tab]
  <2>1. job[w].at = "olds"
    BY <1>5, AfterCollectOld DEF Moves
  <2>2. job[w].tab \in Tabs
    BY <1>0, <2>1, PlaceFacts DEF PlaceInv
  <2>3. QED
    BY <1>5, <2>2, AfterCollectOld DEF Old, Moves, Becomes
<1>6. ASSUME Collect(w)
      PROVE  /\ job'[w].tab = job[w].tab /\ job[w].tab \in Tabs
             /\ Old(w)' \subseteq Old(w) \cup layout[job[w].tab]
  <2>1. job[w].at = "collect"
    BY <1>6, AfterCollect DEF Moves
  <2>2. job[w].tab \in Tabs
    BY <1>0, <2>1, PlaceFacts DEF PlaceInv
  <2>3. QED
    BY <1>6, <2>2, AfterCollect DEF Old, Moves, Becomes
<1>7. QED
  BY <1>1, <1>2, <1>3, <1>4, <1>5, <1>6

\* A session belongs to one tab.
LEMMA HomeStep ==
  TypeOK /\ PlaceInv /\ FreshInv /\ HomeInv /\ [Next]_vars => HomeInv'
<1> SUFFICES ASSUME TypeOK, PlaceInv, FreshInv, HomeInv, [Next]_vars PROVE HomeInv'
  OBVIOUS
<1>0. Typed
  BY JobTypes
<1> USE DEF Typed, Old, Rest
<1>1. ASSUME NEW w \in Workers, NEW t \in Tabs, CreateTab(w, t) PROVE HomeInv'
  BY <1>0, <1>1, AfterCreateTab, HomeFrame, PlaceFacts, NoneFacts DEF Begins, Rest, Becomes
<1>2. ASSUME NEW w \in Workers, NEW t \in Tabs, NEW s \in Ids, SplitPane(w, t, s) PROVE HomeInv'
  BY <1>0, <1>2, AfterSplitPane, HomeFrame, PlaceFacts, NoneFacts DEF Begins, Rest, Becomes
<1>3. ASSUME NEW w \in Workers, NEW t \in Tabs, NEW s \in Ids, ClosePane(w, t, s) PROVE HomeInv'
  BY <1>0, <1>3, AfterClosePane, HomeFrame, PlaceFacts, NoneFacts DEF Begins, Rest, Becomes
<1>4. ASSUME NEW w \in Workers, NEW t \in Tabs, ReplaceTabSessions(w, t) PROVE HomeInv'
  BY <1>0, <1>4, AfterReplaceTabSessions, HomeFrame, PlaceFacts, NoneFacts DEF Begins, Rest,
     Becomes
<1>5. ASSUME NEW w \in Workers, NEW t \in Tabs, DeleteTab(w, t) PROVE HomeInv'
  BY <1>0, <1>5, AfterDeleteTab, HomeFrame, PlaceFacts, NoneFacts DEF Begins, Becomes
<1>6. ASSUME NEW w \in Workers, NEW s \in Ids, DeleteSession(w, s) PROVE HomeInv'
  BY <1>0, <1>6, AfterDeleteSession, HomeFrame, PlaceFacts, NoneFacts DEF Begins, Becomes
<1>7. ASSUME NEW w \in Workers, NEW t \in Tabs, NEW s \in Ids, AttachSession(w, t, s) PROVE HomeInv'
  BY <1>0, <1>7, AfterAttachSession, HomeFrame, PlaceFacts, NoneFacts DEF Begins, Rest, Becomes
<1>8. ASSUME NEW w \in Workers, SaveState(w) PROVE HomeInv'
  BY <1>0, <1>8, AfterSaveState, HomeFrame, PlaceFacts, NoneFacts DEF Begins, Rest, Becomes
<1>9. ASSUME NEW w \in Workers, CheckDead(w) PROVE HomeInv'
  BY <1>0, <1>9, AfterCheckDead, HomeFrame, PlaceFacts, NoneFacts DEF Moves, Ends, Rest, Becomes
<1>10. ASSUME NEW w \in Workers, Spawn(w) PROVE HomeInv'
  BY <1>0, <1>10, AfterSpawn, HomeFrame, PlaceFacts, NoneFacts DEF Becomes
<1>11. ASSUME NEW w \in Workers, SpawnFails(w) PROVE HomeInv'
  <2>1. \A v \in Workers \ {w} : job'[v] = job[v]
    BY <1>11, AfterSpawnFails DEF Moves, Ends, Becomes
  <2>2. layout' = layout \/ Gains(w)
    BY <1>11, AfterSpawnFails DEF Rest
  <2>3. Old(w)' = {} \/ (job'[w].tab = job[w].tab /\ Old(w)' \subseteq Old(w) \cup Fresh(w))
    BY <1>11, OldGrows
  <2> HIDE DEF Old
  <2>4. QED
    BY <2>1, <2>2, <2>3, HomeFrame
<1>12. ASSUME NEW w \in Workers, Register(w) PROVE HomeInv'
  BY <1>0, <1>12, AfterRegister, HomeFrame, PlaceFacts, NoneFacts DEF Moves, Ends, Becomes
<1>13. ASSUME NEW w \in Workers, AddTab(w) PROVE HomeInv'
  BY <1>0, <1>13, AfterAddTab, HomeFrame, PlaceFacts, NoneFacts, LayoutGains DEF Ends, Becomes
<1>14. ASSUME NEW w \in Workers, Insert(w) PROVE HomeInv'
  <2>1. \A v \in Workers \ {w} : job'[v] = job[v]
    BY <1>14, AfterInsert DEF Moves, Ends, Becomes
  <2>2. layout' = layout \/ Gains(w)
    BY <1>14, LayoutGains DEF Rest
  <2>3. Old(w)' = {} \/ (job'[w].tab = job[w].tab /\ Old(w)' \subseteq Old(w) \cup Fresh(w))
    BY <1>14, OldGrows
  <2> HIDE DEF Old
  <2>4. QED
    BY <2>1, <2>2, <2>3, HomeFrame
<1>15. ASSUME NEW w \in Workers, Swap(w) PROVE HomeInv'
  <2>1. \A v \in Workers \ {w} : job'[v] = job[v]
    BY <1>15, AfterSwap DEF Moves, Ends, Becomes
  <2>2. layout' = layout \/ Gains(w)
    BY <1>15, LayoutGains DEF Rest
  <2>3. Old(w)' = {} \/ (job'[w].tab = job[w].tab /\ Old(w)' \subseteq Old(w) \cup Fresh(w))
    BY <1>15, OldGrows
  <2> HIDE DEF Old
  <2>4. QED
    BY <2>1, <2>2, <2>3, HomeFrame
<1>16. ASSUME NEW w \in Workers, Unlink(w) PROVE HomeInv'
  <2>1. \A v \in Workers \ {w} : job'[v] = job[v]
    BY <1>16, AfterUnlink DEF Moves, Ends, Becomes
  <2>2. layout' = layout \/ Gains(w)
    BY <1>16, LayoutGains DEF Rest
  <2>3. Old(w)' = {} \/ (job'[w].tab = job[w].tab /\ Old(w)' \subseteq Old(w) \cup Fresh(w))
    BY <1>16, OldGrows
  <2> HIDE DEF Old
  <2>4. QED
    BY <2>1, <2>2, <2>3, HomeFrame
<1>17. ASSUME NEW w \in Workers, CopyLayout(w) PROVE HomeInv'
  BY <1>0, <1>17, AfterCopyLayout, HomeFrame, PlaceFacts, NoneFacts DEF Moves, Rest, Becomes
<1>18. ASSUME NEW w \in Workers, CollectOld(w) PROVE HomeInv'
  <2>1. \A v \in Workers \ {w} : job'[v] = job[v] /\ Rest
    BY <1>18, AfterCollectOld DEF Moves, Becomes
  <2>2. layout' = layout
    BY <1>18, AfterCollectOld DEF Rest
  <2>3. /\ job'[w].tab = job[w].tab /\ job[w].tab \in Tabs
        /\ Old(w)' \subseteq Old(w) \cup layout[job[w].tab]
    BY <1>18, OldGrows
  <2> HIDE DEF Old
  <2>4. QED
    BY <2>1, <2>2, <2>3, HomeFrame
<1>19. ASSUME NEW w \in Workers, Collect(w) PROVE HomeInv'
  <2>1. \A v \in Workers \ {w} : job'[v] = job[v] /\ Rest
    BY <1>19, AfterCollect DEF Moves, Becomes
  <2>2. layout' = layout
    BY <1>19, AfterCollect DEF Rest
  <2>3. /\ job'[w].tab = job[w].tab /\ job[w].tab \in Tabs
        /\ Old(w)' \subseteq Old(w) \cup layout[job[w].tab]
    BY <1>19, OldGrows
  <2> HIDE DEF Old
  <2>4. QED
    BY <2>1, <2>2, <2>3, HomeFrame
<1>20. ASSUME NEW w \in Workers, NEW s \in Ids, Purge(w, s) PROVE HomeInv'
  BY <1>0, <1>20, AfterPurge, HomeFrame, PlaceFacts, NoneFacts DEF Moves, Becomes
<1>21. ASSUME NEW w \in Workers, Kill(w) PROVE HomeInv'
  BY <1>0, <1>21, AfterKill, HomeFrame, PlaceFacts, NoneFacts DEF Moves, Rest, Becomes
<1>22. ASSUME NEW w \in Workers, Purged(w) PROVE HomeInv'
  BY <1>0, <1>22, AfterPurged, HomeFrame, PlaceFacts, NoneFacts DEF Moves, Ends, Rest, Becomes
<1>23. ASSUME NEW w \in Workers, Capture(w) PROVE HomeInv'
  BY <1>0, <1>23, AfterCapture, HomeFrame, PlaceFacts, NoneFacts DEF Moves, Rest, Becomes
<1>24. ASSUME NEW w \in Workers, WriteState(w) PROVE HomeInv'
  BY <1>0, <1>24, AfterWriteState, HomeFrame, PlaceFacts, NoneFacts DEF Ends, Rest, Becomes
<1>25. ASSUME NEW n \in Shells, ShellExit(n) PROVE HomeInv'
  BY <1>25 DEF ShellExit, registry, HomeInv
<1>26. CASE UNCHANGED vars
  BY <1>26 DEF vars, HomeInv
<1>27. QED
  BY <1>1, <1>2, <1>3, <1>4, <1>5, <1>6, <1>7, <1>8, <1>9, <1>10, <1>11, <1>12, <1>13, <1>14,
     <1>15, <1>16, <1>17, <1>18, <1>19, <1>20, <1>21, <1>22, <1>23, <1>24, <1>25, <1>26
  DEF Next, BeginStep, WorkStep

\* A step that brings only w's own into a layout, seen by what w is to delete.
LEMMA DoomFrame ==
  ASSUME DoomInv, FreshInv, NEW w \in Workers, \A v \in Workers \ {w} : job'[v] = job[v],
         (layout' = layout /\ live' \subseteq live) \/ Gains(w), byHand \subseteq byHand',
         job'[w].at \in {"purge", "rollback"} =>
           job'[w].todo \subseteq byHand' \/ job'[w].todo \cap Panes' = {},
         job'[w].op = "deleteSession" => job'[w].todo \subseteq byHand'
  PROVE  DoomInv'
<1>1. Panes' \subseteq Panes \cup Fresh(w)
  BY DEF Panes, Gains
<1>2. \A v \in Workers \ {w} :
        /\ job[v].at \in {"purge", "rollback"} => job[v].todo \subseteq byHand' \/ job[v].todo \cap Panes' = {}
        /\ job[v].op = "deleteSession" => job[v].todo \subseteq byHand'
  <2> TAKE v \in Workers \ {w}
  <2>1. CASE job[v].op = "deleteSession"
    BY <2>1 DEF DoomInv
  <2>2. CASE job[v].op # "deleteSession"
    <3>1. job[v].todo \cap Fresh(w) = {}
      BY <2>2 DEF FreshInv, Old
    <3>2. job[v].at \in {"purge", "rollback"} => job[v].todo \subseteq byHand \/ job[v].todo \cap Panes = {}
      BY DEF DoomInv
    <3>3. QED
      BY <1>1, <2>2, <3>1, <3>2
  <2>3. QED
    BY <2>1, <2>2
<1>3. QED
  BY <1>2 DEF DoomInv

\* What is about to be deleted is in no tab, or was asked for by hand.
LEMMA DoomStep ==
  TypeOK /\ PlaceInv /\ FreshInv /\ HomeInv /\ DoomInv /\ TabInv /\ [Next]_vars => DoomInv'
<1> SUFFICES ASSUME TypeOK, PlaceInv, FreshInv, HomeInv, DoomInv, TabInv, [Next]_vars PROVE DoomInv'
  OBVIOUS
<1>0. Typed
  BY JobTypes
<1> USE DEF Typed, Rest
<1>1. ASSUME NEW w \in Workers, NEW t \in Tabs, CreateTab(w, t) PROVE DoomInv'
  BY <1>0, <1>1, AfterCreateTab, DoomFrame, PlaceFacts DEF Begins, Rest, Becomes, DoomInv
<1>2. ASSUME NEW w \in Workers, NEW t \in Tabs, NEW s \in Ids, SplitPane(w, t, s) PROVE DoomInv'
  BY <1>0, <1>2, AfterSplitPane, DoomFrame, PlaceFacts DEF Begins, Rest, Becomes, DoomInv
<1>3. ASSUME NEW w \in Workers, NEW t \in Tabs, NEW s \in Ids, ClosePane(w, t, s) PROVE DoomInv'
  BY <1>0, <1>3, AfterClosePane, DoomFrame, PlaceFacts DEF Begins, Rest, Becomes, DoomInv
<1>4. ASSUME NEW w \in Workers, NEW t \in Tabs, ReplaceTabSessions(w, t) PROVE DoomInv'
  BY <1>0, <1>4, AfterReplaceTabSessions, DoomFrame, PlaceFacts DEF Begins, Rest, Becomes,
     DoomInv
<1>5. ASSUME NEW w \in Workers, NEW t \in Tabs, DeleteTab(w, t) PROVE DoomInv'
  BY <1>0, <1>5, AfterDeleteTab, DoomFrame, PlaceFacts DEF Begins, Becomes, DoomInv
<1>6. ASSUME NEW w \in Workers, NEW s \in Ids, DeleteSession(w, s) PROVE DoomInv'
  BY <1>0, <1>6, AfterDeleteSession, DoomFrame, PlaceFacts DEF Begins, Becomes, DoomInv
<1>7. ASSUME NEW w \in Workers, NEW t \in Tabs, NEW s \in Ids, AttachSession(w, t, s) PROVE DoomInv'
  BY <1>0, <1>7, AfterAttachSession, DoomFrame, PlaceFacts DEF Begins, Rest, Becomes, DoomInv
<1>8. ASSUME NEW w \in Workers, SaveState(w) PROVE DoomInv'
  BY <1>0, <1>8, AfterSaveState, DoomFrame, PlaceFacts DEF Begins, Rest, Becomes, DoomInv
<1>9. ASSUME NEW w \in Workers, CheckDead(w) PROVE DoomInv'
  BY <1>0, <1>9, AfterCheckDead, DoomFrame, PlaceFacts DEF Moves, Ends, Rest, Becomes, DoomInv
<1>10. ASSUME NEW w \in Workers, Spawn(w) PROVE DoomInv'
  BY <1>0, <1>10, AfterSpawn, DoomFrame, PlaceFacts DEF Becomes, DoomInv
<1>11. ASSUME NEW w \in Workers, SpawnFails(w) PROVE DoomInv'
  <2>1. /\ \A v \in Workers \ {w} : job'[v] = job[v]
        /\ job'[w].op # "deleteSession" /\ byHand' = byHand
    BY <1>0, <1>11, AfterSpawnFails, PlaceFacts DEF Moves, Ends, Becomes, Rest, PlaceInv
  <2>2. (layout' = layout /\ live' \subseteq live) \/ Gains(w)
    BY <1>11, AfterSpawnFails DEF Rest
  <2>3. job'[w].at = "rollback" => job'[w].todo \subseteq Fresh(w)
    BY <1>11, AfterSpawnFails DEF Moves, Ends, Becomes, Fresh, Made
  <2>4. Fresh(w) \cap Panes' = {}
    BY <1>0, <1>11, AfterSpawnFails DEF Rest, FreshInv, Panes
  <2>5. job'[w].at \in {"purge", "rollback"} => job'[w].todo \cap Panes' = {}
    BY <1>11, <2>3, <2>4, AfterSpawnFails DEF Moves, Ends, Becomes
  <2>6. QED
    BY <2>1, <2>2, <2>5, DoomFrame
<1>12. ASSUME NEW w \in Workers, Register(w) PROVE DoomInv'
  BY <1>0, <1>12, AfterRegister, DoomFrame, PlaceFacts DEF Moves, Ends, Becomes, DoomInv
<1>13. ASSUME NEW w \in Workers, AddTab(w) PROVE DoomInv'
  BY <1>0, <1>13, AfterAddTab, DoomFrame, PlaceFacts, LayoutGains DEF Ends, Becomes, DoomInv
<1>14. ASSUME NEW w \in Workers, Insert(w) PROVE DoomInv'
  <2>1. /\ \A v \in Workers \ {w} : job'[v] = job[v]
        /\ job'[w].op # "deleteSession" /\ byHand' = byHand
    BY <1>0, <1>14, AfterInsert, PlaceFacts DEF Moves, Ends, Becomes, Rest, PlaceInv
  <2>2. (layout' = layout /\ live' \subseteq live) \/ Gains(w)
    BY <1>14, LayoutGains DEF Rest
  <2>3. job'[w].at = "rollback" => layout' = layout /\ job'[w].todo = {job[w].new}
    BY <1>14, AfterInsert DEF Moves, Becomes
  <2>4. job[w].new \in Fresh(w)
    BY <1>0, <1>14, AfterInsert, PlaceFacts, ZenonT(60) DEF PlaceInv, Moves, InHand, Fresh
  <2>5. job'[w].at \in {"purge", "rollback"} => job'[w].todo \cap Panes' = {}
    <3>1. Fresh(w) \cap Panes = {}
      BY <1>0 DEF FreshInv, Panes
    <3>2. layout' = layout => Panes' = Panes
      BY <1>14, AfterInsert DEF Panes
    <3>3. job'[w].at \in {"save", "rollback"}
      BY <1>14, AfterInsert DEF Moves, Becomes
    <3>4. QED
      BY <2>3, <2>4, <3>1, <3>2, <3>3
  <2>6. QED
    BY <2>1, <2>2, <2>5, DoomFrame
<1>15. ASSUME NEW w \in Workers, Swap(w) PROVE DoomInv'
  <2>1. /\ \A v \in Workers \ {w} : job'[v] = job[v]
        /\ job'[w].op # "deleteSession" /\ byHand' = byHand
    BY <1>0, <1>15, AfterSwap, PlaceFacts DEF Moves, Ends, Becomes, Rest, PlaceInv
  <2>2. (layout' = layout /\ live' \subseteq live) \/ Gains(w)
    BY <1>15, LayoutGains DEF Rest
  <2>3. job[w].at = "swap" /\ job[w].op \in {"closeLast", "replace"} /\ (job[w].op = "closeLast" => job[w].sid # None)
    <3>1. job[w].at = "swap"
      BY <1>15, AfterSwap DEF Moves
    <3>2. QED
      BY <1>0, <3>1, PlaceFacts DEF PlaceInv
  <2>4. job'[w].todo \subseteq Old(w) /\ layout'[job[w].tab] \subseteq Fresh(w) /\ job[w].tab \in Tabs /\ live' = live
    <3>1. job'[w].todo \subseteq Old(w)
      BY <1>15, <2>3, AfterSwap DEF Moves, Becomes, Old
    <3>2. {job[w].new} \subseteq Fresh(w) /\ job[w].made \subseteq Fresh(w)
      BY <2>3 DEF Fresh, InHand, Made
    <3>3. /\ \/ layout' = [layout EXCEPT ![job[w].tab] = {job[w].new}]
             \/ layout' = [layout EXCEPT ![job[w].tab] = job[w].made]
          /\ live' = live
      BY <1>15, AfterSwap
    <3>4. job[w].tab \in Tabs
      BY <1>15, LayoutGains DEF Gains
    <3>5. QED
      BY <1>0, <3>1, <3>2, <3>3, <3>4
  <2>5. job'[w].todo \cap Panes' = {}
    <3>1. \A u \in Tabs \ {job[w].tab} : Old(w) \cap layout'[u] = {}
      BY <1>15, LayoutGains DEF Gains, HomeInv
    <3>2. Old(w) \cap Fresh(w) = {}
      BY DEF FreshInv
    <3>3. QED
      BY <1>0, <2>4, <3>1, <3>2 DEF Panes
  <2>6. QED
    BY <2>1, <2>2, <2>5, DoomFrame
<1>16. ASSUME NEW w \in Workers, Unlink(w) PROVE DoomInv'
  <2>1. /\ \A v \in Workers \ {w} : job'[v] = job[v]
        /\ job'[w].op # "deleteSession" /\ byHand' = byHand
    BY <1>0, <1>16, AfterUnlink, PlaceFacts DEF Moves, Ends, Becomes, Rest, PlaceInv
  <2>2. (layout' = layout /\ live' \subseteq live) \/ Gains(w)
    BY <1>16, LayoutGains DEF Rest
  <2>3. job[w].tab \in Tabs /\ job[w].op = "close" /\ job[w].sid # None
    <3>1. job[w].at = "unlink"
      BY <1>16, AfterUnlink DEF Moves, Ends
    <3>2. QED
      BY <1>0, <3>1, PlaceFacts DEF PlaceInv
  <2>4. \A u \in Tabs \ {job[w].tab} : job[w].sid \notin layout[u]
    BY <2>3 DEF HomeInv, Old
  <2>5. job'[w].at \in {"purge", "rollback"} => job'[w].todo \cap Panes' = {}
    <3>1. CASE Moves(w, "unlink", "purge", {job[w].sid})
               /\ layout' = [layout EXCEPT ![job[w].tab] = @ \ {job[w].sid}] /\ live' = live
      <4>1. job'[w].todo = {job[w].sid}
        BY <3>1 DEF Moves, Becomes
      <4>2. \A u \in Tabs : job[w].sid \notin layout'[u]
        BY <1>0, <2>3, <2>4, <3>1
      <4>3. QED
        BY <1>0, <3>1, <4>1, <4>2 DEF Panes
    <3>2. CASE Ends(w, "unlink")
      BY <3>2 DEF Ends, Becomes
    <3>3. QED
      BY <1>16, <3>1, <3>2, AfterUnlink
  <2>6. QED
    BY <2>1, <2>2, <2>5, DoomFrame
<1>17. ASSUME NEW w \in Workers, CopyLayout(w) PROVE DoomInv'
  BY <1>0, <1>17, AfterCopyLayout, DoomFrame, PlaceFacts DEF Moves, Rest, Becomes, DoomInv
<1>18. ASSUME NEW w \in Workers, CollectOld(w) PROVE DoomInv'
  <2>1. /\ Rest /\ \A v \in Workers \ {w} : job'[v] = job[v]
        /\ job[w].at = "olds" /\ job'[w].at = "spawn" /\ job'[w].op = job[w].op
    BY <1>18, AfterCollectOld DEF Moves, Becomes
  <2>2. job'[w].op # "deleteSession"
    BY <1>0, <2>1, PlaceFacts DEF PlaceInv
  <2>3. QED
    BY <2>1, <2>2, DoomFrame DEF Rest
<1>19. ASSUME NEW w \in Workers, Collect(w) PROVE DoomInv'
  <2>1. job[w].at = "collect" /\ job[w].op = "delete" /\ job[w].tab \in Tabs
    <3>1. job[w].at = "collect"
      BY <1>19, AfterCollect DEF Moves
    <3>2. QED
      BY <1>0, <3>1, PlaceFacts DEF PlaceInv
  <2>2. /\ Rest /\ \A v \in Workers \ {w} : job'[v] = job[v]
        /\ job'[w].op = "delete" /\ job'[w].todo = layout[job[w].tab]
    BY <1>19, <2>1, AfterCollect DEF Moves, Becomes
  <2>3. job[w].tab \notin live /\ \A u \in Tabs \ {job[w].tab} : layout[job[w].tab] \cap layout[u] = {}
    BY <2>1 DEF TabInv, HomeInv
  <2>4. job'[w].todo \cap Panes' = {}
    BY <1>0, <2>2, <2>3 DEF Panes, Rest
  <2>5. QED
    BY <2>2, <2>4, DoomFrame DEF Rest
<1>20. ASSUME NEW w \in Workers, NEW s \in Ids, Purge(w, s) PROVE DoomInv'
  <2>1. /\ \A v \in Workers \ {w} : job'[v] = job[v]
        /\ UNCHANGED <<live, layout, byHand>> /\ job[w].at \in {"purge", "rollback"}
        /\ job'[w].at = job[w].at /\ job'[w].op = job[w].op /\ job'[w].todo = job[w].todo \ {s}
    BY <1>20, AfterPurge DEF Moves, Becomes
  <2>2. Panes' = Panes
    BY <2>1 DEF Panes
  <2>3. /\ job'[w].todo \subseteq byHand' \/ job'[w].todo \cap Panes' = {}
        /\ job[w].op = "deleteSession" => job'[w].todo \subseteq byHand'
    BY <2>1, <2>2 DEF DoomInv
  <2>4. QED
    BY <2>1, <2>3, DoomFrame
<1>21. ASSUME NEW w \in Workers, Kill(w) PROVE DoomInv'
  <2>1. /\ Rest /\ \A v \in Workers \ {w} : job'[v] = job[v]
        /\ job'[w].at = job[w].at /\ job'[w].op = job[w].op /\ job'[w].todo = job[w].todo
    BY <1>21, AfterKill DEF Moves, Becomes
  <2>2. Panes' = Panes
    BY <2>1 DEF Panes, Rest
  <2>3. QED
    BY <2>1, <2>2, DoomFrame DEF DoomInv, Rest
<1>22. ASSUME NEW w \in Workers, Purged(w) PROVE DoomInv'
  BY <1>0, <1>22, AfterPurged, DoomFrame, PlaceFacts DEF Moves, Ends, Rest, Becomes, DoomInv
<1>23. ASSUME NEW w \in Workers, Capture(w) PROVE DoomInv'
  BY <1>0, <1>23, AfterCapture, DoomFrame, PlaceFacts DEF Moves, Rest, Becomes, DoomInv
<1>24. ASSUME NEW w \in Workers, WriteState(w) PROVE DoomInv'
  BY <1>0, <1>24, AfterWriteState, DoomFrame, PlaceFacts DEF Ends, Rest, Becomes, DoomInv
<1>25. ASSUME NEW n \in Shells, ShellExit(n) PROVE DoomInv'
  BY <1>25 DEF ShellExit, registry, history, DoomInv, Panes
<1>26. CASE UNCHANGED vars
  BY <1>26 DEF vars, DoomInv, Panes
<1>27. QED
  BY <1>1, <1>2, <1>3, <1>4, <1>5, <1>6, <1>7, <1>8, <1>9, <1>10, <1>11, <1>12, <1>13, <1>14,
     <1>15, <1>16, <1>17, <1>18, <1>19, <1>20, <1>21, <1>22, <1>23, <1>24, <1>25, <1>26
  DEF Next, BeginStep, WorkStep

\* A step in which w goes on with its operation, or leaves its tab.
LEMMA TabFrame ==
  ASSUME TabInv, PlaceInv, NEW w \in Workers, \A v \in Workers \ {w} : job'[v] = job[v],
         UNCHANGED <<live, layout>>,
         \/ job'[w].tab = None /\ job'[w].op \notin {"create", "delete"}
         \/ job'[w].tab = job[w].tab /\ job'[w].op = job[w].op
  PROVE  TabInv'
<1>1. CASE job'[w].tab = None /\ job'[w].op \notin {"create", "delete"}
  <2>1. \A v \in Workers : job[v].op = "create" => job[v].tab # None
    BY DEF PlaceInv
  <2>2. QED
    BY <1>1, <2>1 DEF TabInv
<1>2. CASE job'[w].tab = job[w].tab /\ job'[w].op = job[w].op
  <2>1. \A v \in Workers : job'[v].tab = job[v].tab /\ job'[v].op = job[v].op
    BY <1>2
  <2>2. QED
    BY <2>1 DEF TabInv
<1>3. QED
  BY <1>1, <1>2

\* A tab is created once, and not after it was deleted.
LEMMA TabStep ==
  TypeOK /\ PlaceInv /\ TabInv /\ [Next]_vars => TabInv'
<1> SUFFICES ASSUME TypeOK, PlaceInv, TabInv, [Next]_vars PROVE TabInv'
  OBVIOUS
<1>0. Typed
  BY JobTypes
<1> USE DEF Typed, TabInv, Rest
<1>1. ASSUME NEW w \in Workers, NEW t \in Tabs, CreateTab(w, t) PROVE TabInv'
  BY <1>0, <1>1, AfterCreateTab, NoneFacts, PlaceFacts DEF Begins, Rest, Becomes
<1>2. ASSUME NEW w \in Workers, NEW t \in Tabs, NEW s \in Ids, SplitPane(w, t, s) PROVE TabInv'
  BY <1>0, <1>2, AfterSplitPane, NoneFacts, PlaceFacts DEF Begins, Rest, Becomes
<1>3. ASSUME NEW w \in Workers, NEW t \in Tabs, NEW s \in Ids, ClosePane(w, t, s) PROVE TabInv'
  BY <1>0, <1>3, AfterClosePane, NoneFacts, PlaceFacts DEF Begins, Rest, Becomes
<1>4. ASSUME NEW w \in Workers, NEW t \in Tabs, ReplaceTabSessions(w, t) PROVE TabInv'
  BY <1>0, <1>4, AfterReplaceTabSessions, NoneFacts, PlaceFacts DEF Begins, Rest, Becomes
<1>5. ASSUME NEW w \in Workers, NEW t \in Tabs, DeleteTab(w, t) PROVE TabInv'
  BY <1>0, <1>5, AfterDeleteTab, NoneFacts, PlaceFacts DEF Begins, Becomes
<1>6. ASSUME NEW w \in Workers, NEW s \in Ids, DeleteSession(w, s) PROVE TabInv'
  <2>1. /\ \A v \in Workers \ {w} : job'[v] = job[v]
        /\ UNCHANGED <<live, layout>>
        /\ \/ job'[w].tab = None /\ job'[w].op \notin {"create", "delete"}
           \/ job'[w].tab = job[w].tab /\ job'[w].op = job[w].op
    BY <1>6, AfterDeleteSession DEF Begins, Becomes
  <2>2. QED
    BY <2>1, TabFrame
<1>7. ASSUME NEW w \in Workers, NEW t \in Tabs, NEW s \in Ids, AttachSession(w, t, s) PROVE TabInv'
  BY <1>0, <1>7, AfterAttachSession, NoneFacts, PlaceFacts DEF Begins, Rest, Becomes
<1>8. ASSUME NEW w \in Workers, SaveState(w) PROVE TabInv'
  <2>1. /\ \A v \in Workers \ {w} : job'[v] = job[v]
        /\ UNCHANGED <<live, layout>>
        /\ \/ job'[w].tab = None /\ job'[w].op \notin {"create", "delete"}
           \/ job'[w].tab = job[w].tab /\ job'[w].op = job[w].op
    BY <1>8, AfterSaveState DEF Begins, Rest, Becomes
  <2>2. QED
    BY <2>1, TabFrame
<1>9. ASSUME NEW w \in Workers, CheckDead(w) PROVE TabInv'
  <2>1. /\ \A v \in Workers \ {w} : job'[v] = job[v]
        /\ UNCHANGED <<live, layout>>
        /\ \/ job'[w].tab = None /\ job'[w].op \notin {"create", "delete"}
           \/ job'[w].tab = job[w].tab /\ job'[w].op = job[w].op
    BY <1>9, AfterCheckDead DEF Moves, Ends, Rest, Becomes
  <2>2. QED
    BY <2>1, TabFrame
<1>10. ASSUME NEW w \in Workers, Spawn(w) PROVE TabInv'
  BY <1>0, <1>10, AfterSpawn, NoneFacts, PlaceFacts DEF Becomes
<1>11. ASSUME NEW w \in Workers, SpawnFails(w) PROVE TabInv'
  <2>1. /\ \A v \in Workers \ {w} : job'[v] = job[v]
        /\ UNCHANGED <<live, layout>>
        /\ \/ job'[w].tab = None /\ job'[w].op \notin {"create", "delete"}
           \/ job'[w].tab = job[w].tab /\ job'[w].op = job[w].op
    BY <1>11, AfterSpawnFails DEF Moves, Ends, Rest, Becomes
  <2>2. QED
    BY <2>1, TabFrame
<1>12. ASSUME NEW w \in Workers, Register(w) PROVE TabInv'
  <2>1. /\ \A v \in Workers \ {w} : job'[v] = job[v]
        /\ UNCHANGED <<live, layout>>
    BY <1>12, AfterRegister DEF Moves, Ends, Becomes
  <2>2. \/ job'[w].tab = None /\ job'[w].op \notin {"create", "delete"}
        \/ job'[w].tab = job[w].tab /\ job'[w].op = job[w].op
    BY <1>12, AfterRegister DEF Moves, Ends, Becomes
  <2>3. QED
    BY <2>1, <2>2, TabFrame
<1>13. ASSUME NEW w \in Workers, AddTab(w) PROVE TabInv'
  BY <1>0, <1>13, AfterAddTab, NoneFacts, PlaceFacts, LayoutGains DEF Ends, Becomes, PlaceInv,
     Gains
<1>14. ASSUME NEW w \in Workers, Insert(w) PROVE TabInv'
  BY <1>0, <1>14, AfterInsert, NoneFacts, PlaceFacts, LayoutGains DEF Moves, Becomes, PlaceInv,
     Gains
<1>15. ASSUME NEW w \in Workers, Swap(w) PROVE TabInv'
  BY <1>0, <1>15, AfterSwap, NoneFacts, PlaceFacts, LayoutGains DEF Moves, Becomes, PlaceInv,
     Gains
<1>16. ASSUME NEW w \in Workers, Unlink(w) PROVE TabInv'
  BY <1>0, <1>16, AfterUnlink, NoneFacts, PlaceFacts, LayoutGains DEF Moves, Ends, Becomes,
     PlaceInv, Gains
<1>17. ASSUME NEW w \in Workers, CopyLayout(w) PROVE TabInv'
  BY <1>0, <1>17, AfterCopyLayout, NoneFacts, PlaceFacts DEF Moves, Rest, Becomes
<1>18. ASSUME NEW w \in Workers, CollectOld(w) PROVE TabInv'
  BY <1>0, <1>18, AfterCollectOld, NoneFacts, PlaceFacts DEF Moves, Rest, Becomes
<1>19. ASSUME NEW w \in Workers, Collect(w) PROVE TabInv'
  BY <1>0, <1>19, AfterCollect, NoneFacts, PlaceFacts DEF Moves, Rest, Becomes
<1>20. ASSUME NEW w \in Workers, NEW s \in Ids, Purge(w, s) PROVE TabInv'
  BY <1>0, <1>20, AfterPurge, NoneFacts, PlaceFacts, SMTT(30) DEF Moves, Becomes
<1>21. ASSUME NEW w \in Workers, Kill(w) PROVE TabInv'
  BY <1>0, <1>21, AfterKill, NoneFacts, PlaceFacts DEF Moves, Rest, Becomes
<1>22. ASSUME NEW w \in Workers, Purged(w) PROVE TabInv'
  <2>1. /\ \A v \in Workers \ {w} : job'[v] = job[v]
        /\ UNCHANGED <<live, layout>>
        /\ \/ job'[w].tab = None /\ job'[w].op \notin {"create", "delete"}
           \/ job'[w].tab = job[w].tab /\ job'[w].op = job[w].op
    BY <1>22, AfterPurged DEF Moves, Ends, Rest, Becomes
  <2>2. QED
    BY <2>1, TabFrame
<1>23. ASSUME NEW w \in Workers, Capture(w) PROVE TabInv'
  BY <1>0, <1>23, AfterCapture, NoneFacts, PlaceFacts DEF Moves, Rest, Becomes
<1>24. ASSUME NEW w \in Workers, WriteState(w) PROVE TabInv'
  <2>1. /\ \A v \in Workers \ {w} : job'[v] = job[v]
        /\ UNCHANGED <<live, layout>>
        /\ \/ job'[w].tab = None /\ job'[w].op \notin {"create", "delete"}
           \/ job'[w].tab = job[w].tab /\ job'[w].op = job[w].op
    BY <1>24, AfterWriteState DEF Ends, Rest, Becomes
  <2>2. QED
    BY <2>1, TabFrame
<1>25. ASSUME NEW n \in Shells, ShellExit(n) PROVE TabInv'
  BY <1>25 DEF ShellExit, registry
<1>26. CASE UNCHANGED vars
  BY <1>26 DEF vars
<1>27. QED
  BY <1>1, <1>2, <1>3, <1>4, <1>5, <1>6, <1>7, <1>8, <1>9, <1>10, <1>11, <1>12, <1>13, <1>14,
     <1>15, <1>16, <1>17, <1>18, <1>19, <1>20, <1>21, <1>22, <1>23, <1>24, <1>25, <1>26
  DEF Next, BeginStep, WorkStep

\* No pane dangles.
LEMMA PaneStep ==
  TypeOK /\ PlaceInv /\ IdInv /\ FreshInv /\ DoomInv /\ NoDanglingPane /\ [Next]_vars => NoDanglingPane'
<1> SUFFICES ASSUME TypeOK, PlaceInv, IdInv, FreshInv, DoomInv, NoDanglingPane, [Next]_vars PROVE NoDanglingPane'
  OBVIOUS
<1>0. Typed
  BY JobTypes
<1> USE DEF Typed, NoDanglingPane, Registered, Panes, Rest
<1>1. ASSUME NEW w \in Workers, NEW t \in Tabs, CreateTab(w, t) PROVE NoDanglingPane'
  BY <1>0, <1>1, AfterCreateTab DEF Begins, Rest, Becomes
<1>2. ASSUME NEW w \in Workers, NEW t \in Tabs, NEW s \in Ids, SplitPane(w, t, s) PROVE NoDanglingPane'
  BY <1>0, <1>2, AfterSplitPane DEF Begins, Rest, Becomes
<1>3. ASSUME NEW w \in Workers, NEW t \in Tabs, NEW s \in Ids, ClosePane(w, t, s) PROVE NoDanglingPane'
  BY <1>0, <1>3, AfterClosePane DEF Begins, Rest, Becomes
<1>4. ASSUME NEW w \in Workers, NEW t \in Tabs, ReplaceTabSessions(w, t) PROVE NoDanglingPane'
  BY <1>0, <1>4, AfterReplaceTabSessions DEF Begins, Rest, Becomes
<1>5. ASSUME NEW w \in Workers, NEW t \in Tabs, DeleteTab(w, t) PROVE NoDanglingPane'
  BY <1>0, <1>5, AfterDeleteTab DEF Begins, Becomes
<1>6. ASSUME NEW w \in Workers, NEW s \in Ids, DeleteSession(w, s) PROVE NoDanglingPane'
  BY <1>0, <1>6, AfterDeleteSession DEF Begins, Becomes
<1>7. ASSUME NEW w \in Workers, NEW t \in Tabs, NEW s \in Ids, AttachSession(w, t, s) PROVE NoDanglingPane'
  BY <1>0, <1>7, AfterAttachSession DEF Begins, Rest, Becomes
<1>8. ASSUME NEW w \in Workers, SaveState(w) PROVE NoDanglingPane'
  BY <1>0, <1>8, AfterSaveState DEF Begins, Rest, Becomes
<1>9. ASSUME NEW w \in Workers, CheckDead(w) PROVE NoDanglingPane'
  BY <1>0, <1>9, AfterCheckDead DEF Moves, Ends, Rest, Becomes
<1>10. ASSUME NEW w \in Workers, Spawn(w) PROVE NoDanglingPane'
  BY <1>0, <1>10, AfterSpawn DEF Becomes
<1>11. ASSUME NEW w \in Workers, SpawnFails(w) PROVE NoDanglingPane'
  BY <1>0, <1>11, AfterSpawnFails DEF Moves, Ends, Rest, Becomes
<1>12. ASSUME NEW w \in Workers, Register(w) PROVE NoDanglingPane'
  <2>1. /\ sessions' = [sessions EXCEPT ![sidOf[job[w].new]] = job[w].new]
        /\ UNCHANGED <<live, layout, byHand>> /\ job[w].at = "register"
    BY <1>12, AfterRegister DEF Moves, Ends
  <2>2. job[w].new # None
    BY <2>1 DEF PlaceInv
  <2>3. Registered \subseteq Registered'
    BY <1>0, <2>1, <2>2
  <2>4. Panes' = Panes
    BY <2>1
  <2> HIDE DEF Registered, Panes
  <2>5. QED
    BY <2>1, <2>3, <2>4
<1>13. ASSUME NEW w \in Workers, AddTab(w) PROVE NoDanglingPane'
  BY <1>0, <1>13, AfterAddTab, LayoutGains DEF Ends, Becomes, Gains, FreshInv, Fresh
<1>14. ASSUME NEW w \in Workers, Insert(w) PROVE NoDanglingPane'
  BY <1>0, <1>14, AfterInsert, LayoutGains DEF Moves, Becomes, Gains, FreshInv, Fresh
<1>15. ASSUME NEW w \in Workers, Swap(w) PROVE NoDanglingPane'
  BY <1>0, <1>15, AfterSwap, LayoutGains DEF Moves, Becomes, Gains, FreshInv, Fresh
<1>16. ASSUME NEW w \in Workers, Unlink(w) PROVE NoDanglingPane'
  BY <1>0, <1>16, AfterUnlink, LayoutGains DEF Moves, Ends, Becomes, Gains, FreshInv, Fresh
<1>17. ASSUME NEW w \in Workers, CopyLayout(w) PROVE NoDanglingPane'
  BY <1>0, <1>17, AfterCopyLayout DEF Moves, Rest, Becomes
<1>18. ASSUME NEW w \in Workers, CollectOld(w) PROVE NoDanglingPane'
  BY <1>0, <1>18, AfterCollectOld DEF Moves, Rest, Becomes
<1>19. ASSUME NEW w \in Workers, Collect(w) PROVE NoDanglingPane'
  BY <1>0, <1>19, AfterCollect DEF Moves, Rest, Becomes
<1>20. ASSUME NEW w \in Workers, NEW s \in Ids, Purge(w, s) PROVE NoDanglingPane'
  <2>1. /\ job[w].at \in {"purge", "rollback"} /\ s \in job[w].todo
        /\ sessions' = [sessions EXCEPT ![s] = None] /\ UNCHANGED <<live, layout, byHand>>
    BY <1>20, AfterPurge
  <2>2. Registered \subseteq Registered' \cup {s}
    BY <1>0, <2>1
  <2>3. Panes' = Panes
    BY <2>1
  <2> HIDE DEF Registered, Panes
  <2>4. s \in byHand \/ s \notin Panes
    BY <2>1 DEF DoomInv
  <2>5. QED
    BY <2>1, <2>2, <2>3, <2>4
<1>21. ASSUME NEW w \in Workers, Kill(w) PROVE NoDanglingPane'
  BY <1>0, <1>21, AfterKill DEF Moves, Rest, Becomes
<1>22. ASSUME NEW w \in Workers, Purged(w) PROVE NoDanglingPane'
  BY <1>0, <1>22, AfterPurged DEF Moves, Ends, Rest, Becomes
<1>23. ASSUME NEW w \in Workers, Capture(w) PROVE NoDanglingPane'
  BY <1>0, <1>23, AfterCapture DEF Moves, Rest, Becomes
<1>24. ASSUME NEW w \in Workers, WriteState(w) PROVE NoDanglingPane'
  BY <1>0, <1>24, AfterWriteState DEF Ends, Rest, Becomes
<1>25. ASSUME NEW n \in Shells, ShellExit(n) PROVE NoDanglingPane'
  BY <1>25 DEF ShellExit, registry, history
<1>26. CASE UNCHANGED vars
  BY <1>26 DEF vars
<1>27. QED
  BY <1>1, <1>2, <1>3, <1>4, <1>5, <1>6, <1>7, <1>8, <1>9, <1>10, <1>11, <1>12, <1>13, <1>14,
     <1>15, <1>16, <1>17, <1>18, <1>19, <1>20, <1>21, <1>22, <1>23, <1>24, <1>25, <1>26
  DEF Next, BeginStep, WorkStep

\* The jobs stay jobs.
LEMMA JobClosed ==
  ASSUME NEW r \in Jobs, NEW a \in Places, NEW X \in SUBSET Ids, NEW n \in Shells \cup {None}, NEW k \in Nat
  PROVE  /\ [r EXCEPT !.at = a] \in Jobs /\ [r EXCEPT !.kill = n] \in Jobs
         /\ [r EXCEPT !.made = X, !.at = a] \in Jobs /\ [r EXCEPT !.want = k, !.at = a] \in Jobs
         /\ [r EXCEPT !.at = a, !.todo = X] \in Jobs /\ [r EXCEPT !.todo = X, !.at = a] \in Jobs
         /\ [r EXCEPT !.todo = X, !.kill = n] \in Jobs
<1>1. /\ [r EXCEPT !.at = a] \in Jobs /\ [r EXCEPT !.kill = n] \in Jobs
  BY DEF Jobs
<1>2. [r EXCEPT !.made = X, !.at = a] \in Jobs /\ [r EXCEPT !.want = k, !.at = a] \in Jobs
  BY DEF Jobs
<1>3. [r EXCEPT !.at = a, !.todo = X] \in Jobs /\ [r EXCEPT !.todo = X, !.at = a] \in Jobs
  BY DEF Jobs
<1>4. [r EXCEPT !.todo = X, !.kill = n] \in Jobs
  BY DEF Jobs
<1>5. QED
  BY <1>1, <1>2, <1>3, <1>4

LEMMA IdleJob == Idle \in Jobs
<1>1. {} \in SUBSET Ids /\ {} \in SUBSET Tabs /\ 0 \in Nat
  OBVIOUS
<1>2. QED
  BY <1>1 DEF Idle, Jobs, Ops, Places

\* Every step keeps the types.
LEMMA TypeStep ==
  TypeOK /\ PlaceInv /\ [Next]_vars => TypeOK'
<1> SUFFICES ASSUME TypeOK, PlaceInv, [Next]_vars PROVE TypeOK'
  OBVIOUS
<1> USE DEF TypeOK
<1>1. ASSUME NEW w \in Workers, NEW t \in Tabs, CreateTab(w, t) PROVE TypeOK'
  BY <1>1 DEF CreateTab, Begin, Job, registry, shells, Idle, Jobs, Ops, Places, Ids
<1>2. ASSUME NEW w \in Workers, NEW t \in Tabs, NEW s \in Ids, SplitPane(w, t, s) PROVE TypeOK'
  BY <1>2 DEF SplitPane, Begin, Job, PaneJob, registry, shells, Idle, Jobs, Ops, Places, Ids
<1>3. ASSUME NEW w \in Workers, NEW t \in Tabs, NEW s \in Ids, ClosePane(w, t, s) PROVE TypeOK'
  BY <1>3 DEF ClosePane, Begin, Job, PaneJob, registry, shells, Idle, Jobs, Ops, Places, Ids
<1>4. ASSUME NEW w \in Workers, NEW t \in Tabs, ReplaceTabSessions(w, t) PROVE TypeOK'
  BY <1>4 DEF ReplaceTabSessions, Begin, Job, registry, shells, Idle, Jobs, Ops, Places, Ids
<1>5. ASSUME NEW w \in Workers, NEW t \in Tabs, DeleteTab(w, t) PROVE TypeOK'
  BY <1>5 DEF DeleteTab, Begin, Job, shells, Idle, Jobs, Ops, Places, Ids
<1>6. ASSUME NEW w \in Workers, NEW s \in Ids, DeleteSession(w, s) PROVE TypeOK'
  BY <1>6, ZenonT(60) DEF DeleteSession, Job, registry, shells, Idle, Jobs, Ops, Places, Ids
<1>7. ASSUME NEW w \in Workers, NEW t \in Tabs, NEW s \in Ids, AttachSession(w, t, s) PROVE TypeOK'
  BY <1>7 DEF AttachSession, Begin, Job, PaneJob, registry, shells, Idle, Jobs, Ops, Places, Ids
<1>8. ASSUME NEW w \in Workers, SaveState(w) PROVE TypeOK'
  BY <1>8 DEF SaveState, Job, registry, shells, history, Idle, Jobs, Ops, Places, Ids
<1>9. ASSUME NEW w \in Workers, CheckDead(w) PROVE TypeOK'
  BY <1>9, SMTT(30) DEF CheckDead, Go, Done, registry, shells, history, Idle, Jobs, Ops, Places, Ids
<1>10. ASSUME NEW w \in Workers, Spawn(w) PROVE TypeOK'
  BY <1>10 DEF Spawn, registry, history, Jobs, Ops, Places, Ids
<1>11. ASSUME NEW w \in Workers, SpawnFails(w) PROVE TypeOK'
  BY <1>11 DEF SpawnFails, Done, registry, shells, history, Idle, Jobs, Ops, Places, Ids
<1>12. ASSUME NEW w \in Workers, Register(w) PROVE TypeOK'
  <2>1. job[w].op \in {"create", "split", "closeLast", "replace", "revive"} /\ job[w].new \in Shells
    <3>1. job[w].at = "register"
      BY <1>12, AfterRegister DEF Moves, Ends
    <3>2. job[w].new # None /\ job[w].at \in StepsOf(job[w].op)
      BY <3>1 DEF PlaceInv
    <3>3. job[w] \in Jobs
      OBVIOUS
    <3>4. QED
      BY <3>1, <3>2, <3>3, PlaceFacts DEF Jobs
  <2>2. sessions' \in [Ids -> Shells \cup {None}]
    BY <1>12, <2>1 DEF Register
  <2>3. ASSUME NEW a \in Places, NEW X \in SUBSET Ids PROVE [job[w] EXCEPT !.made = X, !.at = a] \in Jobs
    BY JobClosed
  <2>4. Idle \in Jobs /\ \A a \in Places : [job[w] EXCEPT !.at = a] \in Jobs
    BY JobClosed, IdleJob
  <2>5. job' \in [Workers -> Jobs]
    <3>1. CASE job[w].op = "replace"
      <4>1. job' = [job EXCEPT ![w] = [job[w] EXCEPT !.made = @ \cup {job[w].new},
                                 !.at = IF Cardinality(job[w].made) + 1 < job[w].want THEN "spawn" ELSE "swap"]]
        BY <1>12, <3>1 DEF Register
      <4>2. job[w].made \cup {job[w].new} \in SUBSET Ids
        BY <2>1 DEF Jobs, Ids
      <4>3. QED
        BY <2>3, <4>1, <4>2 DEF Places
    <3>2. CASE job[w].op # "replace"
      <4>1. job' = [job EXCEPT ![w] = Idle] \/ \E a \in Places : job' = [job EXCEPT ![w].at = a]
        BY <1>12, <2>1, <3>2 DEF Register, Go, Done, Places
      <4>2. QED
        BY <2>4, <4>1
    <3>3. QED
      BY <3>1, <3>2
  <2>6. QED
    BY <1>12, <2>2, <2>5 DEF Register, shells, history
<1>13. ASSUME NEW w \in Workers, AddTab(w) PROVE TypeOK'
  <2>1. job[w] \in Jobs /\ job[w].at = "addTab" /\ job[w].new # None /\ job[w].at \in StepsOf(job[w].op)
    BY <1>13 DEF AddTab, PlaceInv
  <2>2. job[w].new \in Ids /\ job[w].tab \in Tabs
    BY <2>1, PlaceFacts DEF Jobs, Ids, PlaceInv
  <2>3. layout' \in [Tabs -> SUBSET Ids] /\ live' \subseteq Tabs
    BY <1>13, <2>2 DEF AddTab
  <2>4. job' \in [Workers -> Jobs]
    BY <1>13, IdleJob DEF AddTab, Done
  <2>5. QED
    BY <1>13, <2>3, <2>4 DEF AddTab, shells, history
<1>14. ASSUME NEW w \in Workers, Insert(w) PROVE TypeOK'
  <2>1. job[w] \in Jobs /\ job[w].at = "insert" /\ job[w].new # None
    BY <1>14 DEF Insert, PlaceInv
  <2>2. job[w].new \in Ids
    BY <2>1 DEF Jobs, Ids
  <2>3. layout' \in [Tabs -> SUBSET Ids]
    BY <1>14, <2>2 DEF Insert
  <2>4. job' \in [Workers -> Jobs]
    <3>1. ASSUME NEW X \in SUBSET Ids
          PROVE  [job[w] EXCEPT !.todo = X, !.at = "rollback"] \in Jobs /\ [job[w] EXCEPT !.at = "save"] \in Jobs
      BY <2>1, JobClosed DEF Places
    <3>2. {job[w].new} \in SUBSET Ids
      BY <2>2
    <3>3. CASE job[w].sid \in layout[job[w].tab]
      BY <1>14, <3>1, <3>2, <3>3 DEF Insert, Go
    <3>4. CASE job[w].sid \notin layout[job[w].tab]
      BY <1>14, <3>1, <3>2, <3>4 DEF Insert
    <3>5. QED
      BY <3>3, <3>4
  <2>5. QED
    BY <1>14, <2>3, <2>4 DEF Insert, shells, history
<1>15. ASSUME NEW w \in Workers, Swap(w) PROVE TypeOK'
  <2>1. /\ job[w] \in Jobs /\ job[w].at = "swap" /\ job[w].new # None
        /\ job[w].at \in StepsOf(job[w].op)
    BY <1>15 DEF Swap, PlaceInv
  <2>2. /\ job[w].new \in Ids /\ job[w].made \in SUBSET Ids /\ job[w].todo \in SUBSET Ids
        /\ job[w].op # "replace" => job[w].sid \in Ids
    BY <2>1, PlaceFacts DEF Jobs, PlaceInv, Ids
  <2>3. layout' \in [Tabs -> SUBSET Ids]
    BY <1>15, <2>2 DEF Swap
  <2>4. job' \in [Workers -> Jobs]
    <3>1. (IF job[w].op = "replace" THEN job[w].todo ELSE {job[w].sid}) \in SUBSET Ids
      BY <2>2
    <3>2. ASSUME NEW X \in SUBSET Ids PROVE [job[w] EXCEPT !.at = "purge", !.todo = X] \in Jobs
      BY <2>1, JobClosed DEF Places
    <3>3. QED
      BY <1>15, <3>1, <3>2 DEF Swap
  <2>5. QED
    BY <1>15, <2>3, <2>4 DEF Swap, shells, history
<1>16. ASSUME NEW w \in Workers, Unlink(w) PROVE TypeOK'
  BY <1>16, SMTT(30) DEF Unlink, Done, shells, history, Idle, Jobs, Ops, Places, Ids
<1>17. ASSUME NEW w \in Workers, CopyLayout(w) PROVE TypeOK'
  <2>1. Cardinality(layout[job[w].tab]) \in Nat
    <3>1. job[w].tab \in Tabs
      <4>1. job[w].at = "copy" /\ job[w] \in Jobs
        BY <1>17 DEF CopyLayout
      <4>2. job[w].op = "replace" /\ job[w].tab # None
        BY <4>1, PlaceFacts DEF PlaceInv, Jobs
      <4>3. QED
        BY <4>1, <4>2 DEF Jobs
    <3>2. layout[job[w].tab] \subseteq 1 .. MaxShells
      BY <3>1 DEF Ids, Shells
    <3>3. IsFiniteSet(1 .. MaxShells)
      BY RegistryAssumption, FS_Interval
    <3>4. IsFiniteSet(layout[job[w].tab])
      BY <3>2, <3>3, FS_Subset
    <3>5. QED
      BY <3>4, FS_CardinalityType
  <2>2. [job[w] EXCEPT !.want = Cardinality(layout[job[w].tab]), !.at = "olds"] \in Jobs
    <3>1. "olds" \in Places
      BY DEF Places
    <3>2. QED
      BY <2>1, <3>1, JobClosed
  <2>3. QED
    BY <1>17, <2>2 DEF CopyLayout, registry, shells, history
<1>18. ASSUME NEW w \in Workers, CollectOld(w) PROVE TypeOK'
  BY <1>18 DEF CollectOld, registry, shells, history, Jobs, Ops, Places, Ids
<1>19. ASSUME NEW w \in Workers, Collect(w) PROVE TypeOK'
  BY <1>19 DEF Collect, registry, shells, history, Jobs, Ops, Places, Ids
<1>20. ASSUME NEW w \in Workers, NEW s \in Ids, Purge(w, s) PROVE TypeOK'
  <2>1. job[w] \in Jobs /\ sessions[s] \in Shells \cup {None}
    OBVIOUS
  <2>2. job[w].todo \ {s} \in SUBSET Ids
    BY <2>1 DEF Jobs
  <2>3. [job[w] EXCEPT !.todo = job[w].todo \ {s}, !.kill = sessions[s]] \in Jobs
    <3>1. \A a \in Places, k \in Nat : [job[w] EXCEPT !.todo = job[w].todo \ {s}, !.kill = sessions[s]] \in Jobs
      BY <2>1, <2>2, JobClosed, ZenonT(60)
    <3>2. QED
      BY <3>1 DEF Places
  <2>4. job' \in [Workers -> Jobs]
    BY <1>20, <2>3 DEF Purge
  <2>5. QED
    BY <1>20, <2>4 DEF Purge, shells, history
<1>21. ASSUME NEW w \in Workers, Kill(w) PROVE TypeOK'
  <2>1. job' \in [Workers -> Jobs]
    <3>1. \A a \in Places, X \in SUBSET Ids, k \in Nat : [job[w] EXCEPT !.kill = None] \in Jobs
      BY JobClosed
    <3>2. [job[w] EXCEPT !.kill = None] \in Jobs
      BY <3>1 DEF Places
    <3>3. QED
      BY <1>21, <3>2 DEF Kill
  <2>2. alive' \in [Shells -> BOOLEAN]
    BY <1>21 DEF Kill
  <2>3. QED
    BY <1>21, <2>1, <2>2 DEF Kill, registry, history
<1>22. ASSUME NEW w \in Workers, Purged(w) PROVE TypeOK'
  BY <1>22 DEF Purged, Go, Done, registry, shells, history, Idle, Jobs, Ops, Places, Ids
<1>23. ASSUME NEW w \in Workers, Capture(w) PROVE TypeOK'
  BY <1>23 DEF Capture, registry, shells, Jobs, Ops, Places, Ids
<1>24. ASSUME NEW w \in Workers, WriteState(w) PROVE TypeOK'
  <2>1. job' \in [Workers -> Jobs]
    BY <1>24, IdleJob DEF WriteState, Done
  <2>2. disk' \in [Tabs -> (SUBSET Ids) \cup {None}]
    <3>1. disk' = [t \in Tabs |-> IF t \in job[w].tabs THEN layout[t] ELSE None]
      BY <1>24 DEF WriteState
    <3> DEFINE D == (SUBSET Ids) \cup {None}
    <3>2. \A t \in Tabs : layout[t] \in SUBSET Ids
      OBVIOUS
    <3>3. None \in D /\ \A t \in Tabs : layout[t] \in D
      BY <3>2, Zenon
    <3> HIDE DEF D, TypeOK
    <3>4. disk' \in [Tabs -> D]
      BY <3>1, <3>3
    <3>5. QED
      BY <3>4 DEF D
  <2>3. QED
    BY <1>24, <2>1, <2>2 DEF WriteState, registry, shells, history
<1>25. ASSUME NEW n \in Shells, ShellExit(n) PROVE TypeOK'
  BY <1>25 DEF ShellExit, registry, history
<1>26. CASE UNCHANGED vars
  BY <1>26 DEF vars
<1>27. QED
  BY <1>1, <1>2, <1>3, <1>4, <1>5, <1>6, <1>7, <1>8, <1>9, <1>10, <1>11, <1>12, <1>13, <1>14,
     <1>15, <1>16, <1>17, <1>18, <1>19, <1>20, <1>21, <1>22, <1>23, <1>24, <1>25, <1>26
  DEF Next, BeginStep, WorkStep

\* It all holds to begin with.
LEMMA InitInv == Init => IInv
<1> SUFFICES ASSUME Init PROVE IInv
  OBVIOUS
<1> USE RegistryAssumption, NoneFacts DEF Init
<1>1. job \in [Workers -> Jobs] /\ \A w \in Workers : job[w] = Idle
  BY IdleJob
<1>2. TypeOK
  <2>1. sessions \in [Ids -> Shells \cup {None}] /\ live \subseteq Tabs /\ layout \in [Tabs -> SUBSET Ids]
    OBVIOUS
  <2>2. spawned \in 0 .. MaxShells /\ alive \in [Shells -> BOOLEAN] /\ sidOf \in [Shells -> Ids]
    BY DEF Ids
  <2>3. disk \in [Tabs -> (SUBSET Ids) \cup {None}]
    <3> DEFINE D == (SUBSET Ids) \cup {None}
    <3>1. None \in D
      BY Zenon
    <3>2. disk = [t \in Tabs |-> None]
      OBVIOUS
    <3> HIDE DEF D, Init
    <3>3. disk \in [Tabs -> D]
      BY <3>1, <3>2
    <3>4. QED
      BY <3>3 DEF D
  <2>4. QED
    BY <1>1, <2>1, <2>2, <2>3 DEF TypeOK
<1>3. IdInv
  BY <1>1 DEF IdInv, Registered, Spawned, Shells, Idle
<1>4. PlaceInv
  BY <1>1 DEF PlaceInv, StepsOf, Idle
<1>5. FreshInv
  BY <1>1 DEF FreshInv, Fresh, InHand, Made, Old, Idle
<1>6. HomeInv /\ DoomInv /\ TabInv
  BY <1>1 DEF HomeInv, DoomInv, TabInv, Old, Idle
<1>7. NoDanglingPane
  BY DEF NoDanglingPane, Panes
<1>8. QED
  BY <1>2, <1>3, <1>4, <1>5, <1>6, <1>7 DEF IInv

\* The invariant is inductive: sessions are registered before they enter a
\* layout and leave it before they are deleted, because what a handler makes
\* stays its own until then and what it deletes is of its own tab (manager.go
\* CreateTab, SplitPane, ClosePane, ReplaceTabSessions, DeleteTab).
THEOREM RegistryInvariant == Spec => []IInv
<1>1. IInv /\ [Next]_vars => IInv'
  BY TypeStep, PlaceStep, IdStep, FreshStep, HomeStep, DoomStep, TabStep, PaneStep DEF IInv
<1>2. QED
  BY InitInv, <1>1, PTL DEF Spec

\* The type invariant, for any workers, tabs and bound on the shells.
THEOREM RegistryTypeOK == Spec => []TypeOK
<1>1. IInv => TypeOK
  BY DEF IInv
<1>2. QED
  BY RegistryInvariant, <1>1, PTL

\* However the handlers overlap, no pane of a tab shows a session that is gone,
\* unless it was deleted by hand.
THEOREM RegistryNoDangling == Spec => []NoDanglingPane
<1>1. IInv => NoDanglingPane
  BY DEF IInv
<1>2. QED
  BY RegistryInvariant, <1>1, PTL

-----------------------------------------------------------------------------
(***************************************************************************)
(* That handlers which did not overlap leave no session and no shell       *)
(* behind, and that what they did reaches state.json.  A lemma Also<A>     *)
(* adds to After<A> what action A makes of the shells that are alive, of   *)
(* the shell the worker kills, and of the file.                            *)
(***************************************************************************)

\* What each action makes of the rest.
LEMMA AlsoCreateTab ==
  ASSUME TypeOK, NEW w \in Workers, NEW t \in Tabs, CreateTab(w, t)
  PROVE  /\ job'[w].kill = None
         /\ overlapped' = (overlapped \/ \E v \in Workers : Busy(v) /\ job[v].tab = t)
         /\ UNCHANGED <<alive, disk, saveRaced>>
BY DEF CreateTab, Begin, Job, TypeOK, Jobs, Idle, registry, shells

LEMMA AlsoSplitPane ==
  ASSUME TypeOK, NEW w \in Workers, NEW t \in Tabs, NEW s \in Ids, SplitPane(w, t, s)
  PROVE  /\ job'[w].kill = None
         /\ overlapped' = (overlapped \/ \E v \in Workers : Busy(v) /\ job[v].tab = t)
         /\ UNCHANGED <<alive, disk, saveRaced>>
BY DEF SplitPane, Begin, Job, PaneJob, TypeOK, Jobs, Idle, registry, shells

LEMMA AlsoClosePane ==
  ASSUME TypeOK, NEW w \in Workers, NEW t \in Tabs, NEW s \in Ids, ClosePane(w, t, s)
  PROVE  /\ job'[w].kill = None
         /\ overlapped' = (overlapped \/ \E v \in Workers : Busy(v) /\ job[v].tab = t)
         /\ job'[w].op = "closeLast" => layout[t] = {s}
         /\ UNCHANGED <<alive, disk, saveRaced>>
BY DEF ClosePane, Begin, Job, PaneJob, TypeOK, Jobs, Idle, registry, shells

LEMMA AlsoReplaceTabSessions ==
  ASSUME TypeOK, NEW w \in Workers, NEW t \in Tabs, ReplaceTabSessions(w, t)
  PROVE  /\ job'[w].kill = None
         /\ overlapped' = (overlapped \/ \E v \in Workers : Busy(v) /\ job[v].tab = t)
         /\ UNCHANGED <<alive, disk, saveRaced>>
BY DEF ReplaceTabSessions, Begin, Job, TypeOK, Jobs, Idle, registry, shells

LEMMA AlsoDeleteTab ==
  ASSUME TypeOK, NEW w \in Workers, NEW t \in Tabs, DeleteTab(w, t)
  PROVE  /\ job'[w].kill = None
         /\ overlapped' = (overlapped \/ \E v \in Workers : Busy(v) /\ job[v].tab = t)
         /\ UNCHANGED <<alive, disk, saveRaced>>
BY DEF DeleteTab, Begin, Job, TypeOK, Jobs, Idle, shells

LEMMA AlsoDeleteSession ==
  ASSUME TypeOK, NEW w \in Workers, NEW s \in Ids, DeleteSession(w, s)
  PROVE  job'[w].kill = None /\ UNCHANGED <<alive, disk, saveRaced, overlapped>>
BY DEF DeleteSession, Job, TypeOK, Jobs, Idle, registry, shells

LEMMA AlsoAttachSession ==
  ASSUME TypeOK, NEW w \in Workers, NEW t \in Tabs, NEW s \in Ids, AttachSession(w, t, s)
  PROVE  /\ job'[w].kill = None
         /\ overlapped' = (overlapped \/ \E v \in Workers : Busy(v) /\ job[v].tab = t)
         /\ UNCHANGED <<alive, disk, saveRaced>>
BY DEF AttachSession, Begin, Job, PaneJob, TypeOK, Jobs, Idle, registry, shells

LEMMA AlsoSaveState ==
  ASSUME TypeOK, NEW w \in Workers, SaveState(w)
  PROVE  job'[w].kill = None /\ UNCHANGED <<alive, disk, saveRaced, overlapped>>
BY DEF SaveState, Job, TypeOK, Jobs, Idle, registry, shells, history

LEMMA AlsoCheckDead ==
  ASSUME TypeOK, NEW w \in Workers, CheckDead(w)
  PROVE  /\ (job'[w].kill = None \/ job'[w].kill = job[w].kill)
         /\ job'[w].at = "spawn" => sessions[job[w].sid] # None /\ ~alive[sessions[job[w].sid]]
         /\ UNCHANGED <<alive, disk, saveRaced, overlapped>>
BY DEF CheckDead, Go, Done, TypeOK, Jobs, Idle, registry, shells, history

LEMMA AlsoSpawn ==
  ASSUME TypeOK, NEW w \in Workers, Spawn(w)
  PROVE  /\ job'[w].kill = job[w].kill
         /\ alive' = [alive EXCEPT ![spawned + 1] = TRUE]
         /\ UNCHANGED <<disk, saveRaced, overlapped>>
BY DEF Spawn, TypeOK, Jobs, Idle, registry, history

LEMMA AlsoSpawnFails ==
  ASSUME TypeOK, NEW w \in Workers, SpawnFails(w)
  PROVE  /\ (job'[w].kill = None \/ job'[w].kill = job[w].kill)
         /\ UNCHANGED <<alive, disk, saveRaced, overlapped>>
BY DEF SpawnFails, Done, TypeOK, Jobs, Idle, registry, shells, history

LEMMA AlsoRegister ==
  ASSUME TypeOK, PlaceInv, NEW w \in Workers, Register(w)
  PROVE  /\ (job'[w].kill = None \/ job'[w].kill = job[w].kill)
         /\ UNCHANGED <<alive, disk, saveRaced, overlapped>>
<1> USE DEF TypeOK, Jobs, Idle, shells, history
<1>1. job[w].op \in {"create", "split", "closeLast", "replace", "revive"}
  BY PlaceFacts DEF Register, PlaceInv
<1>2. CASE job[w].op = "create"
  BY <1>2 DEF Register, Go
<1>3. CASE job[w].op = "split"
  BY <1>3 DEF Register, Go
<1>4. CASE job[w].op = "closeLast"
  BY <1>4 DEF Register, Go
<1>5. CASE job[w].op = "revive"
  BY <1>5 DEF Register, Done
<1>6. CASE job[w].op = "replace"
  BY <1>6 DEF Register
<1>7. QED
  BY <1>1, <1>2, <1>3, <1>4, <1>5, <1>6

LEMMA AlsoAddTab ==
  ASSUME TypeOK, NEW w \in Workers, AddTab(w)
  PROVE  job'[w].kill = None /\ UNCHANGED <<alive, disk, saveRaced, overlapped>>
BY DEF AddTab, Done, TypeOK, Jobs, Idle, shells, history

LEMMA AlsoInsert ==
  ASSUME TypeOK, NEW w \in Workers, Insert(w)
  PROVE  /\ job'[w].kill = job[w].kill /\ UNCHANGED <<alive, disk, saveRaced, overlapped>>
         /\ IF job[w].sid \in layout[job[w].tab] THEN job'[w].at = "save" ELSE job'[w].at = "rollback"
BY DEF Insert, Go, TypeOK, Jobs, Idle, shells, history

LEMMA AlsoSwap ==
  ASSUME TypeOK, NEW w \in Workers, Swap(w)
  PROVE  job'[w].kill = job[w].kill /\ UNCHANGED <<alive, disk, saveRaced, overlapped>>
BY DEF Swap, TypeOK, Jobs, Idle, shells, history

LEMMA AlsoUnlink ==
  ASSUME TypeOK, NEW w \in Workers, Unlink(w)
  PROVE  /\ (job'[w].kill = None \/ job'[w].kill = job[w].kill)
         /\ UNCHANGED <<alive, disk, saveRaced, overlapped>>
         /\ job'[w].at = "purge" => job[w].sid \in layout[job[w].tab] /\ layout[job[w].tab] # {job[w].sid}
BY DEF Unlink, Done, TypeOK, Jobs, Idle, shells, history

LEMMA AlsoCopyLayout ==
  ASSUME TypeOK, NEW w \in Workers, CopyLayout(w)
  PROVE  job'[w].kill = job[w].kill /\ UNCHANGED <<alive, disk, saveRaced, overlapped>>
BY DEF CopyLayout, TypeOK, Jobs, Idle, registry, shells, history

LEMMA AlsoCollectOld ==
  ASSUME TypeOK, NEW w \in Workers, CollectOld(w)
  PROVE  job'[w].kill = job[w].kill /\ UNCHANGED <<alive, disk, saveRaced, overlapped>>
BY DEF CollectOld, TypeOK, Jobs, Idle, registry, shells, history

LEMMA AlsoCollect ==
  ASSUME TypeOK, NEW w \in Workers, Collect(w)
  PROVE  job'[w].kill = job[w].kill /\ UNCHANGED <<alive, disk, saveRaced, overlapped>>
BY DEF Collect, TypeOK, Jobs, Idle, registry, shells, history

LEMMA AlsoPurge ==
  ASSUME TypeOK, NEW w \in Workers, NEW s \in Ids, Purge(w, s)
  PROVE  /\ job[w].kill = None /\ job'[w].kill = sessions[s]
         /\ UNCHANGED <<alive, disk, saveRaced, overlapped>>
BY DEF Purge, TypeOK, Jobs, Idle, shells, history

LEMMA AlsoKill ==
  ASSUME TypeOK, NEW w \in Workers, Kill(w)
  PROVE  /\ job[w].kill # None /\ job'[w].kill = None
         /\ alive' = [alive EXCEPT ![job[w].kill] = FALSE]
         /\ UNCHANGED <<disk, saveRaced, overlapped>>
BY DEF Kill, TypeOK, Jobs, Idle, registry, history

LEMMA AlsoPurged ==
  ASSUME TypeOK, NEW w \in Workers, Purged(w)
  PROVE  /\ job[w].kill = None /\ job[w].todo = {} /\ job'[w].kill = None
         /\ UNCHANGED <<alive, disk, saveRaced, overlapped>>
BY DEF Purged, Go, Done, TypeOK, Jobs, Idle, registry, shells, history

LEMMA AlsoCapture ==
  ASSUME TypeOK, NEW w \in Workers, Capture(w)
  PROVE  /\ job'[w].kill = job[w].kill /\ job'[w].tabs = live
         /\ saveRaced' = (saveRaced \/ \E v \in Workers : job[v].at = "write")
         /\ UNCHANGED <<alive, disk, overlapped>>
BY DEF Capture, TypeOK, Jobs, Idle, registry, shells

LEMMA AlsoWriteState ==
  ASSUME TypeOK, NEW w \in Workers, WriteState(w)
  PROVE  /\ job'[w].kill = None /\ UNCHANGED <<alive, saveRaced, overlapped>>
         /\ disk' = [t \in Tabs |-> IF t \in job[w].tabs THEN layout[t] ELSE None]
BY DEF WriteState, Done, TypeOK, Jobs, Idle, registry, shells, history

\* A step that leaves tabs and file alone, and no less to be saved than before.
LEMMA DiskKept ==
  ASSUME DiskInv, NEW w \in Workers, \A v \in Workers \ {w} : job'[v] = job[v],
         UNCHANGED <<live, layout, disk, saveRaced>>,
         job[w].at # "write", job'[w].at # "write",
         job[w].at \in {"collect", "purge", "save"} => job'[w].at \in {"collect", "purge", "save"}
  PROVE  DiskInv'
<1>1. \A v \in Workers : WillSave(v) => WillSave(v)'
  BY DEF WillSave
<1>2. \A v \in Workers : job'[v].at = "write" <=> job[v].at = "write"
  OBVIOUS
<1>3. \A v \in Workers : job[v].at = "write" => job'[v].tabs = job[v].tabs
  OBVIOUS
<1>4. \A t \in Tabs : Right(t)' <=> Right(t)
  BY DEF Right
<1>5. QED
  BY <1>1, <1>2, <1>3, <1>4 DEF DiskInv

\* A step after which the worker will save.
LEMMA DiskDirty ==
  ASSUME DiskInv, NEW w \in Workers, \A v \in Workers \ {w} : job'[v] = job[v],
         saveRaced' = saveRaced, job[w].at # "write", job'[w].at \in {"collect", "purge", "save"}
  PROVE  DiskInv'
<1>1. WillSave(w)'
  BY DEF WillSave
<1>2. \A v \in Workers : job'[v].at = "write" <=> job[v].at = "write"
  OBVIOUS
<1>3. QED
  BY <1>1, <1>2 DEF DiskInv

\* What is to be saved is saved.
LEMMA DiskStep ==
  TypeOK /\ PlaceInv /\ TabInv /\ ShellInv /\ DiskInv /\ [Next]_vars => DiskInv'
<1> SUFFICES ASSUME TypeOK, PlaceInv, TabInv, ShellInv, DiskInv, [Next]_vars PROVE DiskInv'
  OBVIOUS
<1>0. Typed
  BY JobTypes
<1>1. ASSUME NEW w \in Workers, NEW t \in Tabs, CreateTab(w, t) PROVE DiskInv'
  <2>1. /\ \A v \in Workers \ {w} : job'[v] = job[v]
        /\ job[w].at # "write" /\ job'[w].at # "write"
        /\ job[w].at \in {"collect", "purge", "save"} => job'[w].at \in {"collect", "purge", "save"}
        /\ UNCHANGED <<live, layout>>
    BY <1>1, AfterCreateTab DEF Begins, Rest, Becomes
  <2>2. UNCHANGED <<disk, saveRaced>>
    BY <1>1, AlsoCreateTab
  <2>3. QED
    BY <2>1, <2>2, DiskKept
<1>2. ASSUME NEW w \in Workers, NEW t \in Tabs, NEW s \in Ids, SplitPane(w, t, s) PROVE DiskInv'
  <2>1. /\ \A v \in Workers \ {w} : job'[v] = job[v]
        /\ job[w].at # "write" /\ job'[w].at # "write"
        /\ job[w].at \in {"collect", "purge", "save"} => job'[w].at \in {"collect", "purge", "save"}
        /\ UNCHANGED <<live, layout>>
    BY <1>2, AfterSplitPane DEF Begins, Rest, Becomes
  <2>2. UNCHANGED <<disk, saveRaced>>
    BY <1>2, AlsoSplitPane
  <2>3. QED
    BY <2>1, <2>2, DiskKept
<1>3. ASSUME NEW w \in Workers, NEW t \in Tabs, NEW s \in Ids, ClosePane(w, t, s) PROVE DiskInv'
  <2>1. /\ \A v \in Workers \ {w} : job'[v] = job[v]
        /\ job[w].at # "write" /\ job'[w].at # "write"
        /\ job[w].at \in {"collect", "purge", "save"} => job'[w].at \in {"collect", "purge", "save"}
        /\ UNCHANGED <<live, layout>>
    BY <1>3, AfterClosePane DEF Begins, Rest, Becomes
  <2>2. UNCHANGED <<disk, saveRaced>>
    BY <1>3, AlsoClosePane
  <2>3. QED
    BY <2>1, <2>2, DiskKept
<1>4. ASSUME NEW w \in Workers, NEW t \in Tabs, ReplaceTabSessions(w, t) PROVE DiskInv'
  <2>1. /\ \A v \in Workers \ {w} : job'[v] = job[v]
        /\ job[w].at # "write" /\ job'[w].at # "write"
        /\ job[w].at \in {"collect", "purge", "save"} => job'[w].at \in {"collect", "purge", "save"}
        /\ UNCHANGED <<live, layout>>
    BY <1>4, AfterReplaceTabSessions DEF Begins, Rest, Becomes
  <2>2. UNCHANGED <<disk, saveRaced>>
    BY <1>4, AlsoReplaceTabSessions
  <2>3. QED
    BY <2>1, <2>2, DiskKept
<1>5. ASSUME NEW w \in Workers, NEW t \in Tabs, DeleteTab(w, t) PROVE DiskInv'
  <2>1. /\ \A v \in Workers \ {w} : job'[v] = job[v]
        /\ job[w].at # "write" /\ job'[w].at \in {"collect", "purge", "save"}
    BY <1>5, AfterDeleteTab DEF Begins, Becomes
  <2>2. saveRaced' = saveRaced
    BY <1>5, AlsoDeleteTab
  <2>3. QED
    BY <2>1, <2>2, DiskDirty
<1>6. ASSUME NEW w \in Workers, NEW s \in Ids, DeleteSession(w, s) PROVE DiskInv'
  <2>1. /\ \A v \in Workers \ {w} : job'[v] = job[v]
        /\ job[w].at # "write" /\ job'[w].at # "write"
        /\ job[w].at \in {"collect", "purge", "save"} => job'[w].at \in {"collect", "purge", "save"}
        /\ UNCHANGED <<live, layout>>
    BY <1>6, AfterDeleteSession DEF Begins, Becomes
  <2>2. UNCHANGED <<disk, saveRaced>>
    BY <1>6, AlsoDeleteSession
  <2>3. QED
    BY <2>1, <2>2, DiskKept
<1>7. ASSUME NEW w \in Workers, NEW t \in Tabs, NEW s \in Ids, AttachSession(w, t, s) PROVE DiskInv'
  <2>1. /\ \A v \in Workers \ {w} : job'[v] = job[v]
        /\ job[w].at # "write" /\ job'[w].at # "write"
        /\ job[w].at \in {"collect", "purge", "save"} => job'[w].at \in {"collect", "purge", "save"}
        /\ UNCHANGED <<live, layout>>
    BY <1>7, AfterAttachSession DEF Begins, Rest, Becomes
  <2>2. UNCHANGED <<disk, saveRaced>>
    BY <1>7, AlsoAttachSession
  <2>3. QED
    BY <2>1, <2>2, DiskKept
<1>8. ASSUME NEW w \in Workers, SaveState(w) PROVE DiskInv'
  <2>1. /\ \A v \in Workers \ {w} : job'[v] = job[v]
        /\ job[w].at # "write" /\ job'[w].at # "write"
        /\ job[w].at \in {"collect", "purge", "save"} => job'[w].at \in {"collect", "purge", "save"}
        /\ UNCHANGED <<live, layout>>
    BY <1>8, AfterSaveState DEF Begins, Rest, Becomes
  <2>2. UNCHANGED <<disk, saveRaced>>
    BY <1>8, AlsoSaveState
  <2>3. QED
    BY <2>1, <2>2, DiskKept
<1>9. ASSUME NEW w \in Workers, CheckDead(w) PROVE DiskInv'
  <2>1. /\ \A v \in Workers \ {w} : job'[v] = job[v]
        /\ job[w].at # "write" /\ job'[w].at # "write"
        /\ job[w].at \in {"collect", "purge", "save"} => job'[w].at \in {"collect", "purge", "save"}
        /\ UNCHANGED <<live, layout>>
    BY <1>9, AfterCheckDead DEF Moves, Ends, Rest, Becomes
  <2>2. UNCHANGED <<disk, saveRaced>>
    BY <1>9, AlsoCheckDead
  <2>3. QED
    BY <2>1, <2>2, DiskKept
<1>10. ASSUME NEW w \in Workers, Spawn(w) PROVE DiskInv'
  <2>1. /\ \A v \in Workers \ {w} : job'[v] = job[v]
        /\ job[w].at # "write" /\ job'[w].at # "write"
        /\ job[w].at \in {"collect", "purge", "save"} => job'[w].at \in {"collect", "purge", "save"}
        /\ UNCHANGED <<live, layout>>
    BY <1>10, AfterSpawn DEF Becomes
  <2>2. UNCHANGED <<disk, saveRaced>>
    BY <1>10, AlsoSpawn
  <2>3. QED
    BY <2>1, <2>2, DiskKept
<1>11. ASSUME NEW w \in Workers, SpawnFails(w) PROVE DiskInv'
  <2>1. /\ \A v \in Workers \ {w} : job'[v] = job[v]
        /\ job[w].at # "write" /\ job'[w].at # "write"
        /\ job[w].at \in {"collect", "purge", "save"} => job'[w].at \in {"collect", "purge", "save"}
        /\ UNCHANGED <<live, layout>>
    BY <1>11, AfterSpawnFails DEF Moves, Ends, Rest, Becomes
  <2>2. UNCHANGED <<disk, saveRaced>>
    BY <1>11, AlsoSpawnFails
  <2>3. QED
    BY <2>1, <2>2, DiskKept
<1>12. ASSUME NEW w \in Workers, Register(w) PROVE DiskInv'
  <2>1. /\ \A v \in Workers \ {w} : job'[v] = job[v]
        /\ job[w].at # "write" /\ job'[w].at # "write"
        /\ job[w].at \in {"collect", "purge", "save"} => job'[w].at \in {"collect", "purge", "save"}
        /\ UNCHANGED <<live, layout>>
    BY <1>12, AfterRegister DEF Moves, Ends, Becomes
  <2>2. UNCHANGED <<disk, saveRaced>>
    BY <1>12, AlsoRegister
  <2>3. QED
    BY <2>1, <2>2, DiskKept
<1>13. ASSUME NEW w \in Workers, AddTab(w) PROVE DiskInv'
  <2> DEFINE t == job[w].tab
  <2>1. /\ \A v \in Workers \ {w} : job'[v] = job[v]
        /\ job[w].at = "addTab" /\ job'[w].at = "idle"
        /\ live' = live \cup {t} /\ layout' = [layout EXCEPT ![t] = {job[w].new}]
    BY <1>13, AfterAddTab DEF Ends, Becomes
  <2>2. UNCHANGED <<disk, saveRaced>>
    BY <1>13, AlsoAddTab
  <2>3. t \notin live
    <3>1. job[w].op = "create"
      BY <1>0, <2>1, PlaceFacts DEF PlaceInv, Typed
    <3>2. QED
      BY <3>1 DEF TabInv
  <2>4. \A u \in Tabs : Right(u) => Right(u)'
    BY <1>0, <2>1, <2>2, <2>3 DEF Right
  <2>5. \A v \in Workers : WillSave(v)' <=> WillSave(v)
    BY <2>1 DEF WillSave
  <2>6. \A v \in Workers : job'[v].at = "write" <=> job[v].at = "write"
    BY <2>1
  <2>7. \A v \in Workers : job[v].at = "write" => job'[v].tabs = job[v].tabs
    BY <2>1
  <2>8. QED
    BY <2>1, <2>2, <2>4, <2>5, <2>6, <2>7 DEF DiskInv
<1>14. ASSUME NEW w \in Workers, Insert(w) PROVE DiskInv'
  <2>1. /\ \A v \in Workers \ {w} : job'[v] = job[v]
        /\ job[w].at = "insert" /\ UNCHANGED live
        /\ job'[w].at = "save" \/ (job'[w].at = "rollback" /\ layout' = layout)
    BY <1>14, AfterInsert DEF Moves, Becomes
  <2>2. UNCHANGED <<disk, saveRaced>>
    BY <1>14, AlsoInsert
  <2>3. CASE job'[w].at = "save"
    BY <2>1, <2>2, <2>3, DiskDirty
  <2>4. CASE job'[w].at = "rollback" /\ layout' = layout
    BY <2>1, <2>2, <2>4, DiskKept
  <2>5. QED
    BY <2>1, <2>3, <2>4
<1>15. ASSUME NEW w \in Workers, Swap(w) PROVE DiskInv'
  <2>1. /\ \A v \in Workers \ {w} : job'[v] = job[v]
        /\ job[w].at # "write" /\ job'[w].at \in {"collect", "purge", "save"}
    BY <1>15, AfterSwap DEF Moves, Becomes
  <2>2. saveRaced' = saveRaced
    BY <1>15, AlsoSwap
  <2>3. QED
    BY <2>1, <2>2, DiskDirty
<1>16. ASSUME NEW w \in Workers, Unlink(w) PROVE DiskInv'
  <2>1. /\ \A v \in Workers \ {w} : job'[v] = job[v]
        /\ job[w].at = "unlink" /\ UNCHANGED live
        /\ job'[w].at = "purge" \/ (job'[w].at = "idle" /\ layout' = layout)
    BY <1>16, AfterUnlink DEF Moves, Ends, Becomes
  <2>2. UNCHANGED <<disk, saveRaced>>
    BY <1>16, AlsoUnlink
  <2>3. CASE job'[w].at = "purge"
    BY <2>1, <2>2, <2>3, DiskDirty
  <2>4. CASE job'[w].at = "idle" /\ layout' = layout
    BY <2>1, <2>2, <2>4, DiskKept
  <2>5. QED
    BY <2>1, <2>3, <2>4
<1>17. ASSUME NEW w \in Workers, CopyLayout(w) PROVE DiskInv'
  <2>1. /\ \A v \in Workers \ {w} : job'[v] = job[v]
        /\ job[w].at # "write" /\ job'[w].at # "write"
        /\ job[w].at \in {"collect", "purge", "save"} => job'[w].at \in {"collect", "purge", "save"}
        /\ UNCHANGED <<live, layout>>
    BY <1>17, AfterCopyLayout DEF Moves, Rest, Becomes
  <2>2. UNCHANGED <<disk, saveRaced>>
    BY <1>17, AlsoCopyLayout
  <2>3. QED
    BY <2>1, <2>2, DiskKept
<1>18. ASSUME NEW w \in Workers, CollectOld(w) PROVE DiskInv'
  <2>1. /\ \A v \in Workers \ {w} : job'[v] = job[v]
        /\ job[w].at # "write" /\ job'[w].at # "write"
        /\ job[w].at \in {"collect", "purge", "save"} => job'[w].at \in {"collect", "purge", "save"}
        /\ UNCHANGED <<live, layout>>
    BY <1>18, AfterCollectOld DEF Moves, Rest, Becomes
  <2>2. UNCHANGED <<disk, saveRaced>>
    BY <1>18, AlsoCollectOld
  <2>3. QED
    BY <2>1, <2>2, DiskKept
<1>19. ASSUME NEW w \in Workers, Collect(w) PROVE DiskInv'
  <2>1. /\ \A v \in Workers \ {w} : job'[v] = job[v]
        /\ job[w].at # "write" /\ job'[w].at # "write"
        /\ job[w].at \in {"collect", "purge", "save"} => job'[w].at \in {"collect", "purge", "save"}
        /\ UNCHANGED <<live, layout>>
    BY <1>19, AfterCollect DEF Moves, Rest, Becomes
  <2>2. UNCHANGED <<disk, saveRaced>>
    BY <1>19, AlsoCollect
  <2>3. QED
    BY <2>1, <2>2, DiskKept
<1>20. ASSUME NEW w \in Workers, NEW s \in Ids, Purge(w, s) PROVE DiskInv'
  <2>1. /\ \A v \in Workers \ {w} : job'[v] = job[v]
        /\ job[w].at # "write" /\ job'[w].at # "write"
        /\ job[w].at \in {"collect", "purge", "save"} => job'[w].at \in {"collect", "purge", "save"}
        /\ UNCHANGED <<live, layout>>
    BY <1>20, AfterPurge DEF Moves, Becomes
  <2>2. UNCHANGED <<disk, saveRaced>>
    BY <1>20, AlsoPurge
  <2>3. QED
    BY <2>1, <2>2, DiskKept
<1>21. ASSUME NEW w \in Workers, Kill(w) PROVE DiskInv'
  <2>1. /\ \A v \in Workers \ {w} : job'[v] = job[v]
        /\ job[w].at # "write" /\ job'[w].at # "write"
        /\ job[w].at \in {"collect", "purge", "save"} => job'[w].at \in {"collect", "purge", "save"}
        /\ UNCHANGED <<live, layout>>
    BY <1>21, AfterKill, AlsoKill DEF Moves, Rest, Becomes, ShellInv
  <2>2. UNCHANGED <<disk, saveRaced>>
    BY <1>21, AlsoKill
  <2>3. QED
    BY <2>1, <2>2, DiskKept
<1>22. ASSUME NEW w \in Workers, Purged(w) PROVE DiskInv'
  <2>1. /\ \A v \in Workers \ {w} : job'[v] = job[v]
        /\ job[w].at # "write" /\ job'[w].at # "write"
        /\ job[w].at \in {"collect", "purge", "save"} => job'[w].at \in {"collect", "purge", "save"}
        /\ UNCHANGED <<live, layout>>
    BY <1>22, AfterPurged DEF Moves, Ends, Rest, Becomes
  <2>2. UNCHANGED <<disk, saveRaced>>
    BY <1>22, AlsoPurged
  <2>3. QED
    BY <2>1, <2>2, DiskKept
<1>23. ASSUME NEW w \in Workers, Capture(w) PROVE DiskInv'
  <2>1. /\ \A v \in Workers \ {w} : job'[v] = job[v]
        /\ job[w].at = "save" /\ job'[w].at = "write" /\ UNCHANGED live
    BY <1>23, AfterCapture DEF Moves, Rest, Becomes
  <2>2. /\ job'[w].tabs = live
        /\ saveRaced' = (saveRaced \/ \E v \in Workers : job[v].at = "write")
    BY <1>23, AlsoCapture
  <2>3. ASSUME ~saveRaced' PROVE \A v \in Workers : job'[v].at = "write" <=> v = w
    BY <2>1, <2>2, <2>3
  <2>4. QED
    BY <2>1, <2>2, <2>3 DEF DiskInv
<1>24. ASSUME NEW w \in Workers, WriteState(w) PROVE DiskInv'
  <2>1. /\ \A v \in Workers \ {w} : job'[v] = job[v]
        /\ job[w].at = "write" /\ job'[w].at = "idle" /\ UNCHANGED <<live, layout>>
    BY <1>24, AfterWriteState DEF Ends, Rest, Becomes
  <2>2. /\ saveRaced' = saveRaced
        /\ disk' = [t \in Tabs |-> IF t \in job[w].tabs THEN layout[t] ELSE None]
    BY <1>24, AlsoWriteState
  <2>3. ASSUME ~saveRaced' PROVE \A v \in Workers : job'[v].at # "write"
    BY <2>1, <2>2, <2>3 DEF DiskInv
  <2>4. job[w].tabs \subseteq live => \A t \in Tabs : Right(t)'
    BY <2>1, <2>2 DEF Right
  <2>5. \A v \in Workers : WillSave(v) => WillSave(v)'
    BY <2>1 DEF WillSave
  <2>6. QED
    BY <2>1, <2>2, <2>3, <2>4, <2>5 DEF DiskInv
<1>25. ASSUME NEW n \in Shells, ShellExit(n) PROVE DiskInv'
  BY <1>25 DEF ShellExit, registry, history, DiskInv, Right, WillSave
<1>26. CASE UNCHANGED vars
  BY <1>26 DEF vars, DiskInv, Right, WillSave
<1>27. QED
  BY <1>1, <1>2, <1>3, <1>4, <1>5, <1>6, <1>7, <1>8, <1>9, <1>10, <1>11, <1>12, <1>13, <1>14,
     <1>15, <1>16, <1>17, <1>18, <1>19, <1>20, <1>21, <1>22, <1>23, <1>24, <1>25, <1>26
  DEF Next, BeginStep, WorkStep

\* A step that registers and spawns nothing.
LEMMA ShellKept ==
  ASSUME ShellInv, NEW w \in Workers, \A v \in Workers \ {w} : job'[v] = job[v],
         UNCHANGED <<sessions, spawned, sidOf>>, \A n \in Shells : alive'[n] => alive[n],
         byHand \subseteq byHand', job'[w].op = "deleteSession" => byHand' # {},
         job'[w].at # "register", job'[w].kill # None => job'[w].at \in {"purge", "rollback"}
  PROVE  ShellInv'
<1>1. Registered' = Registered /\ Spawned' = Spawned
  BY DEF Registered, Spawned
<1>2. \A v \in Workers :
        /\ job'[v].kill # None => job'[v].at \in {"purge", "rollback"}
        /\ job'[v].at = "register" => job'[v] = job[v]
        /\ job'[v].op = "deleteSession" => byHand' # {}
  BY DEF ShellInv
<1>3. QED
  BY <1>1, <1>2 DEF ShellInv

\* A shell is registered under its id, over nothing or the one it revives.
LEMMA ShellStep ==
  TypeOK /\ PlaceInv /\ IdInv /\ FreshInv /\ ShellInv /\ [Next]_vars => ShellInv'
<1> SUFFICES ASSUME TypeOK, PlaceInv, IdInv, FreshInv, ShellInv, [Next]_vars PROVE ShellInv'
  OBVIOUS
<1>0. Typed
  BY JobTypes
<1>1. ASSUME NEW w \in Workers, NEW t \in Tabs, CreateTab(w, t) PROVE ShellInv'
  <2>1. /\ \A v \in Workers \ {w} : job'[v] = job[v]
        /\ UNCHANGED <<sessions, spawned, sidOf>> /\ byHand \subseteq byHand'
        /\ job'[w].at # "register" /\ (job'[w].op = "deleteSession" => byHand' # {})
    BY <1>1, AfterCreateTab DEF Begins, Rest, Becomes, ShellInv
  <2>2. job'[w].kill # None => job'[w].at \in {"purge", "rollback"}
    BY <1>1, AfterCreateTab, AlsoCreateTab DEF Begins, Rest, Becomes, ShellInv
  <2>3. \A n \in Shells : alive'[n] => alive[n]
    BY <1>1, AlsoCreateTab
  <2>4. QED
    BY <2>1, <2>2, <2>3, ShellKept
<1>2. ASSUME NEW w \in Workers, NEW t \in Tabs, NEW s \in Ids, SplitPane(w, t, s) PROVE ShellInv'
  <2>1. /\ \A v \in Workers \ {w} : job'[v] = job[v]
        /\ UNCHANGED <<sessions, spawned, sidOf>> /\ byHand \subseteq byHand'
        /\ job'[w].at # "register" /\ (job'[w].op = "deleteSession" => byHand' # {})
    BY <1>2, AfterSplitPane DEF Begins, Rest, Becomes, ShellInv
  <2>2. job'[w].kill # None => job'[w].at \in {"purge", "rollback"}
    BY <1>2, AfterSplitPane, AlsoSplitPane DEF Begins, Rest, Becomes, ShellInv
  <2>3. \A n \in Shells : alive'[n] => alive[n]
    BY <1>2, AlsoSplitPane
  <2>4. QED
    BY <2>1, <2>2, <2>3, ShellKept
<1>3. ASSUME NEW w \in Workers, NEW t \in Tabs, NEW s \in Ids, ClosePane(w, t, s) PROVE ShellInv'
  <2>1. /\ \A v \in Workers \ {w} : job'[v] = job[v]
        /\ UNCHANGED <<sessions, spawned, sidOf>> /\ byHand \subseteq byHand'
        /\ job'[w].at # "register" /\ (job'[w].op = "deleteSession" => byHand' # {})
    BY <1>3, AfterClosePane DEF Begins, Rest, Becomes, ShellInv
  <2>2. job'[w].kill # None => job'[w].at \in {"purge", "rollback"}
    BY <1>3, AfterClosePane, AlsoClosePane DEF Begins, Rest, Becomes, ShellInv
  <2>3. \A n \in Shells : alive'[n] => alive[n]
    BY <1>3, AlsoClosePane
  <2>4. QED
    BY <2>1, <2>2, <2>3, ShellKept
<1>4. ASSUME NEW w \in Workers, NEW t \in Tabs, ReplaceTabSessions(w, t) PROVE ShellInv'
  <2>1. /\ \A v \in Workers \ {w} : job'[v] = job[v]
        /\ UNCHANGED <<sessions, spawned, sidOf>> /\ byHand \subseteq byHand'
        /\ job'[w].at # "register" /\ (job'[w].op = "deleteSession" => byHand' # {})
    BY <1>4, AfterReplaceTabSessions DEF Begins, Rest, Becomes, ShellInv
  <2>2. job'[w].kill # None => job'[w].at \in {"purge", "rollback"}
    BY <1>4, AfterReplaceTabSessions, AlsoReplaceTabSessions DEF Begins, Rest, Becomes, ShellInv
  <2>3. \A n \in Shells : alive'[n] => alive[n]
    BY <1>4, AlsoReplaceTabSessions
  <2>4. QED
    BY <2>1, <2>2, <2>3, ShellKept
<1>5. ASSUME NEW w \in Workers, NEW t \in Tabs, DeleteTab(w, t) PROVE ShellInv'
  <2>1. /\ \A v \in Workers \ {w} : job'[v] = job[v]
        /\ UNCHANGED <<sessions, spawned, sidOf>> /\ byHand \subseteq byHand'
        /\ job'[w].at # "register" /\ (job'[w].op = "deleteSession" => byHand' # {})
    BY <1>5, AfterDeleteTab DEF Begins, Becomes, ShellInv
  <2>2. job'[w].kill # None => job'[w].at \in {"purge", "rollback"}
    BY <1>5, AfterDeleteTab, AlsoDeleteTab DEF Begins, Becomes, ShellInv
  <2>3. \A n \in Shells : alive'[n] => alive[n]
    BY <1>5, AlsoDeleteTab
  <2>4. QED
    BY <2>1, <2>2, <2>3, ShellKept
<1>6. ASSUME NEW w \in Workers, NEW s \in Ids, DeleteSession(w, s) PROVE ShellInv'
  <2>1. /\ \A v \in Workers \ {w} : job'[v] = job[v]
        /\ UNCHANGED <<sessions, spawned, sidOf>> /\ byHand \subseteq byHand'
        /\ job'[w].at # "register" /\ (job'[w].op = "deleteSession" => byHand' # {})
    BY <1>6, AfterDeleteSession DEF Begins, Becomes, ShellInv
  <2>2. job'[w].kill # None => job'[w].at \in {"purge", "rollback"}
    BY <1>6, AfterDeleteSession, AlsoDeleteSession DEF Begins, Becomes, ShellInv
  <2>3. \A n \in Shells : alive'[n] => alive[n]
    BY <1>6, AlsoDeleteSession
  <2>4. QED
    BY <2>1, <2>2, <2>3, ShellKept
<1>7. ASSUME NEW w \in Workers, NEW t \in Tabs, NEW s \in Ids, AttachSession(w, t, s) PROVE ShellInv'
  <2>1. /\ \A v \in Workers \ {w} : job'[v] = job[v]
        /\ UNCHANGED <<sessions, spawned, sidOf>> /\ byHand \subseteq byHand'
        /\ job'[w].at # "register" /\ (job'[w].op = "deleteSession" => byHand' # {})
    BY <1>7, AfterAttachSession DEF Begins, Rest, Becomes, ShellInv
  <2>2. job'[w].kill # None => job'[w].at \in {"purge", "rollback"}
    BY <1>7, AfterAttachSession, AlsoAttachSession DEF Begins, Rest, Becomes, ShellInv
  <2>3. \A n \in Shells : alive'[n] => alive[n]
    BY <1>7, AlsoAttachSession
  <2>4. QED
    BY <2>1, <2>2, <2>3, ShellKept
<1>8. ASSUME NEW w \in Workers, SaveState(w) PROVE ShellInv'
  <2>1. /\ \A v \in Workers \ {w} : job'[v] = job[v]
        /\ UNCHANGED <<sessions, spawned, sidOf>> /\ byHand \subseteq byHand'
        /\ job'[w].at # "register" /\ (job'[w].op = "deleteSession" => byHand' # {})
    BY <1>8, AfterSaveState DEF Begins, Rest, Becomes, ShellInv
  <2>2. job'[w].kill # None => job'[w].at \in {"purge", "rollback"}
    BY <1>8, AfterSaveState, AlsoSaveState DEF Begins, Rest, Becomes, ShellInv
  <2>3. \A n \in Shells : alive'[n] => alive[n]
    BY <1>8, AlsoSaveState
  <2>4. QED
    BY <2>1, <2>2, <2>3, ShellKept
<1>9. ASSUME NEW w \in Workers, CheckDead(w) PROVE ShellInv'
  <2>1. /\ \A v \in Workers \ {w} : job'[v] = job[v]
        /\ UNCHANGED <<sessions, spawned, sidOf>> /\ byHand \subseteq byHand'
        /\ job'[w].at # "register" /\ (job'[w].op = "deleteSession" => byHand' # {})
    BY <1>9, AfterCheckDead DEF Moves, Ends, Rest, Becomes, ShellInv
  <2>2. job'[w].kill # None => job'[w].at \in {"purge", "rollback"}
    BY <1>9, AfterCheckDead, AlsoCheckDead DEF Moves, Ends, Rest, Becomes, ShellInv
  <2>3. \A n \in Shells : alive'[n] => alive[n]
    BY <1>9, AlsoCheckDead
  <2>4. QED
    BY <2>1, <2>2, <2>3, ShellKept
<1>10. ASSUME NEW w \in Workers, Spawn(w) PROVE ShellInv'
  <2> DEFINE n == spawned + 1
  <2>1. /\ \A v \in Workers \ {w} : job'[v] = job[v]
        /\ job[w].at = "spawn" /\ job'[w].at = "register" /\ job'[w].new = n
        /\ job'[w].op = job[w].op /\ job'[w].sid = job[w].sid
        /\ UNCHANGED <<sessions, byHand>>
        /\ spawned' = n /\ n \in Shells
        /\ sidOf' = [sidOf EXCEPT ![n] = IF job[w].op = "revive" THEN job[w].sid ELSE @]
    BY <1>0, <1>10, AfterSpawn, RegistryAssumption DEF Becomes, Typed, Shells
  <2>2. job'[w].kill = job[w].kill /\ alive' = [alive EXCEPT ![n] = TRUE]
    BY <1>10, AlsoSpawn
  <2>3. Spawned' = Spawned \cup {n} /\ n \notin Spawned
    BY <1>0, <2>1 DEF Spawned, Typed
  <2>4. Registered' = Registered
    BY <2>1 DEF Registered
  <2>5. \A m \in Shells : m # n => sidOf'[m] = sidOf[m]
    BY <1>0, <2>1 DEF Typed, Ids
  <2>6. \A s \in Registered' : sessions'[s] \in Spawned' /\ sidOf'[sessions'[s]] = s
    <3>1. Spawned \subseteq Shells
      BY <1>0, RegistryAssumption DEF Spawned, Shells, Typed
    <3>2. QED
      BY <2>1, <2>3, <2>4, <2>5, <3>1 DEF ShellInv
  <2>7. \A m \in Shells : alive'[m] => m \in Spawned'
    BY <2>2, <2>3 DEF ShellInv, TypeOK
  <2>8. sessions[n] = None
    BY <2>1, <2>3 DEF IdInv, Registered, Ids
  <2>9. ASSUME NEW v \in Workers
        PROVE  /\ job'[v].kill # None => job'[v].at \in {"purge", "rollback"}
               /\ job'[v].at = "register" => IF job'[v].op = "revive" THEN sidOf'[job'[v].new] = job'[v].sid
                                                                     ELSE sessions'[job'[v].new] = None
               /\ job'[v].op = "deleteSession" => byHand' # {}
    <3>1. CASE v = w
      <4>1. job[w].kill = None
        BY <2>1 DEF ShellInv
      <4>2. job[w].op = "revive" => sidOf'[n] = job[w].sid
        BY <1>0, <2>1 DEF Typed, Ids
      <4>3. QED
        BY <2>1, <2>2, <2>8, <3>1, <4>1, <4>2 DEF ShellInv
    <3>2. CASE v # w
      <4>1. job'[v] = job[v]
        BY <2>1, <3>2
      <4>2. job[v].at = "register" => job[v].new \in Spawned
        BY DEF IdInv, PlaceInv
      <4>3. job[v].at = "register" => sidOf'[job[v].new] = sidOf[job[v].new]
        <5>1. Spawned \subseteq Shells
          BY <1>0, RegistryAssumption DEF Spawned, Shells, Typed
        <5>2. QED
          BY <2>3, <2>5, <4>2, <5>1
      <4>4. QED
        BY <2>1, <4>1, <4>3 DEF ShellInv
    <3>3. QED
      BY <3>1, <3>2
  <2>10. QED
    BY <2>6, <2>7, <2>9 DEF ShellInv
<1>11. ASSUME NEW w \in Workers, SpawnFails(w) PROVE ShellInv'
  <2>1. /\ \A v \in Workers \ {w} : job'[v] = job[v]
        /\ UNCHANGED <<sessions, spawned, sidOf>> /\ byHand \subseteq byHand'
        /\ job'[w].at # "register" /\ (job'[w].op = "deleteSession" => byHand' # {})
    BY <1>11, AfterSpawnFails DEF Moves, Ends, Rest, Becomes, ShellInv
  <2>2. job'[w].kill # None => job'[w].at \in {"purge", "rollback"}
    BY <1>11, AfterSpawnFails, AlsoSpawnFails DEF Moves, Ends, Rest, Becomes, ShellInv
  <2>3. \A n \in Shells : alive'[n] => alive[n]
    BY <1>11, AlsoSpawnFails
  <2>4. QED
    BY <2>1, <2>2, <2>3, ShellKept
<1>12. ASSUME NEW w \in Workers, Register(w) PROVE ShellInv'
  <2> DEFINE n == job[w].new
             s == sidOf[n]
  <2>1. /\ \A v \in Workers \ {w} : job'[v] = job[v]
        /\ job[w].at = "register" /\ sessions' = [sessions EXCEPT ![s] = n]
        /\ UNCHANGED <<spawned, sidOf, byHand>>
    BY <1>12, AfterRegister DEF Moves, Ends, Becomes
  <2>2. job'[w].at \in {"addTab", "insert", "swap", "spawn", "idle"}
    BY <1>12, AfterRegister DEF Moves, Ends, Becomes
  <2>3. job'[w].op = job[w].op \/ job'[w].op = "none"
    BY <1>12, AfterRegister DEF Moves, Ends, Becomes
  <2>4. alive' = alive /\ (job'[w].kill = None \/ job'[w].kill = job[w].kill)
    BY <1>12, AlsoRegister
  <2>5. n \in Spawned /\ n \in Shells /\ s \in Ids /\ s \in Spawned
    <3>1. n \in Spawned
      BY <2>1 DEF IdInv, PlaceInv
    <3>2. n \in Shells
      BY <1>0, <3>1, RegistryAssumption DEF Spawned, Shells, Typed
    <3>3. QED
      BY <1>0, <3>1, <3>2 DEF Typed, IdInv, Ids
  <2>6. \A r \in Registered' : sessions'[r] \in Spawned' /\ sidOf'[sessions'[r]] = r
    <3>1. Spawned' = Spawned
      BY <2>1 DEF Spawned
    <3>2. ASSUME NEW r \in Registered' PROVE sessions'[r] \in Spawned /\ sidOf[sessions'[r]] = r
      <4>1. CASE r = s
        BY <1>0, <2>1, <2>5, <4>1 DEF Typed
      <4>2. CASE r # s
        BY <1>0, <2>1, <3>2, <4>2 DEF Typed, Registered, ShellInv
      <4>3. QED
        BY <4>1, <4>2
    <3>3. QED
      BY <2>1, <3>1, <3>2
  <2>7. \A m \in Shells : alive'[m] => m \in Spawned'
    BY <2>1, <2>4 DEF ShellInv, Spawned
  <2>8. ASSUME NEW v \in Workers, v # w, job[v].at = "register", job[v].op # "revive"
        PROVE  sessions'[job[v].new] = None
    <3>1. job[v].new \in InHand(v) /\ job[v].new \in Fresh(v)
      BY <2>8 DEF InHand, Fresh
    <3>2. CASE job[w].op = "revive"
      <4>1. s = job[w].sid
        BY <2>1, <3>2 DEF ShellInv
      <4>2. s \in Old(w)
        BY <2>5, <3>2, <4>1, NoneFacts DEF Old
      <4>3. job[v].new # s
        BY <3>1, <4>2 DEF FreshInv
      <4>4. QED
        BY <1>0, <2>1, <2>8, <4>3 DEF Typed, ShellInv
    <3>3. CASE job[w].op # "revive"
      <4>1. n \in InHand(w) /\ n \in Fresh(w)
        BY <2>1, <3>3 DEF InHand, Fresh
      <4>2. s = n
        BY <4>1 DEF FreshInv
      <4>3. job[v].new # s
        BY <2>8, <3>1, <4>1, <4>2 DEF FreshInv
      <4>4. QED
        BY <1>0, <2>1, <2>8, <4>3 DEF Typed, ShellInv
    <3>4. QED
      BY <3>2, <3>3
  <2>9. job[w].kill = None
    BY <2>1 DEF ShellInv
  <2>10. \A v \in Workers : v # w => job'[v] = job[v]
    BY <2>1
  <2>11. ASSUME NEW v \in Workers
         PROVE  /\ job'[v].kill # None => job'[v].at \in {"purge", "rollback"}
                /\ job'[v].at = "register" => IF job'[v].op = "revive" THEN sidOf'[job'[v].new] = job'[v].sid
                                                                      ELSE sessions'[job'[v].new] = None
                /\ job'[v].op = "deleteSession" => byHand' # {}
    <3>1. CASE v = w
      BY <2>1, <2>2, <2>3, <2>4, <2>9, <3>1 DEF ShellInv
    <3>2. CASE v # w
      BY <2>1, <2>8, <2>10, <3>2 DEF ShellInv
    <3>3. QED
      BY <3>1, <3>2
  <2>12. QED
    BY <2>6, <2>7, <2>11 DEF ShellInv
<1>13. ASSUME NEW w \in Workers, AddTab(w) PROVE ShellInv'
  <2>1. /\ \A v \in Workers \ {w} : job'[v] = job[v]
        /\ UNCHANGED <<sessions, spawned, sidOf>> /\ byHand \subseteq byHand'
        /\ job'[w].at # "register" /\ (job'[w].op = "deleteSession" => byHand' # {})
    BY <1>13, AfterAddTab DEF Ends, Becomes, ShellInv
  <2>2. job'[w].kill # None => job'[w].at \in {"purge", "rollback"}
    BY <1>13, AfterAddTab, AlsoAddTab DEF Ends, Becomes, ShellInv
  <2>3. \A n \in Shells : alive'[n] => alive[n]
    BY <1>13, AlsoAddTab
  <2>4. QED
    BY <2>1, <2>2, <2>3, ShellKept
<1>14. ASSUME NEW w \in Workers, Insert(w) PROVE ShellInv'
  <2>1. /\ \A v \in Workers \ {w} : job'[v] = job[v]
        /\ UNCHANGED <<sessions, spawned, sidOf>> /\ byHand \subseteq byHand'
        /\ job'[w].at # "register" /\ (job'[w].op = "deleteSession" => byHand' # {})
    BY <1>14, AfterInsert DEF Moves, Becomes, ShellInv
  <2>2. job'[w].kill # None => job'[w].at \in {"purge", "rollback"}
    BY <1>14, AfterInsert, AlsoInsert DEF Moves, Becomes, ShellInv
  <2>3. \A n \in Shells : alive'[n] => alive[n]
    BY <1>14, AlsoInsert
  <2>4. QED
    BY <2>1, <2>2, <2>3, ShellKept
<1>15. ASSUME NEW w \in Workers, Swap(w) PROVE ShellInv'
  <2>1. /\ \A v \in Workers \ {w} : job'[v] = job[v]
        /\ UNCHANGED <<sessions, spawned, sidOf>> /\ byHand \subseteq byHand'
        /\ job'[w].at # "register" /\ (job'[w].op = "deleteSession" => byHand' # {})
    BY <1>15, AfterSwap DEF Moves, Becomes, ShellInv
  <2>2. job'[w].kill # None => job'[w].at \in {"purge", "rollback"}
    BY <1>15, AfterSwap, AlsoSwap DEF Moves, Becomes, ShellInv
  <2>3. \A n \in Shells : alive'[n] => alive[n]
    BY <1>15, AlsoSwap
  <2>4. QED
    BY <2>1, <2>2, <2>3, ShellKept
<1>16. ASSUME NEW w \in Workers, Unlink(w) PROVE ShellInv'
  <2>1. /\ \A v \in Workers \ {w} : job'[v] = job[v]
        /\ UNCHANGED <<sessions, spawned, sidOf>> /\ byHand \subseteq byHand'
        /\ job'[w].at # "register" /\ (job'[w].op = "deleteSession" => byHand' # {})
    BY <1>16, AfterUnlink DEF Moves, Ends, Becomes, ShellInv
  <2>2. job'[w].kill # None => job'[w].at \in {"purge", "rollback"}
    BY <1>16, AfterUnlink, AlsoUnlink DEF Moves, Ends, Becomes, ShellInv
  <2>3. \A n \in Shells : alive'[n] => alive[n]
    BY <1>16, AlsoUnlink
  <2>4. QED
    BY <2>1, <2>2, <2>3, ShellKept
<1>17. ASSUME NEW w \in Workers, CopyLayout(w) PROVE ShellInv'
  <2>1. /\ \A v \in Workers \ {w} : job'[v] = job[v]
        /\ UNCHANGED <<sessions, spawned, sidOf>> /\ byHand \subseteq byHand'
        /\ job'[w].at # "register" /\ (job'[w].op = "deleteSession" => byHand' # {})
    BY <1>17, AfterCopyLayout DEF Moves, Rest, Becomes, ShellInv
  <2>2. job'[w].kill # None => job'[w].at \in {"purge", "rollback"}
    BY <1>17, AfterCopyLayout, AlsoCopyLayout DEF Moves, Rest, Becomes, ShellInv
  <2>3. \A n \in Shells : alive'[n] => alive[n]
    BY <1>17, AlsoCopyLayout
  <2>4. QED
    BY <2>1, <2>2, <2>3, ShellKept
<1>18. ASSUME NEW w \in Workers, CollectOld(w) PROVE ShellInv'
  <2>1. /\ \A v \in Workers \ {w} : job'[v] = job[v]
        /\ UNCHANGED <<sessions, spawned, sidOf>> /\ byHand \subseteq byHand'
        /\ job'[w].at # "register" /\ (job'[w].op = "deleteSession" => byHand' # {})
    BY <1>18, AfterCollectOld DEF Moves, Rest, Becomes, ShellInv
  <2>2. job'[w].kill # None => job'[w].at \in {"purge", "rollback"}
    BY <1>18, AfterCollectOld, AlsoCollectOld DEF Moves, Rest, Becomes, ShellInv
  <2>3. \A n \in Shells : alive'[n] => alive[n]
    BY <1>18, AlsoCollectOld
  <2>4. QED
    BY <2>1, <2>2, <2>3, ShellKept
<1>19. ASSUME NEW w \in Workers, Collect(w) PROVE ShellInv'
  <2>1. /\ \A v \in Workers \ {w} : job'[v] = job[v]
        /\ UNCHANGED <<sessions, spawned, sidOf>> /\ byHand \subseteq byHand'
        /\ job'[w].at # "register" /\ (job'[w].op = "deleteSession" => byHand' # {})
    BY <1>19, AfterCollect DEF Moves, Rest, Becomes, ShellInv
  <2>2. job'[w].kill # None => job'[w].at \in {"purge", "rollback"}
    BY <1>19, AfterCollect, AlsoCollect DEF Moves, Rest, Becomes, ShellInv
  <2>3. \A n \in Shells : alive'[n] => alive[n]
    BY <1>19, AlsoCollect
  <2>4. QED
    BY <2>1, <2>2, <2>3, ShellKept
<1>20. ASSUME NEW w \in Workers, NEW s \in Ids, Purge(w, s) PROVE ShellInv'
  <2>1. /\ \A v \in Workers \ {w} : job'[v] = job[v]
        /\ job[w].at \in {"purge", "rollback"} /\ job'[w].at = job[w].at /\ job'[w].op = job[w].op
        /\ sessions' = [sessions EXCEPT ![s] = None] /\ UNCHANGED <<spawned, sidOf, byHand>>
    BY <1>20, AfterPurge DEF Moves, Becomes
  <2>2. alive' = alive
    BY <1>20, AlsoPurge
  <2>3. Registered' = Registered \ {s} /\ \A r \in Ids : r # s => sessions'[r] = sessions[r]
    BY <1>0, <2>1 DEF Typed, Registered
  <2>4. \A r \in Registered' : sessions'[r] \in Spawned' /\ sidOf'[sessions'[r]] = r
    BY <2>1, <2>3 DEF ShellInv, Spawned, Registered
  <2>5. \A m \in Shells : alive'[m] => m \in Spawned'
    BY <2>1, <2>2 DEF ShellInv, Spawned
  <2>6. \A v \in Workers : job'[v].at = "register" => v # w /\ job'[v] = job[v] /\ job[v].new \in Ids
    <3>1. \A v \in Workers : job[v].at = "register" => job[v].new \in Ids
      BY <1>0 DEF Typed, PlaceInv
    <3>2. QED
      BY <2>1, <3>1
  <2>7. \A r \in Ids : sessions[r] = None => sessions'[r] = None
    BY <1>0, <2>1 DEF Typed
  <2>8. \A v \in Workers : job'[v].at = "register" => IF job'[v].op = "revive" THEN sidOf'[job'[v].new] = job'[v].sid
                                                                      ELSE sessions'[job'[v].new] = None
    BY <2>1, <2>6, <2>7 DEF ShellInv
  <2>9. \A v \in Workers : /\ job'[v].kill # None => job'[v].at \in {"purge", "rollback"}
                           /\ job'[v].op = "deleteSession" => byHand' # {}
    BY <2>1 DEF ShellInv
  <2>10. QED
    BY <2>4, <2>5, <2>8, <2>9 DEF ShellInv
<1>21. ASSUME NEW w \in Workers, Kill(w) PROVE ShellInv'
  <2>1. /\ \A v \in Workers \ {w} : job'[v] = job[v]
        /\ UNCHANGED <<sessions, spawned, sidOf>> /\ byHand \subseteq byHand'
        /\ job'[w].at # "register" /\ (job'[w].op = "deleteSession" => byHand' # {})
    BY <1>21, AfterKill, AlsoKill DEF Moves, Rest, Becomes, ShellInv
  <2>2. job'[w].kill # None => job'[w].at \in {"purge", "rollback"}
    BY <1>21, AfterKill, AlsoKill DEF Moves, Rest, Becomes, ShellInv
  <2>3. \A n \in Shells : alive'[n] => alive[n]
    BY <1>21, AlsoKill DEF TypeOK
  <2>4. QED
    BY <2>1, <2>2, <2>3, ShellKept
<1>22. ASSUME NEW w \in Workers, Purged(w) PROVE ShellInv'
  <2>1. /\ \A v \in Workers \ {w} : job'[v] = job[v]
        /\ UNCHANGED <<sessions, spawned, sidOf>> /\ byHand \subseteq byHand'
        /\ job'[w].at # "register" /\ (job'[w].op = "deleteSession" => byHand' # {})
    BY <1>22, AfterPurged DEF Moves, Ends, Rest, Becomes, ShellInv
  <2>2. job'[w].kill # None => job'[w].at \in {"purge", "rollback"}
    BY <1>22, AfterPurged, AlsoPurged DEF Moves, Ends, Rest, Becomes, ShellInv
  <2>3. \A n \in Shells : alive'[n] => alive[n]
    BY <1>22, AlsoPurged
  <2>4. QED
    BY <2>1, <2>2, <2>3, ShellKept
<1>23. ASSUME NEW w \in Workers, Capture(w) PROVE ShellInv'
  <2>1. /\ \A v \in Workers \ {w} : job'[v] = job[v]
        /\ UNCHANGED <<sessions, spawned, sidOf>> /\ byHand \subseteq byHand'
        /\ job'[w].at # "register" /\ (job'[w].op = "deleteSession" => byHand' # {})
    BY <1>23, AfterCapture DEF Moves, Rest, Becomes, ShellInv
  <2>2. job'[w].kill # None => job'[w].at \in {"purge", "rollback"}
    BY <1>23, AfterCapture, AlsoCapture DEF Moves, Rest, Becomes, ShellInv
  <2>3. \A n \in Shells : alive'[n] => alive[n]
    BY <1>23, AlsoCapture
  <2>4. QED
    BY <2>1, <2>2, <2>3, ShellKept
<1>24. ASSUME NEW w \in Workers, WriteState(w) PROVE ShellInv'
  <2>1. /\ \A v \in Workers \ {w} : job'[v] = job[v]
        /\ UNCHANGED <<sessions, spawned, sidOf>> /\ byHand \subseteq byHand'
        /\ job'[w].at # "register" /\ (job'[w].op = "deleteSession" => byHand' # {})
    BY <1>24, AfterWriteState DEF Ends, Rest, Becomes, ShellInv
  <2>2. job'[w].kill # None => job'[w].at \in {"purge", "rollback"}
    BY <1>24, AfterWriteState, AlsoWriteState DEF Ends, Rest, Becomes, ShellInv
  <2>3. \A n \in Shells : alive'[n] => alive[n]
    BY <1>24, AlsoWriteState
  <2>4. QED
    BY <2>1, <2>2, <2>3, ShellKept
<1>25. ASSUME NEW n \in Shells, ShellExit(n) PROVE ShellInv'
  <2>1. UNCHANGED <<sessions, spawned, sidOf, job, byHand>> /\ \A m \in Shells : alive'[m] => alive[m]
    BY <1>25 DEF ShellExit, registry, history, TypeOK
  <2>2. QED
    BY <2>1 DEF ShellInv, Registered, Spawned
<1>26. CASE UNCHANGED vars
  BY <1>26 DEF vars, ShellInv, Registered, Spawned
<1>27. QED
  BY <1>1, <1>2, <1>3, <1>4, <1>5, <1>6, <1>7, <1>8, <1>9, <1>10, <1>11, <1>12, <1>13, <1>14,
     <1>15, <1>16, <1>17, <1>18, <1>19, <1>20, <1>21, <1>22, <1>23, <1>24, <1>25, <1>26
  DEF Next, BeginStep, WorkStep

\* What a handler is about to revive is registered.
LEMMA ReviveTarget ==
  ASSUME TypeOK, NoDanglingPane, ShellInv, Quiet, NEW t \in live, NEW s \in layout[t]
  PROVE  s \in Registered /\ sessions[s] \in Shells /\ sessions[s] \in Spawned
<1>1. t \in Tabs /\ s \in Ids
  BY DEF TypeOK
<1>2. s \in Registered
  BY <1>1 DEF NoDanglingPane, Panes, Quiet
<1>3. QED
  BY <1>1, <1>2 DEF Registered, TypeOK, ShellInv

\* A handler sees what it saw, unless its tab or the shell it revives changed.
LEMMA SeesKept ==
  ASSUME Typed, PlaceInv, NEW v \in Workers, Sees(v), job'[v] = job[v],
         job[v].tab # None =>
           (job[v].tab \in live => job[v].tab \in live') /\ layout'[job[v].tab] = layout[job[v].tab],
         job[v].op = "revive" /\ job[v].at \in {"spawn", "register"} => ~alive'[sessions'[job[v].sid]]
  PROVE  Sees(v)'
<1>1. job[v].tab = None => job[v].op \notin {"split", "close", "closeLast", "replace", "revive"}
  BY DEF PlaceInv
<1>2. QED
  BY <1>1 DEF Sees

\* A step of w that changes at most w's own tab, and brings no shell to life.
LEMMA SoleKept ==
  ASSUME TypeOK, PlaceInv, NoDanglingPane, ShellInv, SoleInv, NEW w \in Workers,
         \A v \in Workers \ {w} : job'[v] = job[v],
         \A u \in Tabs : u # job[w].tab => (u \in live => u \in live') /\ layout'[u] = layout[u],
         UNCHANGED <<sessions, overlapped, byHand>>, \A n \in Shells : alive'[n] => alive[n],
         job'[w].tab = job[w].tab \/ job'[w].tab = None, Quiet => Sees(w)'
  PROVE  SoleInv'
<1> SUFFICES ASSUME Quiet' PROVE SoleInv'
  BY DEF SoleInv
<1>1. Quiet
  BY DEF Quiet
<1>2. Typed
  BY JobTypes
<1>3. \A v \in Workers : v # w => job[v].tab # job[w].tab \/ job[v].tab = None
  BY <1>1 DEF SoleInv
<1>4. \A u, v \in Workers : u # v => job'[u].tab # job'[v].tab \/ job'[u].tab = None
  BY <1>1 DEF SoleInv
<1>5. ASSUME NEW v \in Workers, v # w PROVE Sees(v)'
  <2>1. Sees(v) /\ job'[v] = job[v]
    BY <1>1, <1>5 DEF SoleInv
  <2>2. job[v].tab # None =>
          (job[v].tab \in live => job[v].tab \in live') /\ layout'[job[v].tab] = layout[job[v].tab]
    BY <1>2, <1>3, <1>5 DEF Typed
  <2>3. job[v].op = "revive" /\ job[v].at \in {"spawn", "register"} => ~alive'[sessions'[job[v].sid]]
    <3>1. SUFFICES ASSUME job[v].op = "revive", job[v].at \in {"spawn", "register"}
                   PROVE  ~alive'[sessions[job[v].sid]]
      OBVIOUS
    <3>2. ~alive[sessions[job[v].sid]] /\ job[v].sid \in layout[job[v].tab] /\ job[v].tab \in live
      BY <2>1, <3>1 DEF Sees
    <3>3. QED
      BY <1>1, <3>2, ReviveTarget
  <2>4. QED
    BY <1>2, <2>1, <2>2, <2>3, SeesKept
<1>6. QED
  BY <1>1, <1>4, <1>5 DEF SoleInv

\* The beginning of an operation on t.
LEMMA SoleBegins ==
  ASSUME TypeOK, PlaceInv, SoleInv, NEW w \in Workers, NEW t \in Tabs,
         \A v \in Workers \ {w} : job'[v] = job[v], job[w].at = "idle", job'[w].tab = t,
         live \ {t} \subseteq live', UNCHANGED <<sessions, layout, alive, byHand>>,
         overlapped' = (overlapped \/ \E v \in Workers : Busy(v) /\ job[v].tab = t),
         Sees(w)'
  PROVE  SoleInv'
<1> SUFFICES ASSUME Quiet' PROVE SoleInv'
  BY DEF SoleInv
<1>1. Quiet
  BY DEF Quiet
<1>2. Typed
  BY JobTypes
<1>3. \A v \in Workers : job[v].tab # t
  <2>1. \A v \in Workers : ~Busy(v) => job[v].op = "none"
    BY <1>2, PlaceFacts DEF Busy, PlaceInv, Typed
  <2>2. \A v \in Workers : ~Busy(v) => job[v].tab = None
    BY <2>1 DEF PlaceInv
  <2>3. QED
    BY <2>2, NoneFacts DEF Quiet
<1>4. \A u, v \in Workers : u # v => job'[u].tab # job'[v].tab \/ job'[u].tab = None
  BY <1>1, <1>3 DEF SoleInv
<1>5. ASSUME NEW v \in Workers, v # w PROVE Sees(v)'
  <2>1. Sees(v) /\ job'[v] = job[v]
    BY <1>1, <1>5 DEF SoleInv
  <2>2. job[v].tab # None => (job[v].tab \in live => job[v].tab \in live')
    BY <1>2, <1>3
  <2>3. job[v].op = "revive" /\ job[v].at \in {"spawn", "register"} => ~alive'[sessions'[job[v].sid]]
    BY <2>1 DEF Sees
  <2>4. QED
    BY <1>2, <2>1, <2>2, <2>3, SeesKept
<1>6. QED
  BY <1>1, <1>4, <1>5 DEF SoleInv

\* Without overlap every handler has its tab to itself.
LEMMA SoleStep ==
  TypeOK /\ PlaceInv /\ IdInv /\ FreshInv /\ HomeInv /\ NoDanglingPane /\ ShellInv /\ SoleInv /\ [Next]_vars => SoleInv'
<1> SUFFICES ASSUME TypeOK, PlaceInv, IdInv, FreshInv, HomeInv, NoDanglingPane, ShellInv, SoleInv, [Next]_vars PROVE SoleInv'
  OBVIOUS
<1>0. Typed
  BY JobTypes
<1>1. ASSUME NEW w \in Workers, NEW t \in Tabs, CreateTab(w, t) PROVE SoleInv'
  <2>1. /\ (\A v \in Workers \ {w} : job'[v] = job[v]) /\ job[w].at = "idle" /\ job'[w].tab = t
        /\ live \ {t} \subseteq live' /\ UNCHANGED <<sessions, layout, byHand>>
    BY <1>1, AfterCreateTab DEF Begins, Rest, Becomes
  <2>2. alive' = alive /\ overlapped' = (overlapped \/ \E v \in Workers : Busy(v) /\ job[v].tab = t)
    BY <1>1, AlsoCreateTab
  <2>3. Sees(w)'
    BY <1>1, AfterCreateTab, AlsoCreateTab DEF Begins, Rest, Becomes, Sees
  <2>4. QED
    BY <2>1, <2>2, <2>3, SoleBegins
<1>2. ASSUME NEW w \in Workers, NEW t \in Tabs, NEW s \in Ids, SplitPane(w, t, s) PROVE SoleInv'
  <2>1. /\ (\A v \in Workers \ {w} : job'[v] = job[v]) /\ job[w].at = "idle" /\ job'[w].tab = t
        /\ live \ {t} \subseteq live' /\ UNCHANGED <<sessions, layout, byHand>>
    BY <1>2, AfterSplitPane DEF Begins, Rest, Becomes
  <2>2. alive' = alive /\ overlapped' = (overlapped \/ \E v \in Workers : Busy(v) /\ job[v].tab = t)
    BY <1>2, AlsoSplitPane
  <2>3. Sees(w)'
    BY <1>2, AfterSplitPane, AlsoSplitPane DEF Begins, Rest, Becomes, Sees
  <2>4. QED
    BY <2>1, <2>2, <2>3, SoleBegins
<1>3. ASSUME NEW w \in Workers, NEW t \in Tabs, NEW s \in Ids, ClosePane(w, t, s) PROVE SoleInv'
  <2>1. /\ (\A v \in Workers \ {w} : job'[v] = job[v]) /\ job[w].at = "idle" /\ job'[w].tab = t
        /\ live \ {t} \subseteq live' /\ UNCHANGED <<sessions, layout, byHand>>
    BY <1>3, AfterClosePane DEF Begins, Rest, Becomes
  <2>2. alive' = alive /\ overlapped' = (overlapped \/ \E v \in Workers : Busy(v) /\ job[v].tab = t)
    BY <1>3, AlsoClosePane
  <2>3. Sees(w)'
    BY <1>3, AfterClosePane, AlsoClosePane DEF Begins, Rest, Becomes, Sees
  <2>4. QED
    BY <2>1, <2>2, <2>3, SoleBegins
<1>4. ASSUME NEW w \in Workers, NEW t \in Tabs, ReplaceTabSessions(w, t) PROVE SoleInv'
  <2>1. /\ (\A v \in Workers \ {w} : job'[v] = job[v]) /\ job[w].at = "idle" /\ job'[w].tab = t
        /\ live \ {t} \subseteq live' /\ UNCHANGED <<sessions, layout, byHand>>
    BY <1>4, AfterReplaceTabSessions DEF Begins, Rest, Becomes
  <2>2. alive' = alive /\ overlapped' = (overlapped \/ \E v \in Workers : Busy(v) /\ job[v].tab = t)
    BY <1>4, AlsoReplaceTabSessions
  <2>3. Sees(w)'
    BY <1>4, AfterReplaceTabSessions, AlsoReplaceTabSessions DEF Begins, Rest, Becomes, Sees
  <2>4. QED
    BY <2>1, <2>2, <2>3, SoleBegins
<1>5. ASSUME NEW w \in Workers, NEW t \in Tabs, DeleteTab(w, t) PROVE SoleInv'
  <2>1. /\ (\A v \in Workers \ {w} : job'[v] = job[v]) /\ job[w].at = "idle" /\ job'[w].tab = t
        /\ live \ {t} \subseteq live' /\ UNCHANGED <<sessions, layout, byHand>>
    BY <1>5, AfterDeleteTab DEF Begins, Becomes
  <2>2. alive' = alive /\ overlapped' = (overlapped \/ \E v \in Workers : Busy(v) /\ job[v].tab = t)
    BY <1>5, AlsoDeleteTab
  <2>3. Sees(w)'
    BY <1>5, AfterDeleteTab, AlsoDeleteTab DEF Begins, Becomes, Sees
  <2>4. QED
    BY <2>1, <2>2, <2>3, SoleBegins
<1>6. ASSUME NEW w \in Workers, NEW s \in Ids, DeleteSession(w, s) PROVE SoleInv'
  <2>1. byHand' # {}
    BY <1>6, AfterDeleteSession
  <2>2. QED
    BY <2>1 DEF SoleInv, Quiet
<1>7. ASSUME NEW w \in Workers, NEW t \in Tabs, NEW s \in Ids, AttachSession(w, t, s) PROVE SoleInv'
  <2>1. /\ (\A v \in Workers \ {w} : job'[v] = job[v]) /\ job[w].at = "idle" /\ job'[w].tab = t
        /\ live \ {t} \subseteq live' /\ UNCHANGED <<sessions, layout, byHand>>
    BY <1>7, AfterAttachSession DEF Begins, Rest, Becomes
  <2>2. alive' = alive /\ overlapped' = (overlapped \/ \E v \in Workers : Busy(v) /\ job[v].tab = t)
    BY <1>7, AlsoAttachSession
  <2>3. Sees(w)'
    BY <1>7, AfterAttachSession, AlsoAttachSession DEF Begins, Rest, Becomes, Sees
  <2>4. QED
    BY <2>1, <2>2, <2>3, SoleBegins
<1>8. ASSUME NEW w \in Workers, SaveState(w) PROVE SoleInv'
  <2>1. /\ \A v \in Workers \ {w} : job'[v] = job[v]
        /\ job'[w].tab = job[w].tab \/ job'[w].tab = None
        /\ UNCHANGED <<sessions, byHand>>
    BY <1>8, AfterSaveState DEF Begins, Rest, Becomes
  <2>2. \A u \in Tabs : u # job[w].tab => (u \in live => u \in live') /\ layout'[u] = layout[u]
    BY <1>0, <1>8, AfterSaveState DEF Begins, Rest, Typed
  <2>3. overlapped' = overlapped /\ \A n \in Shells : alive'[n] => alive[n]
    BY <1>8, AlsoSaveState
  <2>4. ASSUME Quiet PROVE Sees(w)'
    <3>1. Sees(w)
      BY <2>4 DEF SoleInv
    <3>2. QED
      BY <1>0, <1>8, <3>1, AfterSaveState, AlsoSaveState DEF Begins, Rest, Becomes, Sees, Typed
  <2>5. QED
    BY <2>1, <2>2, <2>3, <2>4, SoleKept
<1>9. ASSUME NEW w \in Workers, CheckDead(w) PROVE SoleInv'
  <2>1. /\ \A v \in Workers \ {w} : job'[v] = job[v]
        /\ job'[w].tab = job[w].tab \/ job'[w].tab = None
        /\ UNCHANGED <<sessions, byHand>>
    BY <1>9, AfterCheckDead DEF Moves, Ends, Rest, Becomes
  <2>2. \A u \in Tabs : u # job[w].tab => (u \in live => u \in live') /\ layout'[u] = layout[u]
    BY <1>0, <1>9, AfterCheckDead DEF Moves, Ends, Rest, Typed
  <2>3. overlapped' = overlapped /\ \A n \in Shells : alive'[n] => alive[n]
    BY <1>9, AlsoCheckDead
  <2>4. ASSUME Quiet PROVE Sees(w)'
    <3>1. Sees(w)
      BY <2>4 DEF SoleInv
    <3>2. QED
      BY <1>0, <1>9, <3>1, AfterCheckDead, AlsoCheckDead, PlaceFacts DEF Moves, Ends, Rest, Becomes, Sees, Typed, PlaceInv
  <2>5. QED
    BY <2>1, <2>2, <2>3, <2>4, SoleKept
<1>10. ASSUME NEW w \in Workers, Spawn(w) PROVE SoleInv'
  <2> SUFFICES ASSUME Quiet' PROVE SoleInv'
    BY DEF SoleInv
  <2> DEFINE n == spawned + 1
  <2>1. /\ \A v \in Workers \ {w} : job'[v] = job[v]
        /\ job[w].at = "spawn" /\ job'[w].at = "register" /\ job'[w].tab = job[w].tab
        /\ job'[w].op = job[w].op /\ job'[w].sid = job[w].sid /\ job'[w].todo = job[w].todo
        /\ UNCHANGED <<sessions, live, layout, byHand>>
    BY <1>10, AfterSpawn DEF Becomes
  <2>2. overlapped' = overlapped /\ alive' = [alive EXCEPT ![n] = TRUE]
    BY <1>10, AlsoSpawn
  <2>3. Quiet
    BY <2>1, <2>2 DEF Quiet
  <2>4. ASSUME NEW v \in Workers, job[v].op = "revive", job[v].at \in {"spawn", "register"}
        PROVE  ~alive'[sessions'[job[v].sid]]
    <3>1. ~alive[sessions[job[v].sid]] /\ job[v].sid \in layout[job[v].tab] /\ job[v].tab \in live
      BY <2>3, <2>4 DEF SoleInv, Sees
    <3>2. sessions[job[v].sid] \in Shells /\ sessions[job[v].sid] # n
      BY <1>0, <2>3, <3>1, ReviveTarget DEF Spawned, Typed
    <3>3. QED
      BY <2>1, <2>2, <3>1, <3>2 DEF TypeOK
  <2>5. \A u, v \in Workers : u # v => job'[u].tab # job'[v].tab \/ job'[u].tab = None
    BY <2>1, <2>3 DEF SoleInv
  <2>6. ASSUME NEW v \in Workers, v # w PROVE Sees(v)'
    <3>1. Sees(v) /\ job'[v] = job[v]
      BY <2>1, <2>3, <2>6 DEF SoleInv
    <3>2. QED
      BY <1>0, <2>1, <2>4, <3>1, SeesKept
  <2>7. Sees(w)'
    <3>1. Sees(w)
      BY <2>3 DEF SoleInv
    <3>2. QED
      BY <2>1, <2>4, <3>1 DEF Sees
  <2>8. QED
    BY <2>3, <2>5, <2>6, <2>7 DEF SoleInv
<1>11. ASSUME NEW w \in Workers, SpawnFails(w) PROVE SoleInv'
  <2>1. /\ \A v \in Workers \ {w} : job'[v] = job[v]
        /\ job'[w].tab = job[w].tab \/ job'[w].tab = None
        /\ UNCHANGED <<sessions, byHand>>
    BY <1>11, AfterSpawnFails DEF Moves, Ends, Rest, Becomes
  <2>2. \A u \in Tabs : u # job[w].tab => (u \in live => u \in live') /\ layout'[u] = layout[u]
    BY <1>0, <1>11, AfterSpawnFails DEF Moves, Ends, Rest, Typed
  <2>3. overlapped' = overlapped /\ \A n \in Shells : alive'[n] => alive[n]
    BY <1>11, AlsoSpawnFails
  <2>4. ASSUME Quiet PROVE Sees(w)'
    <3>1. Sees(w)
      BY <2>4 DEF SoleInv
    <3>2. QED
      BY <1>0, <1>11, <3>1, AfterSpawnFails, AlsoSpawnFails DEF Moves, Ends, Rest, Becomes, Sees, Typed
  <2>5. QED
    BY <2>1, <2>2, <2>3, <2>4, SoleKept
<1>12. ASSUME NEW w \in Workers, Register(w) PROVE SoleInv'
  <2> SUFFICES ASSUME Quiet' PROVE SoleInv'
    BY DEF SoleInv
  <2> DEFINE s == sidOf[job[w].new]
  <2>1. /\ \A v \in Workers \ {w} : job'[v] = job[v]
        /\ job[w].at = "register" /\ (job'[w].tab = job[w].tab \/ job'[w].tab = None)
        /\ sessions' = [sessions EXCEPT ![s] = job[w].new] /\ UNCHANGED <<live, layout, byHand>>
    BY <1>12, AfterRegister DEF Moves, Ends, Becomes
  <2>2. \/ job'[w].op = "none" /\ job'[w].at = "idle"
        \/ /\ job'[w].op = job[w].op /\ job[w].op # "revive" /\ job'[w].tab = job[w].tab
           /\ job'[w].sid = job[w].sid /\ job'[w].todo = job[w].todo
    BY <1>12, AfterRegister DEF Moves, Ends, Becomes
  <2>3. UNCHANGED <<overlapped, alive>>
    BY <1>12, AlsoRegister
  <2>4. Quiet
    BY <2>1, <2>3 DEF Quiet
  <2>5. ASSUME NEW v \in Workers, v # w, job[v].op = "revive", job[v].at \in {"spawn", "register"}
        PROVE  ~alive'[sessions'[job[v].sid]]
    <3>1. /\ ~alive[sessions[job[v].sid]] /\ job[v].sid \in layout[job[v].tab]
          /\ job[v].tab \in live /\ job[v].tab # job[w].tab
      BY <2>4, <2>5, NoneFacts DEF SoleInv, Sees, TypeOK
    <3>2. job[v].tab \in Tabs /\ job[v].sid \in Ids
      BY <1>0, <3>1 DEF Typed
    <3>3. job[v].sid # s
      <4>1. CASE job[w].op = "revive"
        <5>1. s = job[w].sid /\ s \in layout[job[w].tab] /\ job[w].tab \in live
          BY <2>1, <2>4, <4>1 DEF ShellInv, SoleInv, Sees
        <5>2. QED
          BY <1>0, <3>1, <3>2, <5>1 DEF HomeInv, Typed
      <4>2. CASE job[w].op # "revive"
        <5>1. job[w].new \in InHand(w) /\ job[w].new \in Fresh(w)
          BY <2>1, <4>2 DEF InHand, Fresh
        <5>2. QED
          BY <3>1, <3>2, <5>1 DEF FreshInv
      <4>3. QED
        BY <4>1, <4>2
    <3>4. QED
      BY <1>0, <2>1, <2>3, <3>1, <3>2, <3>3 DEF Typed
  <2>6. \A u, v \in Workers : u # v => job'[u].tab # job'[v].tab \/ job'[u].tab = None
    <3>1. \A u \in Workers : job'[u].tab = job[u].tab \/ job'[u].tab = None
      BY <2>1, <2>2
    <3>2. \A u, v \in Workers : u # v => job[u].tab # job[v].tab \/ job[u].tab = None
      BY <2>4 DEF SoleInv
    <3>3. QED
      BY <3>1, <3>2
  <2>7. ASSUME NEW v \in Workers, v # w PROVE Sees(v)'
    <3>1. Sees(v) /\ job'[v] = job[v]
      BY <2>1, <2>4, <2>7 DEF SoleInv
    <3>2. QED
      BY <1>0, <2>1, <2>5, <2>7, <3>1, SeesKept
  <2>8. Sees(w)'
    <3>1. Sees(w)
      BY <2>4 DEF SoleInv
    <3>2. QED
      BY <2>1, <2>2, <3>1 DEF Sees
  <2>9. QED
    BY <2>4, <2>6, <2>7, <2>8 DEF SoleInv
<1>13. ASSUME NEW w \in Workers, AddTab(w) PROVE SoleInv'
  <2>1. /\ \A v \in Workers \ {w} : job'[v] = job[v]
        /\ job'[w].tab = job[w].tab \/ job'[w].tab = None
        /\ UNCHANGED <<sessions, byHand>>
    BY <1>13, AfterAddTab DEF Ends, Becomes
  <2>2. \A u \in Tabs : u # job[w].tab => (u \in live => u \in live') /\ layout'[u] = layout[u]
    BY <1>0, <1>13, AfterAddTab DEF Ends, Typed
  <2>3. overlapped' = overlapped /\ \A n \in Shells : alive'[n] => alive[n]
    BY <1>13, AlsoAddTab
  <2>4. ASSUME Quiet PROVE Sees(w)'
    <3>1. Sees(w)
      BY <2>4 DEF SoleInv
    <3>2. QED
      BY <1>0, <1>13, <3>1, AfterAddTab, AlsoAddTab, PlaceFacts DEF Ends, Becomes, Sees, Typed, PlaceInv
  <2>5. QED
    BY <2>1, <2>2, <2>3, <2>4, SoleKept
<1>14. ASSUME NEW w \in Workers, Insert(w) PROVE SoleInv'
  <2>1. /\ \A v \in Workers \ {w} : job'[v] = job[v]
        /\ job'[w].tab = job[w].tab \/ job'[w].tab = None
        /\ UNCHANGED <<sessions, byHand>>
    BY <1>14, AfterInsert DEF Moves, Becomes
  <2>2. \A u \in Tabs : u # job[w].tab => (u \in live => u \in live') /\ layout'[u] = layout[u]
    BY <1>0, <1>14, AfterInsert DEF Moves, Typed
  <2>3. overlapped' = overlapped /\ \A n \in Shells : alive'[n] => alive[n]
    BY <1>14, AlsoInsert
  <2>4. ASSUME Quiet PROVE Sees(w)'
    <3>1. Sees(w)
      BY <2>4 DEF SoleInv
    <3>2. QED
      BY <1>0, <1>14, <3>1, AfterInsert, AlsoInsert, PlaceFacts DEF Moves, Becomes, Sees, Typed, PlaceInv
  <2>5. QED
    BY <2>1, <2>2, <2>3, <2>4, SoleKept
<1>15. ASSUME NEW w \in Workers, Swap(w) PROVE SoleInv'
  <2>1. /\ \A v \in Workers \ {w} : job'[v] = job[v]
        /\ job'[w].tab = job[w].tab \/ job'[w].tab = None
        /\ UNCHANGED <<sessions, byHand>>
    BY <1>15, AfterSwap DEF Moves, Becomes
  <2>2. \A u \in Tabs : u # job[w].tab => (u \in live => u \in live') /\ layout'[u] = layout[u]
    BY <1>0, <1>15, AfterSwap DEF Moves, Typed
  <2>3. overlapped' = overlapped /\ \A n \in Shells : alive'[n] => alive[n]
    BY <1>15, AlsoSwap
  <2>4. ASSUME Quiet PROVE Sees(w)'
    <3>1. Sees(w)
      BY <2>4 DEF SoleInv
    <3>2. QED
      BY <1>0, <1>15, <3>1, AfterSwap, AlsoSwap, PlaceFacts DEF Moves, Becomes, Sees, Typed, PlaceInv
  <2>5. QED
    BY <2>1, <2>2, <2>3, <2>4, SoleKept
<1>16. ASSUME NEW w \in Workers, Unlink(w) PROVE SoleInv'
  <2>1. /\ \A v \in Workers \ {w} : job'[v] = job[v]
        /\ job'[w].tab = job[w].tab \/ job'[w].tab = None
        /\ UNCHANGED <<sessions, byHand>>
    BY <1>16, AfterUnlink DEF Moves, Ends, Becomes
  <2>2. \A u \in Tabs : u # job[w].tab => (u \in live => u \in live') /\ layout'[u] = layout[u]
    BY <1>0, <1>16, AfterUnlink DEF Moves, Ends, Typed
  <2>3. overlapped' = overlapped /\ \A n \in Shells : alive'[n] => alive[n]
    BY <1>16, AlsoUnlink
  <2>4. ASSUME Quiet PROVE Sees(w)'
    <3>1. Sees(w)
      BY <2>4 DEF SoleInv
    <3>2. QED
      BY <1>0, <1>16, <3>1, AfterUnlink, AlsoUnlink, PlaceFacts DEF Moves, Ends, Becomes, Sees, Typed, PlaceInv
  <2>5. QED
    BY <2>1, <2>2, <2>3, <2>4, SoleKept
<1>17. ASSUME NEW w \in Workers, CopyLayout(w) PROVE SoleInv'
  <2>1. /\ \A v \in Workers \ {w} : job'[v] = job[v]
        /\ job'[w].tab = job[w].tab \/ job'[w].tab = None
        /\ UNCHANGED <<sessions, byHand>>
    BY <1>17, AfterCopyLayout DEF Moves, Rest, Becomes
  <2>2. \A u \in Tabs : u # job[w].tab => (u \in live => u \in live') /\ layout'[u] = layout[u]
    BY <1>0, <1>17, AfterCopyLayout DEF Moves, Rest, Typed
  <2>3. overlapped' = overlapped /\ \A n \in Shells : alive'[n] => alive[n]
    BY <1>17, AlsoCopyLayout
  <2>4. ASSUME Quiet PROVE Sees(w)'
    <3>1. Sees(w)
      BY <2>4 DEF SoleInv
    <3>2. QED
      BY <1>0, <1>17, <3>1, AfterCopyLayout, AlsoCopyLayout DEF Moves, Rest, Becomes, Sees, Typed
  <2>5. QED
    BY <2>1, <2>2, <2>3, <2>4, SoleKept
<1>18. ASSUME NEW w \in Workers, CollectOld(w) PROVE SoleInv'
  <2>1. /\ \A v \in Workers \ {w} : job'[v] = job[v]
        /\ job'[w].tab = job[w].tab \/ job'[w].tab = None
        /\ UNCHANGED <<sessions, byHand>>
    BY <1>18, AfterCollectOld DEF Moves, Rest, Becomes
  <2>2. \A u \in Tabs : u # job[w].tab => (u \in live => u \in live') /\ layout'[u] = layout[u]
    BY <1>0, <1>18, AfterCollectOld DEF Moves, Rest, Typed
  <2>3. overlapped' = overlapped /\ \A n \in Shells : alive'[n] => alive[n]
    BY <1>18, AlsoCollectOld
  <2>4. ASSUME Quiet PROVE Sees(w)'
    <3>1. Sees(w)
      BY <2>4 DEF SoleInv
    <3>2. QED
      BY <1>0, <1>18, <3>1, AfterCollectOld, AlsoCollectOld, PlaceFacts DEF Moves, Rest, Becomes, Sees, Typed, PlaceInv
  <2>5. QED
    BY <2>1, <2>2, <2>3, <2>4, SoleKept
<1>19. ASSUME NEW w \in Workers, Collect(w) PROVE SoleInv'
  <2>1. /\ \A v \in Workers \ {w} : job'[v] = job[v]
        /\ job'[w].tab = job[w].tab \/ job'[w].tab = None
        /\ UNCHANGED <<sessions, byHand>>
    BY <1>19, AfterCollect DEF Moves, Rest, Becomes
  <2>2. \A u \in Tabs : u # job[w].tab => (u \in live => u \in live') /\ layout'[u] = layout[u]
    BY <1>0, <1>19, AfterCollect DEF Moves, Rest, Typed
  <2>3. overlapped' = overlapped /\ \A n \in Shells : alive'[n] => alive[n]
    BY <1>19, AlsoCollect
  <2>4. ASSUME Quiet PROVE Sees(w)'
    <3>1. Sees(w)
      BY <2>4 DEF SoleInv
    <3>2. QED
      BY <1>0, <1>19, <3>1, AfterCollect, AlsoCollect, PlaceFacts DEF Moves, Rest, Becomes, Sees, Typed, PlaceInv
  <2>5. QED
    BY <2>1, <2>2, <2>3, <2>4, SoleKept
<1>20. ASSUME NEW w \in Workers, NEW s \in Ids, Purge(w, s) PROVE SoleInv'
  <2> SUFFICES ASSUME Quiet' PROVE SoleInv'
    BY DEF SoleInv
  <2>1. /\ \A v \in Workers \ {w} : job'[v] = job[v]
        /\ job[w].at \in {"purge", "rollback"} /\ s \in job[w].todo
        /\ sessions' = [sessions EXCEPT ![s] = None] /\ UNCHANGED <<live, layout, byHand>>
    BY <1>20, AfterPurge DEF Moves, Becomes
  <2>2. job'[w].op = job[w].op /\ job'[w].at = job[w].at /\ job'[w].tab = job[w].tab /\ job'[w].sid = job[w].sid
    BY <1>20, AfterPurge DEF Moves, Becomes
  <2>3. UNCHANGED <<overlapped, alive>>
    BY <1>20, AlsoPurge
  <2>4. Quiet
    BY <2>1, <2>3 DEF Quiet
  <2>5. ASSUME NEW v \in Workers, v # w, job[v].op = "revive", job[v].at \in {"spawn", "register"}
        PROVE  ~alive'[sessions'[job[v].sid]]
    <3>1. /\ ~alive[sessions[job[v].sid]] /\ job[v].sid \in layout[job[v].tab]
          /\ job[v].tab \in live /\ job[v].tab # job[w].tab
      BY <2>4, <2>5, NoneFacts DEF SoleInv, Sees, TypeOK
    <3>2. job[v].tab \in Tabs /\ job[v].sid \in Ids
      BY <1>0, <3>1 DEF Typed
    <3>3. job[v].sid # s
      <4>1. s \in Old(w)
        BY <2>1, <2>4 DEF ShellInv, Quiet, Old
      <4>2. QED
        BY <3>1, <3>2, <4>1 DEF HomeInv
    <3>4. QED
      BY <1>0, <2>1, <2>3, <3>1, <3>2, <3>3 DEF Typed
  <2>6. \A u, v \in Workers : u # v => job'[u].tab # job'[v].tab \/ job'[u].tab = None
    <3>1. \A u \in Workers : job'[u].tab = job[u].tab \/ job'[u].tab = None
      BY <2>1, <2>2
    <3>2. \A u, v \in Workers : u # v => job[u].tab # job[v].tab \/ job[u].tab = None
      BY <2>4 DEF SoleInv
    <3>3. QED
      BY <3>1, <3>2
  <2>7. ASSUME NEW v \in Workers, v # w PROVE Sees(v)'
    <3>1. Sees(v) /\ job'[v] = job[v]
      BY <2>1, <2>4, <2>7 DEF SoleInv
    <3>2. QED
      BY <1>0, <2>1, <2>5, <2>7, <3>1, SeesKept
  <2>8. Sees(w)'
    <3>1. Sees(w)
      BY <2>4 DEF SoleInv
    <3>2. QED
      BY <1>0, <2>1, <2>2, <3>1, PlaceFacts DEF Sees, PlaceInv, Typed
  <2>9. QED
    BY <2>4, <2>6, <2>7, <2>8 DEF SoleInv
<1>21. ASSUME NEW w \in Workers, Kill(w) PROVE SoleInv'
  <2>1. /\ \A v \in Workers \ {w} : job'[v] = job[v]
        /\ job'[w].tab = job[w].tab \/ job'[w].tab = None
        /\ UNCHANGED <<sessions, byHand>>
    BY <1>21, AfterKill DEF Moves, Rest, Becomes
  <2>2. \A u \in Tabs : u # job[w].tab => (u \in live => u \in live') /\ layout'[u] = layout[u]
    BY <1>0, <1>21, AfterKill DEF Moves, Rest, Typed
  <2>3. overlapped' = overlapped /\ \A n \in Shells : alive'[n] => alive[n]
    BY <1>21, AlsoKill DEF TypeOK
  <2>4. ASSUME Quiet PROVE Sees(w)'
    <3>1. Sees(w)
      BY <2>4 DEF SoleInv
    <3>2. QED
      BY <1>0, <1>21, <3>1, AfterKill, AlsoKill DEF Moves, Rest, Becomes, Sees, Typed, ShellInv
  <2>5. QED
    BY <2>1, <2>2, <2>3, <2>4, SoleKept
<1>22. ASSUME NEW w \in Workers, Purged(w) PROVE SoleInv'
  <2>1. /\ \A v \in Workers \ {w} : job'[v] = job[v]
        /\ job'[w].tab = job[w].tab \/ job'[w].tab = None
        /\ UNCHANGED <<sessions, byHand>>
    BY <1>22, AfterPurged DEF Moves, Ends, Rest, Becomes
  <2>2. \A u \in Tabs : u # job[w].tab => (u \in live => u \in live') /\ layout'[u] = layout[u]
    BY <1>0, <1>22, AfterPurged DEF Moves, Ends, Rest, Typed
  <2>3. overlapped' = overlapped /\ \A n \in Shells : alive'[n] => alive[n]
    BY <1>22, AlsoPurged
  <2>4. ASSUME Quiet PROVE Sees(w)'
    <3>1. Sees(w)
      BY <2>4 DEF SoleInv
    <3>2. QED
      BY <1>0, <1>22, <3>1, AfterPurged, AlsoPurged DEF Moves, Ends, Rest, Becomes, Sees, Typed
  <2>5. QED
    BY <2>1, <2>2, <2>3, <2>4, SoleKept
<1>23. ASSUME NEW w \in Workers, Capture(w) PROVE SoleInv'
  <2>1. /\ \A v \in Workers \ {w} : job'[v] = job[v]
        /\ job'[w].tab = job[w].tab \/ job'[w].tab = None
        /\ UNCHANGED <<sessions, byHand>>
    BY <1>23, AfterCapture DEF Moves, Rest, Becomes
  <2>2. \A u \in Tabs : u # job[w].tab => (u \in live => u \in live') /\ layout'[u] = layout[u]
    BY <1>0, <1>23, AfterCapture DEF Moves, Rest, Typed
  <2>3. overlapped' = overlapped /\ \A n \in Shells : alive'[n] => alive[n]
    BY <1>23, AlsoCapture
  <2>4. ASSUME Quiet PROVE Sees(w)'
    <3>1. Sees(w)
      BY <2>4 DEF SoleInv
    <3>2. QED
      BY <1>0, <1>23, <3>1, AfterCapture, AlsoCapture DEF Moves, Rest, Becomes, Sees, Typed
  <2>5. QED
    BY <2>1, <2>2, <2>3, <2>4, SoleKept
<1>24. ASSUME NEW w \in Workers, WriteState(w) PROVE SoleInv'
  <2>1. /\ \A v \in Workers \ {w} : job'[v] = job[v]
        /\ job'[w].tab = job[w].tab \/ job'[w].tab = None
        /\ UNCHANGED <<sessions, byHand>>
    BY <1>24, AfterWriteState DEF Ends, Rest, Becomes
  <2>2. \A u \in Tabs : u # job[w].tab => (u \in live => u \in live') /\ layout'[u] = layout[u]
    BY <1>0, <1>24, AfterWriteState DEF Ends, Rest, Typed
  <2>3. overlapped' = overlapped /\ \A n \in Shells : alive'[n] => alive[n]
    BY <1>24, AlsoWriteState
  <2>4. ASSUME Quiet PROVE Sees(w)'
    <3>1. Sees(w)
      BY <2>4 DEF SoleInv
    <3>2. QED
      BY <1>0, <1>24, <3>1, AfterWriteState, AlsoWriteState DEF Ends, Rest, Becomes, Sees, Typed
  <2>5. QED
    BY <2>1, <2>2, <2>3, <2>4, SoleKept
<1>25. ASSUME NEW n \in Shells, ShellExit(n) PROVE SoleInv'
  <2>1. /\ UNCHANGED <<sessions, live, layout, job, overlapped, byHand>>
        /\ \A m \in Shells : alive'[m] => alive[m]
    BY <1>25 DEF ShellExit, registry, history, TypeOK
  <2>2. SUFFICES ASSUME Quiet' PROVE \A v \in Workers : Sees(v)'
    BY <2>1 DEF SoleInv, Quiet
  <2>3. Quiet
    BY <2>1, <2>2 DEF Quiet
  <2>4. ASSUME NEW v \in Workers PROVE Sees(v)'
    <3>1. Sees(v)
      BY <2>3 DEF SoleInv
    <3>2. job[v].op = "revive" => sessions[job[v].sid] \in Shells
      BY <2>3, <3>1, ReviveTarget DEF Sees
    <3>3. QED
      BY <2>1, <3>1, <3>2 DEF Sees
  <2>5. QED
    BY <2>4
<1>26. CASE UNCHANGED vars
  BY <1>26 DEF vars, SoleInv, Sees, Quiet
<1>27. QED
  BY <1>1, <1>2, <1>3, <1>4, <1>5, <1>6, <1>7, <1>8, <1>9, <1>10, <1>11, <1>12, <1>13, <1>14,
     <1>15, <1>16, <1>17, <1>18, <1>19, <1>20, <1>21, <1>22, <1>23, <1>24, <1>25, <1>26
  DEF Next, BeginStep, WorkStep

\* A step that neither registers, starts nor kills a shell.
LEMMA ReachKept ==
  ASSUME ShellInv, ShellIsReachable, NEW w \in Workers, \A v \in Workers \ {w} : job'[v] = job[v],
         UNCHANGED <<sessions, sidOf>>, \A n \in Shells : alive'[n] => alive[n], Quiet' => Quiet,
         job[w].at # "register", job'[w].kill = job[w].kill \/ job[w].kill = None
  PROVE  ShellIsReachable'
<1> SUFFICES ASSUME Quiet', NEW n \in Shells, alive'[n]
             PROVE  \/ sessions'[sidOf'[n]] = n
                    \/ \E v \in Workers : (job'[v].at = "register" /\ job'[v].new = n) \/ job'[v].kill = n
  BY DEF ShellIsReachable, Quiet
<1>1. \/ sessions[sidOf[n]] = n
      \/ \E v \in Workers : (job[v].at = "register" /\ job[v].new = n) \/ job[v].kill = n
  BY DEF ShellIsReachable, Quiet
<1>2. ASSUME NEW v \in Workers, (job[v].at = "register" /\ job[v].new = n) \/ job[v].kill = n
      PROVE  (job'[v].at = "register" /\ job'[v].new = n) \/ job'[v].kill = n
  <2>1. CASE v = w
    BY <1>2, <2>1, NoneFacts DEF Ids
  <2>2. CASE v # w
    BY <1>2, <2>2
  <2>3. QED
    BY <2>1, <2>2
<1>3. QED
  BY <1>1, <1>2

\* A step that brings no session into the registry without a tab or a hand for it.
LEMMA KeptKept ==
  ASSUME Typed, KeptInv, NEW w \in Workers, Quiet' => Quiet,
         Quiet' => /\ Registered' \subseteq Registered \cup Hand(w)' \cup Panes'
                   /\ \A s \in Registered' : s \in Panes => s \in Panes' \cup Hand(w)'
                   /\ \A s \in Registered' : s \in Hand(w) => s \in Panes' \cup Hand(w)'
                   /\ \A v \in Workers \ {w} : Hand(v)' = Hand(v)
  PROVE  KeptInv'
<1> SUFFICES ASSUME Quiet', NEW s \in Registered'
             PROVE  s \in Panes' \/ \E v \in Workers : s \in Hand(v)'
  BY DEF KeptInv
<1> HIDE DEF Quiet, Hand, Panes, Registered
<1>1. CASE s \in Registered
  <2>1. s \in Panes \/ \E v \in Workers : s \in Hand(v)
    BY <1>1 DEF KeptInv
  <2>2. QED
    BY <2>1
<1>2. CASE s \notin Registered
  BY <1>2
<1>3. QED
  BY <1>1, <1>2

\* Another handler holds what it held, unless its tab's layout changed.
LEMMA HandSame ==
  ASSUME NEW v \in Workers, job'[v] = job[v],
         job[v].at = "collect" => layout'[job[v].tab] = layout[job[v].tab]
  PROVE  Hand(v)' = Hand(v)
<1>1. Made(v)' = Made(v)
  BY DEF Made
<1>2. CASE job[v].at = "collect"
  BY <1>1, <1>2 DEF Hand
<1>3. CASE job[v].at # "collect"
  BY <1>1, <1>3 DEF Hand
<1>4. QED
  BY <1>2, <1>3

\* What a handler holds, place by place.
LEMMA HandAt ==
  ASSUME NEW w \in Workers, PlaceInv, Typed
  PROVE  /\ job[w].at \in {"idle", "check", "unlink", "copy", "olds", "save", "write"} => Hand(w) = {}
         /\ job[w].at \in {"spawn", "register"} => Hand(w) = job[w].made
         /\ job[w].at \in {"addTab", "insert"} => Hand(w) = {job[w].new}
         /\ job[w].at = "swap" => Hand(w) = IF job[w].op = "replace" THEN job[w].made ELSE {job[w].new}
         /\ job[w].at \in {"purge", "rollback"} => Hand(w) = job[w].todo
         /\ job[w].at = "collect" => Hand(w) = layout[job[w].tab]
<1>1. job[w].at = "swap" => job[w].op \in {"closeLast", "replace"}
  BY PlaceFacts DEF PlaceInv, Typed
<1>2. job[w].op # "replace" => job[w].made = {}
  BY DEF PlaceInv
<1>3. QED
  BY <1>1, <1>2 DEF Hand, Made

\* Without overlap no running shell gets out of reach.
LEMMA ReachStep ==
  TypeOK /\ PlaceInv /\ FreshInv /\ ShellInv /\ SoleInv /\ ShellIsReachable /\ [Next]_vars => ShellIsReachable'
<1> SUFFICES ASSUME TypeOK, PlaceInv, FreshInv, ShellInv, SoleInv, ShellIsReachable, [Next]_vars PROVE ShellIsReachable'
  OBVIOUS
<1>0. Typed
  BY JobTypes
<1>1. ASSUME NEW w \in Workers, NEW t \in Tabs, CreateTab(w, t) PROVE ShellIsReachable'
  <2>1. /\ \A v \in Workers \ {w} : job'[v] = job[v]
        /\ UNCHANGED <<sessions, sidOf, byHand>> /\ job[w].at # "register"
    BY <1>1, AfterCreateTab DEF Begins, Rest, Becomes
  <2>2. alive' = alive /\ (Quiet' => Quiet)
    BY <1>1, <2>1, AlsoCreateTab DEF Quiet
  <2>3. job'[w].kill = job[w].kill \/ job[w].kill = None
    BY <1>1, AfterCreateTab, AlsoCreateTab DEF Begins, Rest, Becomes, ShellInv
  <2>4. QED
    BY <2>1, <2>2, <2>3, ReachKept
<1>2. ASSUME NEW w \in Workers, NEW t \in Tabs, NEW s \in Ids, SplitPane(w, t, s) PROVE ShellIsReachable'
  <2>1. /\ \A v \in Workers \ {w} : job'[v] = job[v]
        /\ UNCHANGED <<sessions, sidOf, byHand>> /\ job[w].at # "register"
    BY <1>2, AfterSplitPane DEF Begins, Rest, Becomes
  <2>2. alive' = alive /\ (Quiet' => Quiet)
    BY <1>2, <2>1, AlsoSplitPane DEF Quiet
  <2>3. job'[w].kill = job[w].kill \/ job[w].kill = None
    BY <1>2, AfterSplitPane, AlsoSplitPane DEF Begins, Rest, Becomes, ShellInv
  <2>4. QED
    BY <2>1, <2>2, <2>3, ReachKept
<1>3. ASSUME NEW w \in Workers, NEW t \in Tabs, NEW s \in Ids, ClosePane(w, t, s) PROVE ShellIsReachable'
  <2>1. /\ \A v \in Workers \ {w} : job'[v] = job[v]
        /\ UNCHANGED <<sessions, sidOf, byHand>> /\ job[w].at # "register"
    BY <1>3, AfterClosePane DEF Begins, Rest, Becomes
  <2>2. alive' = alive /\ (Quiet' => Quiet)
    BY <1>3, <2>1, AlsoClosePane DEF Quiet
  <2>3. job'[w].kill = job[w].kill \/ job[w].kill = None
    BY <1>3, AfterClosePane, AlsoClosePane DEF Begins, Rest, Becomes, ShellInv
  <2>4. QED
    BY <2>1, <2>2, <2>3, ReachKept
<1>4. ASSUME NEW w \in Workers, NEW t \in Tabs, ReplaceTabSessions(w, t) PROVE ShellIsReachable'
  <2>1. /\ \A v \in Workers \ {w} : job'[v] = job[v]
        /\ UNCHANGED <<sessions, sidOf, byHand>> /\ job[w].at # "register"
    BY <1>4, AfterReplaceTabSessions DEF Begins, Rest, Becomes
  <2>2. alive' = alive /\ (Quiet' => Quiet)
    BY <1>4, <2>1, AlsoReplaceTabSessions DEF Quiet
  <2>3. job'[w].kill = job[w].kill \/ job[w].kill = None
    BY <1>4, AfterReplaceTabSessions, AlsoReplaceTabSessions DEF Begins, Rest, Becomes, ShellInv
  <2>4. QED
    BY <2>1, <2>2, <2>3, ReachKept
<1>5. ASSUME NEW w \in Workers, NEW t \in Tabs, DeleteTab(w, t) PROVE ShellIsReachable'
  <2>1. /\ \A v \in Workers \ {w} : job'[v] = job[v]
        /\ UNCHANGED <<sessions, sidOf, byHand>> /\ job[w].at # "register"
    BY <1>5, AfterDeleteTab DEF Begins, Becomes
  <2>2. alive' = alive /\ (Quiet' => Quiet)
    BY <1>5, <2>1, AlsoDeleteTab DEF Quiet
  <2>3. job'[w].kill = job[w].kill \/ job[w].kill = None
    BY <1>5, AfterDeleteTab, AlsoDeleteTab DEF Begins, Becomes, ShellInv
  <2>4. QED
    BY <2>1, <2>2, <2>3, ReachKept
<1>6. ASSUME NEW w \in Workers, NEW s \in Ids, DeleteSession(w, s) PROVE ShellIsReachable'
  <2>1. byHand' # {}
    BY <1>6, AfterDeleteSession
  <2>2. QED
    BY <2>1 DEF ShellIsReachable
<1>7. ASSUME NEW w \in Workers, NEW t \in Tabs, NEW s \in Ids, AttachSession(w, t, s) PROVE ShellIsReachable'
  <2>1. /\ \A v \in Workers \ {w} : job'[v] = job[v]
        /\ UNCHANGED <<sessions, sidOf, byHand>> /\ job[w].at # "register"
    BY <1>7, AfterAttachSession DEF Begins, Rest, Becomes
  <2>2. alive' = alive /\ (Quiet' => Quiet)
    BY <1>7, <2>1, AlsoAttachSession DEF Quiet
  <2>3. job'[w].kill = job[w].kill \/ job[w].kill = None
    BY <1>7, AfterAttachSession, AlsoAttachSession DEF Begins, Rest, Becomes, ShellInv
  <2>4. QED
    BY <2>1, <2>2, <2>3, ReachKept
<1>8. ASSUME NEW w \in Workers, SaveState(w) PROVE ShellIsReachable'
  <2>1. /\ \A v \in Workers \ {w} : job'[v] = job[v]
        /\ UNCHANGED <<sessions, sidOf, byHand>> /\ job[w].at # "register"
    BY <1>8, AfterSaveState DEF Begins, Rest, Becomes
  <2>2. alive' = alive /\ (Quiet' => Quiet)
    BY <1>8, <2>1, AlsoSaveState DEF Quiet
  <2>3. job'[w].kill = job[w].kill \/ job[w].kill = None
    BY <1>8, AfterSaveState, AlsoSaveState DEF Begins, Rest, Becomes, ShellInv
  <2>4. QED
    BY <2>1, <2>2, <2>3, ReachKept
<1>9. ASSUME NEW w \in Workers, CheckDead(w) PROVE ShellIsReachable'
  <2>1. /\ \A v \in Workers \ {w} : job'[v] = job[v]
        /\ UNCHANGED <<sessions, sidOf, byHand>> /\ job[w].at # "register"
    BY <1>9, AfterCheckDead DEF Moves, Ends, Rest, Becomes
  <2>2. alive' = alive /\ (Quiet' => Quiet)
    BY <1>9, <2>1, AlsoCheckDead DEF Quiet
  <2>3. job'[w].kill = job[w].kill \/ job[w].kill = None
    BY <1>9, AfterCheckDead, AlsoCheckDead DEF Moves, Ends, Rest, Becomes, ShellInv
  <2>4. QED
    BY <2>1, <2>2, <2>3, ReachKept
<1>10. ASSUME NEW w \in Workers, Spawn(w) PROVE ShellIsReachable'
  <2> SUFFICES ASSUME Quiet', NEW m \in Shells, alive'[m]
               PROVE  \/ sessions'[sidOf'[m]] = m
                      \/ \E v \in Workers : (job'[v].at = "register" /\ job'[v].new = m) \/ job'[v].kill = m
    BY DEF ShellIsReachable, Quiet
  <2> DEFINE n == spawned + 1
  <2>1. /\ \A v \in Workers \ {w} : job'[v] = job[v]
        /\ job[w].at = "spawn" /\ job'[w].at = "register" /\ job'[w].new = n
        /\ UNCHANGED <<sessions, byHand>>
        /\ sidOf' = [sidOf EXCEPT ![n] = IF job[w].op = "revive" THEN job[w].sid ELSE @]
    BY <1>10, AfterSpawn DEF Becomes
  <2>2. alive' = [alive EXCEPT ![n] = TRUE] /\ overlapped' = overlapped
    BY <1>10, AlsoSpawn
  <2>3. CASE m = n
    BY <2>1, <2>3
  <2>4. CASE m # n
    <3>1. alive[m] /\ sidOf'[m] = sidOf[m]
      BY <1>0, <2>1, <2>2, <2>4 DEF TypeOK, Typed, Ids
    <3>2. \/ sessions[sidOf[m]] = m
          \/ \E v \in Workers : (job[v].at = "register" /\ job[v].new = m) \/ job[v].kill = m
      BY <2>1, <2>2, <3>1 DEF ShellIsReachable, Quiet
    <3>3. ASSUME NEW v \in Workers, (job[v].at = "register" /\ job[v].new = m) \/ job[v].kill = m
          PROVE  (job'[v].at = "register" /\ job'[v].new = m) \/ job'[v].kill = m
      <4>1. v # w
        BY <2>1, <3>3, NoneFacts DEF ShellInv, Ids
      <4>2. QED
        BY <2>1, <3>3, <4>1
    <3>4. QED
      BY <2>1, <3>1, <3>2, <3>3
  <2>5. QED
    BY <2>3, <2>4
<1>11. ASSUME NEW w \in Workers, SpawnFails(w) PROVE ShellIsReachable'
  <2>1. /\ \A v \in Workers \ {w} : job'[v] = job[v]
        /\ UNCHANGED <<sessions, sidOf, byHand>> /\ job[w].at # "register"
    BY <1>11, AfterSpawnFails DEF Moves, Ends, Rest, Becomes
  <2>2. alive' = alive /\ (Quiet' => Quiet)
    BY <1>11, <2>1, AlsoSpawnFails DEF Quiet
  <2>3. job'[w].kill = job[w].kill \/ job[w].kill = None
    BY <1>11, AfterSpawnFails, AlsoSpawnFails DEF Moves, Ends, Rest, Becomes, ShellInv
  <2>4. QED
    BY <2>1, <2>2, <2>3, ReachKept
<1>12. ASSUME NEW w \in Workers, Register(w) PROVE ShellIsReachable'
  <2> SUFFICES ASSUME Quiet', NEW m \in Shells, alive'[m]
               PROVE  \/ sessions'[sidOf'[m]] = m
                      \/ \E v \in Workers : (job'[v].at = "register" /\ job'[v].new = m) \/ job'[v].kill = m
    BY DEF ShellIsReachable, Quiet
  <2> DEFINE n == job[w].new
             s == sidOf[n]
  <2>1. /\ \A v \in Workers \ {w} : job'[v] = job[v]
        /\ job[w].at = "register" /\ sessions' = [sessions EXCEPT ![s] = n]
        /\ UNCHANGED <<live, layout, sidOf, byHand>>
    BY <1>12, AfterRegister DEF Moves, Ends, Becomes
  <2>2. alive' = alive /\ overlapped' = overlapped /\ job[w].kill = None
    BY <1>12, <2>1, AlsoRegister DEF ShellInv
  <2>3. Quiet
    BY <2>1, <2>2 DEF Quiet
  <2>4. n \in Ids /\ s \in Ids /\ m \in Ids
    BY <1>0, <2>1 DEF Typed, PlaceInv, Ids
  <2>5. CASE m = n
    BY <1>0, <2>1, <2>4, <2>5 DEF Typed
  <2>6. CASE m # n
    <3>1. CASE sessions[sidOf[m]] = m
      <4>1. s # sidOf[m]
        <5>1. CASE job[w].op = "revive"
          BY <2>1, <2>2, <2>3, <3>1, <5>1 DEF ShellInv, SoleInv, Sees
        <5>2. CASE job[w].op # "revive"
          <6>1. s = n /\ sessions[n] = None
            BY <2>1, <5>2 DEF ShellInv, FreshInv, InHand
          <6>2. QED
            BY <2>4, <3>1, <6>1, NoneFacts
        <5>3. QED
          BY <5>1, <5>2
      <4>2. QED
        BY <1>0, <2>1, <2>4, <3>1, <4>1 DEF Typed
    <3>2. CASE \E v \in Workers : (job[v].at = "register" /\ job[v].new = m) \/ job[v].kill = m
      <4>1. PICK v \in Workers : (job[v].at = "register" /\ job[v].new = m) \/ job[v].kill = m
        BY <3>2
      <4>2. v # w
        BY <2>2, <2>4, <2>6, <4>1, NoneFacts
      <4>3. QED
        BY <2>1, <4>1, <4>2
    <3>3. QED
      BY <2>2, <2>3, <3>1, <3>2 DEF ShellIsReachable, Quiet
  <2>7. QED
    BY <2>5, <2>6
<1>13. ASSUME NEW w \in Workers, AddTab(w) PROVE ShellIsReachable'
  <2>1. /\ \A v \in Workers \ {w} : job'[v] = job[v]
        /\ UNCHANGED <<sessions, sidOf, byHand>> /\ job[w].at # "register"
    BY <1>13, AfterAddTab DEF Ends, Becomes
  <2>2. alive' = alive /\ (Quiet' => Quiet)
    BY <1>13, <2>1, AlsoAddTab DEF Quiet
  <2>3. job'[w].kill = job[w].kill \/ job[w].kill = None
    BY <1>13, AfterAddTab, AlsoAddTab DEF Ends, Becomes, ShellInv
  <2>4. QED
    BY <2>1, <2>2, <2>3, ReachKept
<1>14. ASSUME NEW w \in Workers, Insert(w) PROVE ShellIsReachable'
  <2>1. /\ \A v \in Workers \ {w} : job'[v] = job[v]
        /\ UNCHANGED <<sessions, sidOf, byHand>> /\ job[w].at # "register"
    BY <1>14, AfterInsert DEF Moves, Becomes
  <2>2. alive' = alive /\ (Quiet' => Quiet)
    BY <1>14, <2>1, AlsoInsert DEF Quiet
  <2>3. job'[w].kill = job[w].kill \/ job[w].kill = None
    BY <1>14, AfterInsert, AlsoInsert DEF Moves, Becomes, ShellInv
  <2>4. QED
    BY <2>1, <2>2, <2>3, ReachKept
<1>15. ASSUME NEW w \in Workers, Swap(w) PROVE ShellIsReachable'
  <2>1. /\ \A v \in Workers \ {w} : job'[v] = job[v]
        /\ UNCHANGED <<sessions, sidOf, byHand>> /\ job[w].at # "register"
    BY <1>15, AfterSwap DEF Moves, Becomes
  <2>2. alive' = alive /\ (Quiet' => Quiet)
    BY <1>15, <2>1, AlsoSwap DEF Quiet
  <2>3. job'[w].kill = job[w].kill \/ job[w].kill = None
    BY <1>15, AfterSwap, AlsoSwap DEF Moves, Becomes, ShellInv
  <2>4. QED
    BY <2>1, <2>2, <2>3, ReachKept
<1>16. ASSUME NEW w \in Workers, Unlink(w) PROVE ShellIsReachable'
  <2>1. /\ \A v \in Workers \ {w} : job'[v] = job[v]
        /\ UNCHANGED <<sessions, sidOf, byHand>> /\ job[w].at # "register"
    BY <1>16, AfterUnlink DEF Moves, Ends, Becomes
  <2>2. alive' = alive /\ (Quiet' => Quiet)
    BY <1>16, <2>1, AlsoUnlink DEF Quiet
  <2>3. job'[w].kill = job[w].kill \/ job[w].kill = None
    BY <1>16, AfterUnlink, AlsoUnlink DEF Moves, Ends, Becomes, ShellInv
  <2>4. QED
    BY <2>1, <2>2, <2>3, ReachKept
<1>17. ASSUME NEW w \in Workers, CopyLayout(w) PROVE ShellIsReachable'
  <2>1. /\ \A v \in Workers \ {w} : job'[v] = job[v]
        /\ UNCHANGED <<sessions, sidOf, byHand>> /\ job[w].at # "register"
    BY <1>17, AfterCopyLayout DEF Moves, Rest, Becomes
  <2>2. alive' = alive /\ (Quiet' => Quiet)
    BY <1>17, <2>1, AlsoCopyLayout DEF Quiet
  <2>3. job'[w].kill = job[w].kill \/ job[w].kill = None
    BY <1>17, AfterCopyLayout, AlsoCopyLayout DEF Moves, Rest, Becomes, ShellInv
  <2>4. QED
    BY <2>1, <2>2, <2>3, ReachKept
<1>18. ASSUME NEW w \in Workers, CollectOld(w) PROVE ShellIsReachable'
  <2>1. /\ \A v \in Workers \ {w} : job'[v] = job[v]
        /\ UNCHANGED <<sessions, sidOf, byHand>> /\ job[w].at # "register"
    BY <1>18, AfterCollectOld DEF Moves, Rest, Becomes
  <2>2. alive' = alive /\ (Quiet' => Quiet)
    BY <1>18, <2>1, AlsoCollectOld DEF Quiet
  <2>3. job'[w].kill = job[w].kill \/ job[w].kill = None
    BY <1>18, AfterCollectOld, AlsoCollectOld DEF Moves, Rest, Becomes, ShellInv
  <2>4. QED
    BY <2>1, <2>2, <2>3, ReachKept
<1>19. ASSUME NEW w \in Workers, Collect(w) PROVE ShellIsReachable'
  <2>1. /\ \A v \in Workers \ {w} : job'[v] = job[v]
        /\ UNCHANGED <<sessions, sidOf, byHand>> /\ job[w].at # "register"
    BY <1>19, AfterCollect DEF Moves, Rest, Becomes
  <2>2. alive' = alive /\ (Quiet' => Quiet)
    BY <1>19, <2>1, AlsoCollect DEF Quiet
  <2>3. job'[w].kill = job[w].kill \/ job[w].kill = None
    BY <1>19, AfterCollect, AlsoCollect DEF Moves, Rest, Becomes, ShellInv
  <2>4. QED
    BY <2>1, <2>2, <2>3, ReachKept
<1>20. ASSUME NEW w \in Workers, NEW s \in Ids, Purge(w, s) PROVE ShellIsReachable'
  <2> SUFFICES ASSUME Quiet', NEW m \in Shells, alive'[m]
               PROVE  \/ sessions'[sidOf'[m]] = m
                      \/ \E v \in Workers : (job'[v].at = "register" /\ job'[v].new = m) \/ job'[v].kill = m
    BY DEF ShellIsReachable, Quiet
  <2>1. /\ \A v \in Workers \ {w} : job'[v] = job[v]
        /\ job[w].at \in {"purge", "rollback"} /\ sessions' = [sessions EXCEPT ![s] = None]
        /\ UNCHANGED <<sidOf, byHand>>
    BY <1>20, AfterPurge DEF Moves, Becomes
  <2>2. /\ alive' = alive /\ overlapped' = overlapped
        /\ job[w].kill = None /\ job'[w].kill = sessions[s]
    BY <1>20, AlsoPurge
  <2>3. CASE sessions[sidOf[m]] = m
    <3>1. CASE sidOf[m] = s
      BY <2>2, <2>3, <3>1
    <3>2. CASE sidOf[m] # s
      BY <1>0, <2>1, <2>3, <3>2 DEF Typed, Ids
    <3>3. QED
      BY <3>1, <3>2
  <2>4. CASE \E v \in Workers : (job[v].at = "register" /\ job[v].new = m) \/ job[v].kill = m
    <3>1. PICK v \in Workers : (job[v].at = "register" /\ job[v].new = m) \/ job[v].kill = m
      BY <2>4
    <3>2. v # w
      BY <2>1, <2>2, <3>1, NoneFacts DEF Ids
    <3>3. QED
      BY <2>1, <3>1, <3>2
  <2>5. QED
    BY <2>1, <2>2, <2>3, <2>4 DEF ShellIsReachable, Quiet
<1>21. ASSUME NEW w \in Workers, Kill(w) PROVE ShellIsReachable'
  <2> SUFFICES ASSUME Quiet', NEW m \in Shells, alive'[m]
               PROVE  \/ sessions'[sidOf'[m]] = m
                      \/ \E v \in Workers : (job'[v].at = "register" /\ job'[v].new = m) \/ job'[v].kill = m
    BY DEF ShellIsReachable, Quiet
  <2>1. /\ \A v \in Workers \ {w} : job'[v] = job[v]
        /\ UNCHANGED <<sessions, sidOf, byHand>>
        /\ job'[w].at = job[w].at /\ job'[w].new = job[w].new
    BY <1>21, AfterKill DEF Moves, Rest, Becomes
  <2>2. job[w].kill # None /\ alive' = [alive EXCEPT ![job[w].kill] = FALSE] /\ overlapped' = overlapped
    BY <1>21, AlsoKill
  <2>3. m # job[w].kill /\ alive[m]
    BY <2>2 DEF TypeOK
  <2>4. \/ sessions[sidOf[m]] = m
        \/ \E v \in Workers : (job[v].at = "register" /\ job[v].new = m) \/ job[v].kill = m
    BY <2>1, <2>2, <2>3 DEF ShellIsReachable, Quiet
  <2>5. ASSUME NEW v \in Workers, (job[v].at = "register" /\ job[v].new = m) \/ job[v].kill = m
        PROVE  (job'[v].at = "register" /\ job'[v].new = m) \/ job'[v].kill = m
    <3>1. CASE v = w
      BY <2>1, <2>3, <2>5, <3>1
    <3>2. CASE v # w
      BY <2>1, <2>5, <3>2
    <3>3. QED
      BY <3>1, <3>2
  <2>6. QED
    BY <2>1, <2>4, <2>5
<1>22. ASSUME NEW w \in Workers, Purged(w) PROVE ShellIsReachable'
  <2>1. /\ \A v \in Workers \ {w} : job'[v] = job[v]
        /\ UNCHANGED <<sessions, sidOf, byHand>> /\ job[w].at # "register"
    BY <1>22, AfterPurged DEF Moves, Ends, Rest, Becomes
  <2>2. alive' = alive /\ (Quiet' => Quiet)
    BY <1>22, <2>1, AlsoPurged DEF Quiet
  <2>3. job'[w].kill = job[w].kill \/ job[w].kill = None
    BY <1>22, AfterPurged, AlsoPurged DEF Moves, Ends, Rest, Becomes, ShellInv
  <2>4. QED
    BY <2>1, <2>2, <2>3, ReachKept
<1>23. ASSUME NEW w \in Workers, Capture(w) PROVE ShellIsReachable'
  <2>1. /\ \A v \in Workers \ {w} : job'[v] = job[v]
        /\ UNCHANGED <<sessions, sidOf, byHand>> /\ job[w].at # "register"
    BY <1>23, AfterCapture DEF Moves, Rest, Becomes
  <2>2. alive' = alive /\ (Quiet' => Quiet)
    BY <1>23, <2>1, AlsoCapture DEF Quiet
  <2>3. job'[w].kill = job[w].kill \/ job[w].kill = None
    BY <1>23, AfterCapture, AlsoCapture DEF Moves, Rest, Becomes, ShellInv
  <2>4. QED
    BY <2>1, <2>2, <2>3, ReachKept
<1>24. ASSUME NEW w \in Workers, WriteState(w) PROVE ShellIsReachable'
  <2>1. /\ \A v \in Workers \ {w} : job'[v] = job[v]
        /\ UNCHANGED <<sessions, sidOf, byHand>> /\ job[w].at # "register"
    BY <1>24, AfterWriteState DEF Ends, Rest, Becomes
  <2>2. alive' = alive /\ (Quiet' => Quiet)
    BY <1>24, <2>1, AlsoWriteState DEF Quiet
  <2>3. job'[w].kill = job[w].kill \/ job[w].kill = None
    BY <1>24, AfterWriteState, AlsoWriteState DEF Ends, Rest, Becomes, ShellInv
  <2>4. QED
    BY <2>1, <2>2, <2>3, ReachKept
<1>25. ASSUME NEW n \in Shells, ShellExit(n) PROVE ShellIsReachable'
  <2>1. /\ UNCHANGED <<sessions, sidOf, job, overlapped, byHand>>
        /\ \A m \in Shells : alive'[m] => alive[m]
    BY <1>25 DEF ShellExit, registry, history, TypeOK
  <2>2. QED
    BY <2>1 DEF ShellIsReachable
<1>26. CASE UNCHANGED vars
  BY <1>26 DEF vars, ShellIsReachable
<1>27. QED
  BY <1>1, <1>2, <1>3, <1>4, <1>5, <1>6, <1>7, <1>8, <1>9, <1>10, <1>11, <1>12, <1>13, <1>14,
     <1>15, <1>16, <1>17, <1>18, <1>19, <1>20, <1>21, <1>22, <1>23, <1>24, <1>25, <1>26
  DEF Next, BeginStep, WorkStep

\* Without overlap no session is left behind.
LEMMA KeptStep ==
  TypeOK /\ PlaceInv /\ FreshInv /\ TabInv /\ ShellInv /\ SoleInv /\ KeptInv /\ [Next]_vars => KeptInv'
<1> SUFFICES ASSUME TypeOK, PlaceInv, FreshInv, TabInv, ShellInv, SoleInv, KeptInv, [Next]_vars PROVE KeptInv'
  OBVIOUS
<1>0. Typed
  BY JobTypes
<1>1. ASSUME NEW w \in Workers, NEW t \in Tabs, CreateTab(w, t) PROVE KeptInv'
  <2>1. /\ \A v \in Workers \ {w} : job'[v] = job[v]
        /\ UNCHANGED <<sessions, live, layout, byHand>>
    BY <1>1, AfterCreateTab DEF Begins, Rest, Becomes
  <2>2. Quiet' => Quiet
    BY <1>1, <2>1, AlsoCreateTab DEF Quiet
  <2>3. Registered' = Registered /\ Panes' = Panes
    BY <2>1 DEF Registered, Panes
  <2>4. \A v \in Workers \ {w} : Hand(v)' = Hand(v)
    BY <2>1, HandSame
  <2>5. Hand(w) = {}
    BY <1>0, <1>1, AfterCreateTab, HandAt DEF Begins, Rest, Becomes
  <2>6. QED
    BY <1>0, <2>2, <2>3, <2>4, <2>5, KeptKept
<1>2. ASSUME NEW w \in Workers, NEW t \in Tabs, NEW s \in Ids, SplitPane(w, t, s) PROVE KeptInv'
  <2>1. /\ \A v \in Workers \ {w} : job'[v] = job[v]
        /\ UNCHANGED <<sessions, live, layout, byHand>>
    BY <1>2, AfterSplitPane DEF Begins, Rest, Becomes
  <2>2. Quiet' => Quiet
    BY <1>2, <2>1, AlsoSplitPane DEF Quiet
  <2>3. Registered' = Registered /\ Panes' = Panes
    BY <2>1 DEF Registered, Panes
  <2>4. \A v \in Workers \ {w} : Hand(v)' = Hand(v)
    BY <2>1, HandSame
  <2>5. Hand(w) = {}
    BY <1>0, <1>2, AfterSplitPane, HandAt DEF Begins, Rest, Becomes
  <2>6. QED
    BY <1>0, <2>2, <2>3, <2>4, <2>5, KeptKept
<1>3. ASSUME NEW w \in Workers, NEW t \in Tabs, NEW s \in Ids, ClosePane(w, t, s) PROVE KeptInv'
  <2>1. /\ \A v \in Workers \ {w} : job'[v] = job[v]
        /\ UNCHANGED <<sessions, live, layout, byHand>>
    BY <1>3, AfterClosePane DEF Begins, Rest, Becomes
  <2>2. Quiet' => Quiet
    BY <1>3, <2>1, AlsoClosePane DEF Quiet
  <2>3. Registered' = Registered /\ Panes' = Panes
    BY <2>1 DEF Registered, Panes
  <2>4. \A v \in Workers \ {w} : Hand(v)' = Hand(v)
    BY <2>1, HandSame
  <2>5. Hand(w) = {}
    BY <1>0, <1>3, AfterClosePane, HandAt DEF Begins, Rest, Becomes
  <2>6. QED
    BY <1>0, <2>2, <2>3, <2>4, <2>5, KeptKept
<1>4. ASSUME NEW w \in Workers, NEW t \in Tabs, ReplaceTabSessions(w, t) PROVE KeptInv'
  <2>1. /\ \A v \in Workers \ {w} : job'[v] = job[v]
        /\ UNCHANGED <<sessions, live, layout, byHand>>
    BY <1>4, AfterReplaceTabSessions DEF Begins, Rest, Becomes
  <2>2. Quiet' => Quiet
    BY <1>4, <2>1, AlsoReplaceTabSessions DEF Quiet
  <2>3. Registered' = Registered /\ Panes' = Panes
    BY <2>1 DEF Registered, Panes
  <2>4. \A v \in Workers \ {w} : Hand(v)' = Hand(v)
    BY <2>1, HandSame
  <2>5. Hand(w) = {}
    BY <1>0, <1>4, AfterReplaceTabSessions, HandAt DEF Begins, Rest, Becomes
  <2>6. QED
    BY <1>0, <2>2, <2>3, <2>4, <2>5, KeptKept
<1>5. ASSUME NEW w \in Workers, NEW t \in Tabs, DeleteTab(w, t) PROVE KeptInv'
  <2>1. /\ \A v \in Workers \ {w} : job'[v] = job[v]
        /\ job[w].at = "idle" /\ job'[w].at = "collect" /\ job'[w].tab = t
        /\ live' = live \ {t} /\ UNCHANGED <<sessions, layout, byHand>>
    BY <1>5, AfterDeleteTab DEF Begins, Becomes
  <2>2. Quiet' => Quiet
    BY <1>5, <2>1, AlsoDeleteTab DEF Quiet
  <2>3. Registered' = Registered
    BY <2>1 DEF Registered
  <2>4. \A v \in Workers \ {w} : Hand(v)' = Hand(v)
    BY <2>1, HandSame
  <2>5. Hand(w) = {} /\ layout[t] \subseteq Hand(w)'
    BY <1>0, <2>1, HandAt DEF Hand
  <2>6. Panes \subseteq Panes' \cup layout[t]
    BY <2>1 DEF Panes
  <2>7. QED
    BY <1>0, <2>2, <2>3, <2>4, <2>5, <2>6, KeptKept
<1>6. ASSUME NEW w \in Workers, NEW s \in Ids, DeleteSession(w, s) PROVE KeptInv'
  <2>1. byHand' # {}
    BY <1>6, AfterDeleteSession
  <2>2. QED
    BY <2>1 DEF KeptInv, Quiet
<1>7. ASSUME NEW w \in Workers, NEW t \in Tabs, NEW s \in Ids, AttachSession(w, t, s) PROVE KeptInv'
  <2>1. /\ \A v \in Workers \ {w} : job'[v] = job[v]
        /\ UNCHANGED <<sessions, live, layout, byHand>>
    BY <1>7, AfterAttachSession DEF Begins, Rest, Becomes
  <2>2. Quiet' => Quiet
    BY <1>7, <2>1, AlsoAttachSession DEF Quiet
  <2>3. Registered' = Registered /\ Panes' = Panes
    BY <2>1 DEF Registered, Panes
  <2>4. \A v \in Workers \ {w} : Hand(v)' = Hand(v)
    BY <2>1, HandSame
  <2>5. Hand(w) = {}
    BY <1>0, <1>7, AfterAttachSession, HandAt DEF Begins, Rest, Becomes
  <2>6. QED
    BY <1>0, <2>2, <2>3, <2>4, <2>5, KeptKept
<1>8. ASSUME NEW w \in Workers, SaveState(w) PROVE KeptInv'
  <2>1. /\ \A v \in Workers \ {w} : job'[v] = job[v]
        /\ UNCHANGED <<sessions, live, layout, byHand>>
    BY <1>8, AfterSaveState DEF Begins, Rest, Becomes
  <2>2. Quiet' => Quiet
    BY <1>8, <2>1, AlsoSaveState DEF Quiet
  <2>3. Registered' = Registered /\ Panes' = Panes
    BY <2>1 DEF Registered, Panes
  <2>4. \A v \in Workers \ {w} : Hand(v)' = Hand(v)
    BY <2>1, HandSame
  <2>5. Hand(w) = {}
    BY <1>0, <1>8, AfterSaveState, HandAt DEF Begins, Rest, Becomes
  <2>6. QED
    BY <1>0, <2>2, <2>3, <2>4, <2>5, KeptKept
<1>9. ASSUME NEW w \in Workers, CheckDead(w) PROVE KeptInv'
  <2>1. /\ \A v \in Workers \ {w} : job'[v] = job[v]
        /\ UNCHANGED <<sessions, live, layout, byHand>>
    BY <1>9, AfterCheckDead DEF Moves, Ends, Rest, Becomes
  <2>2. Quiet' => Quiet
    BY <1>9, <2>1, AlsoCheckDead DEF Quiet
  <2>3. Registered' = Registered /\ Panes' = Panes
    BY <2>1 DEF Registered, Panes
  <2>4. \A v \in Workers \ {w} : Hand(v)' = Hand(v)
    BY <2>1, HandSame
  <2>5. Hand(w) = {}
    BY <1>0, <1>9, AfterCheckDead, HandAt DEF Moves, Ends, Rest, Becomes
  <2>6. QED
    BY <1>0, <2>2, <2>3, <2>4, <2>5, KeptKept
<1>10. ASSUME NEW w \in Workers, Spawn(w) PROVE KeptInv'
  <2>1. /\ \A v \in Workers \ {w} : job'[v] = job[v]
        /\ UNCHANGED <<sessions, live, layout, byHand>>
    BY <1>10, AfterSpawn DEF Becomes
  <2>2. Quiet' => Quiet
    BY <1>10, <2>1, AlsoSpawn DEF Quiet
  <2>3. Registered' = Registered /\ Panes' = Panes
    BY <2>1 DEF Registered, Panes
  <2>4. \A v \in Workers \ {w} : Hand(v)' = Hand(v)
    BY <2>1, HandSame
  <2>5. Hand(w) \subseteq Hand(w)'
    <3>1. job[w].at = "spawn" /\ job'[w].at = "register" /\ job'[w].made = job[w].made
      BY <1>10, AfterSpawn DEF Becomes
    <3>2. Hand(w) = job[w].made
      BY <1>0, <3>1, HandAt
    <3>3. QED
      BY <3>1, <3>2 DEF Hand, Made
  <2>6. QED
    BY <1>0, <2>2, <2>3, <2>4, <2>5, KeptKept
<1>11. ASSUME NEW w \in Workers, SpawnFails(w) PROVE KeptInv'
  <2>1. /\ \A v \in Workers \ {w} : job'[v] = job[v]
        /\ UNCHANGED <<sessions, live, layout, byHand>>
    BY <1>11, AfterSpawnFails DEF Moves, Ends, Rest, Becomes
  <2>2. Quiet' => Quiet
    BY <1>11, <2>1, AlsoSpawnFails DEF Quiet
  <2>3. Registered' = Registered /\ Panes' = Panes
    BY <2>1 DEF Registered, Panes
  <2>4. \A v \in Workers \ {w} : Hand(v)' = Hand(v)
    BY <2>1, HandSame
  <2>5. Hand(w) \subseteq Hand(w)'
    <3>1. job[w].at = "spawn"
      BY <1>11, AfterSpawnFails DEF Moves, Ends
    <3>2. Hand(w) = job[w].made
      BY <1>0, <3>1, HandAt
    <3>3. CASE job[w].op = "replace"
      <4>1. job'[w].at = "rollback" /\ job'[w].todo = job[w].made
        BY <1>11, <3>3, AfterSpawnFails DEF Moves, Becomes
      <4>2. QED
        BY <3>2, <4>1 DEF Hand
    <3>4. CASE job[w].op # "replace"
      BY <3>2, <3>4 DEF PlaceInv
    <3>5. QED
      BY <3>3, <3>4
  <2>6. QED
    BY <1>0, <2>2, <2>3, <2>4, <2>5, KeptKept
<1>12. ASSUME NEW w \in Workers, Register(w) PROVE KeptInv'
  <2> DEFINE n == job[w].new
  <2>1. /\ \A v \in Workers \ {w} : job'[v] = job[v]
        /\ job[w].at = "register" /\ sessions' = [sessions EXCEPT ![sidOf[n]] = n]
        /\ UNCHANGED <<live, layout, byHand>>
    BY <1>12, AfterRegister DEF Moves, Ends, Becomes
  <2>2. Quiet' => Quiet
    BY <1>12, <2>1, AlsoRegister DEF Quiet
  <2>3. Registered' \subseteq Registered \cup {sidOf[n]} /\ Panes' = Panes
    <3>1. \A s \in Ids : s # sidOf[n] => sessions'[s] = sessions[s]
      BY <1>0, <2>1 DEF Typed
    <3>2. QED
      BY <2>1, <3>1 DEF Registered, Panes
  <2>4. \A v \in Workers \ {w} : Hand(v)' = Hand(v)
    BY <2>1, HandSame
  <2>5. Hand(w) = job[w].made
    BY <1>0, <2>1, HandAt
  <2>6. CASE job[w].op = "revive"
    <3>1. Quiet => sidOf[n] \in Panes
      BY <1>0, <2>1, <2>6 DEF ShellInv, SoleInv, Sees, Panes, Typed
    <3>2. Hand(w) = {}
      BY <2>5, <2>6 DEF PlaceInv
    <3>3. QED
      BY <1>0, <2>2, <2>3, <2>4, <3>1, <3>2, KeptKept
  <2>7. CASE job[w].op # "revive"
    <3>1. sidOf[n] = n
      BY <2>1, <2>7 DEF FreshInv, InHand
    <3>2. n \in Hand(w)'
      <4>1. \/ job'[w].at \in {"addTab", "insert"} /\ job'[w].new = n
            \/ job'[w].at = "swap" /\ job'[w].op = "closeLast" /\ job'[w].new = n
            \/ job'[w].at \in {"spawn", "swap"} /\ job'[w].made = job[w].made \cup {n}
        BY <1>12, <2>7, AfterRegister DEF Moves, Ends, Becomes
      <4>2. QED
        BY <4>1 DEF Hand, Made
    <3>3. Hand(w) \subseteq Hand(w)'
      <4>1. CASE job[w].op = "replace"
        <5>1. job'[w].at \in {"spawn", "swap"} /\ job'[w].made = job[w].made \cup {n}
          BY <1>12, <4>1, AfterRegister DEF Moves, Ends, Becomes
        <5>2. QED
          BY <2>5, <5>1 DEF Hand, Made
      <4>2. CASE job[w].op # "replace"
        BY <2>5, <4>2 DEF PlaceInv
      <4>3. QED
        BY <4>1, <4>2
    <3>4. QED
      BY <1>0, <2>2, <2>3, <2>4, <3>1, <3>2, <3>3, KeptKept
  <2>8. QED
    BY <2>6, <2>7
<1>13. ASSUME NEW w \in Workers, AddTab(w) PROVE KeptInv'
  <2> DEFINE t == job[w].tab
  <2>1. /\ \A v \in Workers \ {w} : job'[v] = job[v]
        /\ job[w].at = "addTab" /\ UNCHANGED <<sessions, byHand>>
    BY <1>13, AfterAddTab DEF Ends, Becomes
  <2>2. Quiet' => Quiet
    BY <1>13, <2>1, AlsoAddTab DEF Quiet
  <2>3. Registered' = Registered
    BY <2>1 DEF Registered
  <2>4. job[w].op \in {"create"} /\ t \in Tabs
    BY <1>0, <2>1, PlaceFacts DEF PlaceInv, Typed
  <2>5. \A u \in Tabs : u # t => layout'[u] = layout[u] /\ (u \in live <=> u \in live')
    BY <1>0, <1>13, AfterAddTab DEF Ends, Typed
  <2>6. Quiet => \A v \in Workers \ {w} : Hand(v)' = Hand(v)
    <3>1. SUFFICES ASSUME Quiet, NEW v \in Workers, v # w PROVE Hand(v)' = Hand(v)
      OBVIOUS
    <3>2. job[v].tab # t \/ job[v].tab = None
      BY <3>1 DEF SoleInv
    <3>3. job[v].at = "collect" => job[v].tab \in Tabs
      BY <1>0, PlaceFacts DEF PlaceInv, Typed
    <3>4. job[v].at = "collect" => layout'[job[v].tab] = layout[job[v].tab]
      BY <2>5, <3>2, <3>3, NoneFacts
    <3>5. QED
      BY <2>1, <3>1, <3>4, HandSame
  <2>7. t \in live' /\ layout'[t] = {job[w].new}
    BY <1>0, <1>13, <2>4, AfterAddTab DEF Typed
  <2>8. t \notin live
    BY <2>4 DEF TabInv
  <2>9. Panes \subseteq Panes' /\ job[w].new \in Panes'
    <3>1. live \subseteq Tabs
      BY <1>0 DEF Typed
    <3>2. QED
      BY <2>5, <2>7, <2>8, <3>1 DEF Panes
  <2>10. Hand(w) = {job[w].new}
    BY <1>0, <2>1, HandAt
  <2>11. QED
    BY <1>0, <2>2, <2>3, <2>6, <2>9, <2>10, KeptKept
<1>14. ASSUME NEW w \in Workers, Insert(w) PROVE KeptInv'
  <2> DEFINE t == job[w].tab
  <2>1. /\ \A v \in Workers \ {w} : job'[v] = job[v]
        /\ job[w].at = "insert" /\ UNCHANGED <<sessions, byHand>>
    BY <1>14, AfterInsert DEF Moves, Becomes
  <2>2. Quiet' => Quiet
    BY <1>14, <2>1, AlsoInsert DEF Quiet
  <2>3. Registered' = Registered
    BY <2>1 DEF Registered
  <2>4. job[w].op \in {"split"} /\ t \in Tabs
    BY <1>0, <2>1, PlaceFacts DEF PlaceInv, Typed
  <2>5. \A u \in Tabs : u # t => layout'[u] = layout[u] /\ (u \in live <=> u \in live')
    BY <1>0, <1>14, AfterInsert DEF Moves, Typed
  <2>6. Quiet => \A v \in Workers \ {w} : Hand(v)' = Hand(v)
    <3>1. SUFFICES ASSUME Quiet, NEW v \in Workers, v # w PROVE Hand(v)' = Hand(v)
      OBVIOUS
    <3>2. job[v].tab # t \/ job[v].tab = None
      BY <3>1 DEF SoleInv
    <3>3. job[v].at = "collect" => job[v].tab \in Tabs
      BY <1>0, PlaceFacts DEF PlaceInv, Typed
    <3>4. job[v].at = "collect" => layout'[job[v].tab] = layout[job[v].tab]
      BY <2>5, <3>2, <3>3, NoneFacts
    <3>5. QED
      BY <2>1, <3>1, <3>4, HandSame
  <2>7. Hand(w) = {job[w].new}
    BY <1>0, <2>1, HandAt
  <2>8. Quiet => t \in live
    BY <2>4 DEF SoleInv, Sees
  <2>9. CASE job'[w].at = "save"
    <3>1. layout'[t] = layout[t] \cup {job[w].new} /\ live' = live
      BY <1>0, <1>14, <2>4, <2>9, AfterInsert DEF Moves, Becomes, Typed
    <3>2. Panes \subseteq Panes' /\ (t \in live => job[w].new \in Panes')
      <4>1. live \subseteq Tabs
        BY <1>0 DEF Typed
      <4>2. QED
        BY <2>5, <3>1, <4>1 DEF Panes
    <3>3. QED
      BY <1>0, <2>2, <2>3, <2>6, <2>7, <2>8, <3>2, KeptKept
  <2>10. CASE job'[w].at # "save"
    <3>1. /\ job'[w].at = "rollback" /\ job'[w].todo = {job[w].new} /\ UNCHANGED <<layout, live>>
      BY <1>14, <2>10, AfterInsert DEF Moves, Becomes
    <3>2. Panes' = Panes /\ job[w].new \in Hand(w)'
      BY <3>1 DEF Panes, Hand
    <3>3. QED
      BY <1>0, <2>2, <2>3, <2>6, <2>7, <3>2, KeptKept
  <2>11. QED
    BY <2>9, <2>10
<1>15. ASSUME NEW w \in Workers, Swap(w) PROVE KeptInv'
  <2> DEFINE t == job[w].tab
  <2>1. /\ \A v \in Workers \ {w} : job'[v] = job[v]
        /\ job[w].at = "swap" /\ UNCHANGED <<sessions, byHand>>
    BY <1>15, AfterSwap DEF Moves, Becomes
  <2>2. Quiet' => Quiet
    BY <1>15, <2>1, AlsoSwap DEF Quiet
  <2>3. Registered' = Registered
    BY <2>1 DEF Registered
  <2>4. job[w].op \in {"closeLast", "replace"} /\ t \in Tabs
    BY <1>0, <2>1, PlaceFacts DEF PlaceInv, Typed
  <2>5. \A u \in Tabs : u # t => layout'[u] = layout[u] /\ (u \in live <=> u \in live')
    BY <1>0, <1>15, AfterSwap DEF Moves, Typed
  <2>6. Quiet => \A v \in Workers \ {w} : Hand(v)' = Hand(v)
    <3>1. SUFFICES ASSUME Quiet, NEW v \in Workers, v # w PROVE Hand(v)' = Hand(v)
      OBVIOUS
    <3>2. job[v].tab # t \/ job[v].tab = None
      BY <3>1 DEF SoleInv
    <3>3. job[v].at = "collect" => job[v].tab \in Tabs
      BY <1>0, PlaceFacts DEF PlaceInv, Typed
    <3>4. job[v].at = "collect" => layout'[job[v].tab] = layout[job[v].tab]
      BY <2>5, <3>2, <3>3, NoneFacts
    <3>5. QED
      BY <2>1, <3>1, <3>4, HandSame
  <2>7. Quiet => t \in live
    BY <2>4 DEF SoleInv, Sees
  <2>8. live' = live /\ job'[w].at = "purge"
    BY <1>15, AfterSwap DEF Moves, Becomes
  <2>9. Quiet => /\ job'[w].todo = layout[t]
                 /\ layout'[t] = Hand(w)
    <3>1. CASE job[w].op = "replace"
      <4>1. job'[w].todo = job[w].todo /\ layout' = [layout EXCEPT ![t] = job[w].made]
        BY <1>15, <3>1, AfterSwap DEF Moves, Becomes
      <4>2. Hand(w) = job[w].made
        BY <1>0, <2>1, <3>1, HandAt
      <4>3. layout'[t] = job[w].made
        BY <1>0, <2>4, <4>1 DEF Typed
      <4>4. QED
        BY <2>1, <3>1, <4>1, <4>2, <4>3 DEF SoleInv, Sees
    <3>2. CASE job[w].op = "closeLast"
      <4>1. job'[w].todo = {job[w].sid} /\ layout' = [layout EXCEPT ![t] = {job[w].new}]
        BY <1>15, <3>2, AfterSwap DEF Moves, Becomes
      <4>2. Hand(w) = {job[w].new}
        BY <1>0, <2>1, <3>2, HandAt
      <4>3. layout'[t] = {job[w].new}
        BY <1>0, <2>4, <4>1 DEF Typed
      <4>4. QED
        BY <2>1, <3>2, <4>1, <4>2, <4>3 DEF SoleInv, Sees
    <3>3. QED
      BY <2>4, <3>1, <3>2
  <2>10. Quiet => layout[t] \subseteq Hand(w)'
    BY <2>8, <2>9 DEF Hand
  <2>11. Quiet => Hand(w) \subseteq Panes'
    BY <2>7, <2>8, <2>9 DEF Panes
  <2>12. Panes \subseteq Panes' \cup layout[t]
    <3>1. live \subseteq Tabs
      BY <1>0 DEF Typed
    <3>2. QED
      BY <2>5, <2>8, <3>1 DEF Panes
  <2>13. QED
    BY <1>0, <2>2, <2>3, <2>6, <2>10, <2>11, <2>12, KeptKept
<1>16. ASSUME NEW w \in Workers, Unlink(w) PROVE KeptInv'
  <2> DEFINE t == job[w].tab
  <2>1. /\ \A v \in Workers \ {w} : job'[v] = job[v]
        /\ job[w].at = "unlink" /\ UNCHANGED <<sessions, byHand>>
    BY <1>16, AfterUnlink DEF Moves, Ends, Becomes
  <2>2. Quiet' => Quiet
    BY <1>16, <2>1, AlsoUnlink DEF Quiet
  <2>3. Registered' = Registered
    BY <2>1 DEF Registered
  <2>4. job[w].op \in {"close"} /\ t \in Tabs
    BY <1>0, <2>1, PlaceFacts DEF PlaceInv, Typed
  <2>5. \A u \in Tabs : u # t => layout'[u] = layout[u] /\ (u \in live <=> u \in live')
    BY <1>0, <1>16, AfterUnlink DEF Moves, Ends, Typed
  <2>6. Quiet => \A v \in Workers \ {w} : Hand(v)' = Hand(v)
    <3>1. SUFFICES ASSUME Quiet, NEW v \in Workers, v # w PROVE Hand(v)' = Hand(v)
      OBVIOUS
    <3>2. job[v].tab # t \/ job[v].tab = None
      BY <3>1 DEF SoleInv
    <3>3. job[v].at = "collect" => job[v].tab \in Tabs
      BY <1>0, PlaceFacts DEF PlaceInv, Typed
    <3>4. job[v].at = "collect" => layout'[job[v].tab] = layout[job[v].tab]
      BY <2>5, <3>2, <3>3, NoneFacts
    <3>5. QED
      BY <2>1, <3>1, <3>4, HandSame
  <2>7. Hand(w) = {} /\ live' = live
    BY <1>0, <1>16, <2>1, AfterUnlink, HandAt
  <2>8. layout[t] \subseteq layout'[t] \cup Hand(w)'
    <3>1. CASE layout' = layout
      BY <3>1
    <3>2. CASE layout' # layout
      <4>1. /\ job'[w].at = "purge" /\ job'[w].todo = {job[w].sid}
            /\ layout' = [layout EXCEPT ![t] = @ \ {job[w].sid}]
        BY <1>16, <3>2, AfterUnlink DEF Moves, Becomes
      <4>2. layout'[t] = layout[t] \ {job[w].sid} /\ job[w].sid \in Hand(w)'
        BY <1>0, <2>4, <4>1 DEF Hand, Typed
      <4>3. QED
        BY <4>2
    <3>3. QED
      BY <3>1, <3>2
  <2>9. Panes \subseteq Panes' \cup Hand(w)'
    <3>1. live \subseteq Tabs
      BY <1>0 DEF Typed
    <3>2. QED
      BY <2>5, <2>7, <2>8, <3>1 DEF Panes
  <2>10. QED
    BY <1>0, <2>2, <2>3, <2>6, <2>7, <2>9, KeptKept
<1>17. ASSUME NEW w \in Workers, CopyLayout(w) PROVE KeptInv'
  <2>1. /\ \A v \in Workers \ {w} : job'[v] = job[v]
        /\ UNCHANGED <<sessions, live, layout, byHand>>
    BY <1>17, AfterCopyLayout DEF Moves, Rest, Becomes
  <2>2. Quiet' => Quiet
    BY <1>17, <2>1, AlsoCopyLayout DEF Quiet
  <2>3. Registered' = Registered /\ Panes' = Panes
    BY <2>1 DEF Registered, Panes
  <2>4. \A v \in Workers \ {w} : Hand(v)' = Hand(v)
    BY <2>1, HandSame
  <2>5. Hand(w) = {}
    BY <1>0, <1>17, AfterCopyLayout, HandAt DEF Moves, Rest, Becomes
  <2>6. QED
    BY <1>0, <2>2, <2>3, <2>4, <2>5, KeptKept
<1>18. ASSUME NEW w \in Workers, CollectOld(w) PROVE KeptInv'
  <2>1. /\ \A v \in Workers \ {w} : job'[v] = job[v]
        /\ UNCHANGED <<sessions, live, layout, byHand>>
    BY <1>18, AfterCollectOld DEF Moves, Rest, Becomes
  <2>2. Quiet' => Quiet
    BY <1>18, <2>1, AlsoCollectOld DEF Quiet
  <2>3. Registered' = Registered /\ Panes' = Panes
    BY <2>1 DEF Registered, Panes
  <2>4. \A v \in Workers \ {w} : Hand(v)' = Hand(v)
    BY <2>1, HandSame
  <2>5. Hand(w) = {}
    BY <1>0, <1>18, AfterCollectOld, HandAt DEF Moves, Rest, Becomes
  <2>6. QED
    BY <1>0, <2>2, <2>3, <2>4, <2>5, KeptKept
<1>19. ASSUME NEW w \in Workers, Collect(w) PROVE KeptInv'
  <2>1. /\ \A v \in Workers \ {w} : job'[v] = job[v]
        /\ UNCHANGED <<sessions, live, layout, byHand>>
    BY <1>19, AfterCollect DEF Moves, Rest, Becomes
  <2>2. Quiet' => Quiet
    BY <1>19, <2>1, AlsoCollect DEF Quiet
  <2>3. Registered' = Registered /\ Panes' = Panes
    BY <2>1 DEF Registered, Panes
  <2>4. \A v \in Workers \ {w} : Hand(v)' = Hand(v)
    BY <2>1, HandSame
  <2>5. Hand(w) \subseteq Hand(w)'
    <3>1. job[w].at = "collect" /\ job'[w].at = "purge" /\ job'[w].todo = layout[job[w].tab]
      BY <1>19, AfterCollect DEF Moves, Becomes
    <3>2. Hand(w) = layout[job[w].tab]
      BY <1>0, <3>1, HandAt
    <3>3. QED
      BY <3>1, <3>2 DEF Hand
  <2>6. QED
    BY <1>0, <2>2, <2>3, <2>4, <2>5, KeptKept
<1>20. ASSUME NEW w \in Workers, NEW s \in Ids, Purge(w, s) PROVE KeptInv'
  <2>1. /\ \A v \in Workers \ {w} : job'[v] = job[v]
        /\ job[w].at \in {"purge", "rollback"} /\ job'[w].at = job[w].at
        /\ job'[w].todo = job[w].todo \ {s} /\ sessions' = [sessions EXCEPT ![s] = None]
        /\ UNCHANGED <<live, layout, byHand>>
    BY <1>20, AfterPurge DEF Moves, Becomes
  <2>2. Quiet' => Quiet
    BY <1>20, <2>1, AlsoPurge DEF Quiet
  <2>3. Registered' \subseteq Registered \ {s} /\ Panes' = Panes
    BY <1>0, <2>1 DEF Registered, Panes, Typed
  <2>4. \A v \in Workers \ {w} : Hand(v)' = Hand(v)
    BY <2>1, HandSame
  <2>5. Hand(w) = job[w].todo /\ job[w].todo \ {s} \subseteq Hand(w)'
    BY <1>0, <2>1, HandAt DEF Hand
  <2>6. QED
    BY <1>0, <2>2, <2>3, <2>4, <2>5, KeptKept
<1>21. ASSUME NEW w \in Workers, Kill(w) PROVE KeptInv'
  <2>1. /\ \A v \in Workers \ {w} : job'[v] = job[v]
        /\ UNCHANGED <<sessions, live, layout, byHand>>
    BY <1>21, AfterKill DEF Moves, Rest, Becomes
  <2>2. Quiet' => Quiet
    BY <1>21, <2>1, AlsoKill DEF Quiet
  <2>3. Registered' = Registered /\ Panes' = Panes
    BY <2>1 DEF Registered, Panes
  <2>4. \A v \in Workers \ {w} : Hand(v)' = Hand(v)
    BY <2>1, HandSame
  <2>5. Hand(w) \subseteq Hand(w)'
    <3>1. job[w].at \in {"purge", "rollback"}
      BY <1>21, AlsoKill DEF ShellInv
    <3>2. job'[w].at = job[w].at /\ job'[w].todo = job[w].todo
      BY <1>21, AfterKill DEF Moves, Becomes
    <3>3. Hand(w) = job[w].todo
      BY <1>0, <3>1, HandAt
    <3>4. QED
      BY <3>1, <3>2, <3>3 DEF Hand
  <2>6. QED
    BY <1>0, <2>2, <2>3, <2>4, <2>5, KeptKept
<1>22. ASSUME NEW w \in Workers, Purged(w) PROVE KeptInv'
  <2>1. /\ \A v \in Workers \ {w} : job'[v] = job[v]
        /\ UNCHANGED <<sessions, live, layout, byHand>>
    BY <1>22, AfterPurged DEF Moves, Ends, Rest, Becomes
  <2>2. Quiet' => Quiet
    BY <1>22, <2>1, AlsoPurged DEF Quiet
  <2>3. Registered' = Registered /\ Panes' = Panes
    BY <2>1 DEF Registered, Panes
  <2>4. \A v \in Workers \ {w} : Hand(v)' = Hand(v)
    BY <2>1, HandSame
  <2>5. Hand(w) = {}
    BY <1>0, <1>22, AfterPurged, AlsoPurged, HandAt DEF Moves, Ends, Rest, Becomes
  <2>6. QED
    BY <1>0, <2>2, <2>3, <2>4, <2>5, KeptKept
<1>23. ASSUME NEW w \in Workers, Capture(w) PROVE KeptInv'
  <2>1. /\ \A v \in Workers \ {w} : job'[v] = job[v]
        /\ UNCHANGED <<sessions, live, layout, byHand>>
    BY <1>23, AfterCapture DEF Moves, Rest, Becomes
  <2>2. Quiet' => Quiet
    BY <1>23, <2>1, AlsoCapture DEF Quiet
  <2>3. Registered' = Registered /\ Panes' = Panes
    BY <2>1 DEF Registered, Panes
  <2>4. \A v \in Workers \ {w} : Hand(v)' = Hand(v)
    BY <2>1, HandSame
  <2>5. Hand(w) = {}
    BY <1>0, <1>23, AfterCapture, HandAt DEF Moves, Rest, Becomes
  <2>6. QED
    BY <1>0, <2>2, <2>3, <2>4, <2>5, KeptKept
<1>24. ASSUME NEW w \in Workers, WriteState(w) PROVE KeptInv'
  <2>1. /\ \A v \in Workers \ {w} : job'[v] = job[v]
        /\ UNCHANGED <<sessions, live, layout, byHand>>
    BY <1>24, AfterWriteState DEF Ends, Rest, Becomes
  <2>2. Quiet' => Quiet
    BY <1>24, <2>1, AlsoWriteState DEF Quiet
  <2>3. Registered' = Registered /\ Panes' = Panes
    BY <2>1 DEF Registered, Panes
  <2>4. \A v \in Workers \ {w} : Hand(v)' = Hand(v)
    BY <2>1, HandSame
  <2>5. Hand(w) = {}
    BY <1>0, <1>24, AfterWriteState, HandAt DEF Ends, Rest, Becomes
  <2>6. QED
    BY <1>0, <2>2, <2>3, <2>4, <2>5, KeptKept
<1>25. ASSUME NEW n \in Shells, ShellExit(n) PROVE KeptInv'
  <2>1. UNCHANGED <<sessions, live, layout, job, overlapped, byHand>>
    BY <1>25 DEF ShellExit, registry, history
  <2>2. QED
    BY <2>1 DEF KeptInv, Quiet, Registered, Panes, Hand, Made
<1>26. CASE UNCHANGED vars
  BY <1>26 DEF vars, KeptInv, Quiet, Registered, Panes, Hand, Made
<1>27. QED
  BY <1>1, <1>2, <1>3, <1>4, <1>5, <1>6, <1>7, <1>8, <1>9, <1>10, <1>11, <1>12, <1>13, <1>14,
     <1>15, <1>16, <1>17, <1>18, <1>19, <1>20, <1>21, <1>22, <1>23, <1>24, <1>25, <1>26
  DEF Next, BeginStep, WorkStep

\* It all holds to begin with.
LEMMA InitRest == Init => FullInv
<1> SUFFICES ASSUME Init PROVE FullInv
  OBVIOUS
<1>1. \A w \in Workers : job[w] = Idle
  BY DEF Init
<1>2. Registered = {} /\ \A n \in Shells : ~alive[n]
  BY DEF Init, Registered
<1>3. ShellInv /\ ShellIsReachable
  BY <1>1, <1>2 DEF ShellInv, ShellIsReachable, Idle
<1>4. SoleInv /\ KeptInv
  BY <1>1, <1>2 DEF SoleInv, Sees, KeptInv, Idle
<1>5. DiskInv
  BY <1>1 DEF DiskInv, Right, Init, Idle
<1>6. QED
  BY <1>3, <1>4, <1>5, InitInv DEF FullInv

\* The whole invariant is inductive: a handler that has its tab to itself puts
\* into a layout what it registered, or deletes it, and keeps at hand what it
\* took out (manager.go SplitPane, ClosePane, ReplaceTabSessions, DeleteTab,
\* ReviveSession), and every change of a tab is followed by a save.
THEOREM RegistryFullInvariant == Spec => []FullInv
<1>1. FullInv /\ [Next]_vars => FullInv'
  <2> SUFFICES ASSUME FullInv, [Next]_vars PROVE FullInv'
    OBVIOUS
  <2>1. /\ TypeOK /\ IdInv /\ PlaceInv /\ FreshInv /\ HomeInv /\ DoomInv /\ TabInv /\ NoDanglingPane
        /\ ShellInv /\ SoleInv /\ ShellIsReachable /\ KeptInv /\ DiskInv
    BY DEF FullInv, IInv
  <2>2. IInv'
    BY <2>1, TypeStep, PlaceStep, IdStep, FreshStep, HomeStep, DoomStep, TabStep, PaneStep DEF IInv
  <2>3. ShellInv' /\ SoleInv'
    BY <2>1, ShellStep, SoleStep
  <2>4. ShellIsReachable' /\ KeptInv' /\ DiskInv'
    BY <2>1, ReachStep, KeptStep, DiskStep
  <2>5. QED
    BY <2>2, <2>3, <2>4 DEF FullInv
<1>2. QED
  BY InitRest, <1>1, PTL DEF Spec

\* A shell that runs is registered or in the hands of a handler, unless two
\* operations on one tab overlapped or a session was deleted by hand.
THEOREM RegistryShellIsReachable == Spec => []ShellIsReachable
<1>1. FullInv => ShellIsReachable
  BY DEF FullInv
<1>2. QED
  BY RegistryFullInvariant, <1>1, PTL

\* Once the handlers are through, no session is left without a tab, unless
\* operations overlapped: failed spawns, lost panes, replaced and deleted tabs
\* take their sessions with them.
THEOREM RegistryNoOrphan == Spec => []NoOrphanUnlessOverlapped
<1>1. FullInv => NoOrphanUnlessOverlapped
  <2> SUFFICES ASSUME FullInv, AllIdle, ~overlapped, byHand = {}, NEW s \in Registered
               PROVE  s \in Panes
    BY DEF NoOrphanUnlessOverlapped
  <2>1. s \in Panes \/ \E w \in Workers : s \in Hand(w)
    BY DEF FullInv, KeptInv, Quiet
  <2>2. \A w \in Workers : Hand(w) = {}
    <3>1. Typed /\ PlaceInv
      BY JobTypes DEF FullInv, IInv
    <3>2. \A w \in Workers : job[w].at = "idle"
      BY DEF AllIdle, Busy
    <3>3. QED
      BY <3>1, <3>2, HandAt
  <2>3. QED
    BY <2>1, <2>2
<1>2. QED
  BY RegistryFullInvariant, <1>1, PTL

\* Once the handlers are through, state.json has the layout of every tab and no
\* deleted tab, unless two saves overlapped.
THEOREM RegistryDiskIsCurrent == Spec => []DiskIsCurrentUnlessRaced
<1>1. FullInv => DiskIsCurrentUnlessRaced
  BY DEF FullInv, DiskInv, DiskIsCurrentUnlessRaced, AllIdle, Busy, WillSave
<1>2. QED
  BY RegistryFullInvariant, <1>1, PTL

=============================================================================
