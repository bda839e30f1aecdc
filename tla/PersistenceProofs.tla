------------------------- MODULE PersistenceProofs -------------------------
(***************************************************************************)
(* Proofs about Persistence, for any tabs and ids, with or without a       *)
(* clean-up.  First what the steps make of the maps, then one lemma per    *)
(* part of the inductive invariant; each goes through the actions of Next. *)
(***************************************************************************)
EXTENDS Persistence, TLAPS

LEMMA IdTab == \A i \in Ids : i[1] \in Tabs
BY DEF Ids

\* Which keys a map has after an update, and after days have passed.
LEMMA InFacts ==
  ASSUME NEW S, NEW f \in [S -> Stamps]
  PROVE  /\ \A x \in S : /\ [f EXCEPT ![x] = "new"] \in [S -> Stamps]
                         /\ In([f EXCEPT ![x] = "new"]) = In(f) \cup {x}
                         /\ [f EXCEPT ![x] = None] \in [S -> Stamps]
                         /\ In([f EXCEPT ![x] = None]) = In(f) \ {x}
         /\ Aged(f) \in [S -> Stamps] /\ In(Aged(f)) = In(f)
         /\ In(f) \subseteq S
BY PersistenceAssumption DEF In, Stamps, Aged

\* A map of part of what another has.
LEMMA InPart ==
  ASSUME NEW S, NEW X, NEW f \in [S -> Stamps]
  PROVE  /\ [x \in S |-> IF x \in X THEN f[x] ELSE None] \in [S -> Stamps]
         /\ In([x \in S |-> IF x \in X THEN f[x] ELSE None]) = In(f) \cap X
         /\ [x \in S |-> IF x \in X THEN "new" ELSE f[x]] \in [S -> Stamps]
         /\ In([x \in S |-> IF x \in X THEN "new" ELSE f[x]]) = In(f) \cup (S \cap X)
BY PersistenceAssumption DEF In, Stamps

LEMMA NothingFacts ==
  /\ Nothing \in States /\ In(Nothing.sessions) = {} /\ In(Nothing.tabs) = {} /\ Nothing.panes = {}
  /\ AgedState(Nothing) = Nothing
<1>1. Nothing \in States /\ In(Nothing.sessions) = {} /\ In(Nothing.tabs) = {} /\ Nothing.panes = {}
  BY DEF Nothing, States, In, Stamps
<1>2. Aged(Nothing.sessions) = Nothing.sessions /\ Aged(Nothing.tabs) = Nothing.tabs
  BY DEF Nothing, Aged
<1>3. QED
  BY <1>1, <1>2 DEF AgedState, Nothing

LEMMA StateFacts ==
  ASSUME NEW s \in States
  PROVE  /\ s.sessions \in [Ids -> Stamps] /\ s.tabs \in [Tabs -> Stamps] /\ s.panes \subseteq Ids
         /\ AgedState(s) \in States /\ AgedState(s).panes = s.panes
         /\ In(AgedState(s).sessions) = In(s.sessions) /\ In(AgedState(s).tabs) = In(s.tabs)
         /\ \A t \in Tabs : AgedState(s).tabs[t] # None <=> s.tabs[t] # None
<1>1. s.sessions \in [Ids -> Stamps] /\ s.tabs \in [Tabs -> Stamps] /\ s.panes \subseteq Ids
  BY DEF States
<1>2. /\ Aged(s.sessions) \in [Ids -> Stamps] /\ In(Aged(s.sessions)) = In(s.sessions)
      /\ Aged(s.tabs) \in [Tabs -> Stamps] /\ In(Aged(s.tabs)) = In(s.tabs)
  BY <1>1, InFacts
<1>3. \A t \in Tabs : Aged(s.tabs)[t] # None <=> s.tabs[t] # None
  BY <1>1, PersistenceAssumption DEF Aged
<1>4. QED
  BY <1>1, <1>2, <1>3 DEF AgedState, States

\* A split, a close and a replacement edit one tab's panes: new ids for old panes.
LEMMA EditFacts ==
  ASSUME EditStep
  PROVE  \E t \in Tabs, new \in SUBSET Ids, olds \in SUBSET panes :
           /\ Edit(t, new, olds) /\ new \cap used = {}
           /\ \A i \in new \cup olds : i[1] = t
<1>1. ASSUME NEW i \in Ids, SplitPane(i)
      PROVE  i[1] \in Tabs /\ Edit(i[1], {i}, {}) /\ i \notin used
  BY <1>1, IdTab DEF SplitPane
<1>2. ASSUME NEW i \in Ids, ClosePane(i)
      PROVE  i[1] \in Tabs /\ Edit(i[1], {}, {i}) /\ i \in panes
  BY <1>2, IdTab DEF ClosePane, Shown
<1>3. ASSUME NEW t \in Tabs, NEW new \in SUBSET Ids, ReplaceTabSessions(t, new)
      PROVE  /\ Edit(t, new, Panes(t)) /\ new \cap used = {} /\ Panes(t) \subseteq panes
             /\ \A i \in new \cup Panes(t) : i[1] = t
  BY <1>3 DEF ReplaceTabSessions, Panes
<1>4. CASE \E i \in Ids : SplitPane(i)
  <2>1. PICK i \in Ids : SplitPane(i)
    BY <1>4
  <2>2. /\ {i} \cap used = {} /\ \A j \in {i} \cup {} : j[1] = i[1]
        /\ {i} \in SUBSET Ids /\ {} \in SUBSET panes /\ i[1] \in Tabs /\ Edit(i[1], {i}, {})
    BY <1>1, <2>1
  <2>3. QED
    BY <2>2
<1>5. CASE \E i \in Ids : ClosePane(i)
  <2>1. PICK i \in Ids : ClosePane(i)
    BY <1>5
  <2>2. /\ {} \cap used = {} /\ \A j \in {} \cup {i} : j[1] = i[1]
        /\ {} \in SUBSET Ids /\ {i} \in SUBSET panes /\ i[1] \in Tabs /\ Edit(i[1], {}, {i})
    BY <1>2, <2>1
  <2>3. QED
    BY <2>2
<1>6. CASE \E t \in Tabs, new \in SUBSET Ids : ReplaceTabSessions(t, new)
  <2>1. PICK t \in Tabs, new \in SUBSET Ids : ReplaceTabSessions(t, new)
    BY <1>6
  <2>2. QED
    BY <1>3, <2>1
<1>7. QED
  BY <1>4, <1>5, <1>6 DEF EditStep

\* What the operations make of the sessions and tabs there are.
LEMMA MapFacts ==
  ASSUME IInv
  PROVE  /\ \A i \in Ids : BeginSession(i) \/ Revive(i) \/ Output(i) =>
              sessions' \in [Ids -> Stamps] /\ In(sessions') = In(sessions) \cup {i}
         /\ \A i \in Ids : Revive(i) \/ Output(i) => i \in In(sessions)
         /\ \A i \in Ids : DeleteSession(i) =>
              sessions' \in [Ids -> Stamps] /\ In(sessions') = In(sessions) \ {i}
         /\ \A t \in Tabs : UpdateTab(t) =>
              t \in In(tabs) /\ tabs' \in [Tabs -> Stamps] /\ In(tabs') = In(tabs)
         /\ CreateTab \/ SetLayout =>
              tabs' \in [Tabs -> Stamps] /\ In(tabs') = In(tabs) \cup {request.tab}
         /\ UsedTabs \subseteq Tabs
<1>1. UsedTabs \subseteq Tabs /\ (request.op # "none" => request.tab \in Tabs)
  BY IdTab DEF UsedTabs, IInv, TypeOK, StageInv
<1>2. sessions \in [Ids -> Stamps] /\ tabs \in [Tabs -> Stamps]
  BY DEF IInv, TypeOK
<1>3. \A x \in Ids : LET f == [sessions EXCEPT ![x] = "new"] IN
                     f \in [Ids -> Stamps] /\ In(f) = In(sessions) \cup {x}
  BY <1>2, PersistenceAssumption DEF In, Stamps
<1>4. \A x \in Ids : LET f == [sessions EXCEPT ![x] = None] IN
                     f \in [Ids -> Stamps] /\ In(f) = In(sessions) \ {x}
  BY <1>2, PersistenceAssumption DEF In, Stamps
<1>5. \A x \in Tabs : LET f == [tabs EXCEPT ![x] = "new"] IN
                      f \in [Tabs -> Stamps] /\ In(f) = In(tabs) \cup {x}
  BY <1>2, PersistenceAssumption DEF In, Stamps
<1>6. \A i \in Ids : BeginSession(i) \/ Revive(i) \/ Output(i) =>
        sessions' \in [Ids -> Stamps] /\ In(sessions') = In(sessions) \cup {i}
  <2> TAKE i \in Ids
  <2>1. BeginSession(i) \/ Revive(i) \/ Output(i) => sessions' = [sessions EXCEPT ![i] = "new"]
    BY DEF BeginSession, Revive, Output
  <2>2. QED
    BY <1>3, <2>1
<1>7. \A i \in Ids : Revive(i) \/ Output(i) => i \in In(sessions)
  BY DEF Revive, Output, IInv, UsedInv
<1>8. \A i \in Ids : DeleteSession(i) =>
        sessions' \in [Ids -> Stamps] /\ In(sessions') = In(sessions) \ {i}
  <2> TAKE i \in Ids
  <2>1. DeleteSession(i) => sessions' = [sessions EXCEPT ![i] = None]
    BY DEF DeleteSession
  <2>2. QED
    BY <1>4, <2>1
<1>9. \A t \in Tabs : UpdateTab(t) =>
        t \in In(tabs) /\ tabs' \in [Tabs -> Stamps] /\ In(tabs') = In(tabs)
  <2> TAKE t \in Tabs
  <2>1. UpdateTab(t) => t \in In(tabs) /\ tabs' = [tabs EXCEPT ![t] = "new"]
    BY DEF UpdateTab, IInv, UsedInv
  <2>2. QED
    BY <1>5, <2>1
<1>10. CreateTab \/ SetLayout =>
         tabs' \in [Tabs -> Stamps] /\ In(tabs') = In(tabs) \cup {request.tab}
  <2>1. CreateTab \/ SetLayout => request.op # "none" /\ tabs' = [tabs EXCEPT ![request.tab] = "new"]
    BY DEF CreateTab, SetLayout
  <2>2. QED
    BY <1>1, <1>5, <2>1
<1>11. QED
  BY <1>1, <1>6, <1>7, <1>8, <1>9, <1>10

\* What each step of a save leaves in the saves under way.
LEMMA SaveFacts ==
  ASSUME IInv, NEW w \in Savers
  PROVE  /\ Due(w) => stage'[w] = "due" /\ \A v \in Savers \ {w} : stage'[v] = stage[v]
         /\ Capture(w) =>
              /\ w \notin Saving /\ stage'[w] = "captured" /\ Saving' = Saving \cup {w}
              /\ held'[w] \in States /\ held'[w].sessions = sessions /\ held'[w].panes = {}
              /\ In(held'[w].tabs) = live
              /\ solo' = {v \in {w} : Saving = {}}
              /\ \A v \in Savers \ {w} : stage'[v] = stage[v] /\ held'[v] = held[v]
         /\ Open(w) =>
              /\ stage[w] = "captured" /\ stage'[w] = "opened" /\ Saving' = Saving
              /\ held'[w] \in States /\ held'[w].sessions = held[w].sessions
              /\ held'[w].panes = ToWrite(w) /\ In(held'[w].tabs) = In(held[w].tabs)
              /\ \A v \in Savers \ {w} : stage'[v] = stage[v] /\ held'[v] = held[v]
         /\ Write(w) \/ WriteFails(w) =>
              /\ w \in Saving /\ stage'[w] = "idle" /\ Saving' = Saving \ {w}
              /\ held'[w] = Nothing /\ solo' = solo \ {w}
              /\ \A v \in Savers \ {w} : stage'[v] = stage[v] /\ held'[v] = held[v]
<1> USE DEF IInv, TypeOK
<1>1. Due(w) => stage'[w] = "due" /\ \A v \in Savers \ {w} : stage'[v] = stage[v]
  BY DEF Due
<1>2. ASSUME Capture(w)
      PROVE  /\ w \notin Saving /\ stage'[w] = "captured" /\ Saving' = Saving \cup {w}
             /\ held'[w] \in States /\ held'[w].sessions = sessions /\ held'[w].panes = {}
             /\ In(held'[w].tabs) = live
             /\ solo' = {v \in {w} : Saving = {}}
             /\ \A v \in Savers \ {w} : stage'[v] = stage[v] /\ held'[v] = held[v]
  <2> DEFINE T == [t \in Tabs |-> IF t \in live THEN tabs[t] ELSE None]
  <2>1. /\ stage[w] = "due" /\ stage' = [stage EXCEPT ![w] = "captured"]
        /\ held' = [held EXCEPT ![w] = [sessions |-> sessions, tabs |-> T, panes |-> {}]]
        /\ solo' = (solo \ Saving) \cup {v \in {w} : Saving = {}}
    BY <1>2 DEF Capture
  <2>2. T \in [Tabs -> Stamps] /\ In(T) = live
    <3>1. T \in [Tabs -> Stamps] /\ In(T) = In(tabs) \cap live
      <4>1. tabs \in [Tabs -> Stamps]
        OBVIOUS
      <4> HIDE DEF IInv, TypeOK
      <4>2. QED
        BY <4>1, InPart
    <3>2. QED
      BY <3>1 DEF UsedInv
  <2> HIDE DEF T
  <2>3. /\ held'[w] = [sessions |-> sessions, tabs |-> T, panes |-> {}]
        /\ stage'[w] = "captured"
        /\ \A v \in Savers \ {w} : stage'[v] = stage[v] /\ held'[v] = held[v]
    BY <2>1
  <2>4. held'[w] \in States /\ held'[w].tabs = T
    BY <2>2, <2>3 DEF States
  <2>5. w \notin Saving /\ Saving' = Saving \cup {w}
    BY <2>1, <2>3 DEF Saving
  <2>6. solo' = {v \in {w} : Saving = {}}
    BY <2>1 DEF SaveInv
  <2>7. QED
    BY <2>2, <2>3, <2>4, <2>5, <2>6
<1>3. ASSUME Open(w)
      PROVE  /\ stage[w] = "captured" /\ stage'[w] = "opened" /\ Saving' = Saving
             /\ held'[w] \in States /\ held'[w].sessions = held[w].sessions
             /\ held'[w].panes = ToWrite(w) /\ In(held'[w].tabs) = In(held[w].tabs)
             /\ \A v \in Savers \ {w} : stage'[v] = stage[v] /\ held'[v] = held[v]
  <2> DEFINE s == held[w]
             T == [t \in Tabs |-> IF s.tabs[t] = None THEN None ELSE tabs[t]]
             P == {i \in panes : s.tabs[i[1]] # None}
  <2>1. /\ stage[w] = "captured" /\ stage' = [stage EXCEPT ![w] = "opened"]
        /\ held' = [held EXCEPT ![w] = Marshalled(s)]
    BY <1>3 DEF Open
  <2>2. s \in States /\ s.tabs \in [Tabs -> Stamps] /\ In(s.tabs) \subseteq In(tabs)
    BY StateFacts DEF UsedInv
  <2>3. T \in [Tabs -> Stamps] /\ In(T) = In(s.tabs)
    BY <2>2 DEF In, Stamps
  <2>4. P = ToWrite(w) /\ P \subseteq Ids
    BY <2>1 DEF ToWrite
  <2>5. /\ Marshalled(s) \in States /\ Marshalled(s).sessions = s.sessions
        /\ Marshalled(s).tabs = T /\ Marshalled(s).panes = P
    BY <2>2, <2>3, <2>4 DEF Marshalled, States
  <2> HIDE DEF T, P
  <2>6. /\ held'[w] = Marshalled(s) /\ stage'[w] = "opened"
        /\ \A v \in Savers \ {w} : stage'[v] = stage[v] /\ held'[v] = held[v]
    BY <2>1
  <2>7. Saving' = Saving
    BY <2>1, <2>6 DEF Saving
  <2>8. QED
    BY <2>1, <2>3, <2>4, <2>5, <2>6, <2>7
<1>4. ASSUME Write(w) \/ WriteFails(w)
      PROVE  /\ w \in Saving /\ stage'[w] = "idle" /\ Saving' = Saving \ {w}
             /\ held'[w] = Nothing /\ solo' = solo \ {w}
             /\ \A v \in Savers \ {w} : stage'[v] = stage[v] /\ held'[v] = held[v]
  <2>1. Saved(w) /\ w \in Saving
    BY <1>4 DEF Write, WriteFails, Saving
  <2>2. /\ stage'[w] = "idle" /\ held'[w] = Nothing /\ solo' = solo \ {w}
        /\ \A v \in Savers \ {w} : stage'[v] = stage[v] /\ held'[v] = held[v]
    BY <2>1 DEF Saved
  <2>3. Saving' = Saving \ {w}
    BY <2>2 DEF Saving
  <2>4. QED
    BY <2>1, <2>2, <2>3
<1>5. QED
  BY <1>1, <1>2, <1>3, <1>4

\* What is left when the process ends.
LEMMA EndFacts ==
  ASSUME IInv, Exec \/ Exit \/ Crash
  PROVE  /\ phase' = "down" /\ request' = NoRequest /\ live' = {} /\ panes' = {} /\ alive' = {}
         /\ sessions' = Nothing.sessions /\ tabs' = Nothing.tabs
         /\ In(sessions') = {} /\ In(tabs') = {} /\ Saving' = {} /\ solo' = {}
         /\ \A w \in Savers : stage'[w] = "idle" /\ held'[w] = Nothing
         /\ UNCHANGED <<used, file, missed, aged, gone>>
         /\ (cut \/ \E w \in Savers : stage[w] = "opened") => cut'
<1>1. \E kept : ProcessEnds(kept)
  BY DEF Exec, Exit, Crash
<1>2. /\ phase' = "down" /\ request' = NoRequest /\ live' = {} /\ panes' = {} /\ alive' = {}
      /\ sessions' = Nothing.sessions /\ tabs' = Nothing.tabs /\ solo' = {}
      /\ \A w \in Savers : stage'[w] = "idle" /\ held'[w] = Nothing
      /\ UNCHANGED <<used, file, missed, aged, gone>>
      /\ cut' = (cut \/ \E w \in Savers : stage[w] = "opened")
  BY <1>1 DEF ProcessEnds
<1>3. In(sessions') = {} /\ In(tabs') = {}
  BY <1>2, NothingFacts
<1>4. Saving' = {}
  BY <1>2 DEF Saving
<1>5. QED
  BY <1>2, <1>3, <1>4, Zenon

\* What LoadState puts in the maps, and what it finds too old.
LEMMA LoadFacts ==
  ASSUME IInv, LoadState
  PROVE  /\ phase = "down" /\ phase' = "loaded" /\ request = NoRequest
         /\ sessions' \in [Ids -> Stamps] /\ In(sessions') = LoadedSessions
         /\ tabs' \in [Tabs -> Stamps] /\ In(tabs') = LoadedTabs
         /\ live' = LoadedTabs /\ panes' = LoadedPanes /\ gone' = gone \ LoadedTabs
         /\ LoadedTabs \subseteq In(file.state.tabs) /\ LoadedTabs \subseteq Tabs
         /\ LoadedPanes \subseteq file.state.panes /\ LoadedSessions \subseteq LoadedPanes
         /\ aged \subseteq aged' /\ aged' \subseteq Ids
         /\ In(file.state.sessions) \cap LoadedPanes \subseteq LoadedSessions \cup aged'
         /\ OnDisk \subseteq LoadedSessions \cup aged'
         /\ \A w \in Savers : stage[w] = "idle" /\ held[w] = Nothing
         /\ alive = {} /\ Saving = {} /\ solo = {}
         /\ UNCHANGED <<used, alive, running, file, stage, held, solo, request, handed, cut, missed, late>>
<1> DEFINE d == In(file.state.sessions) \ LoadedSessions
           X == {i \in d : Expired(file.state.sessions[i]) \/ Expired(file.state.tabs[i[1]])}
<1>1. /\ phase = "down" /\ phase' = "loaded" /\ live' = LoadedTabs /\ panes' = LoadedPanes
      /\ gone' = gone \ LoadedTabs /\ aged' = aged \cup X
      /\ tabs' = [t \in Tabs |-> IF t \in LoadedTabs THEN file.state.tabs[t] ELSE None]
      /\ sessions' = [i \in Ids |-> IF i \in LoadedSessions THEN file.state.sessions[i] ELSE None]
      /\ UNCHANGED <<used, alive, running, file, stage, held, solo, request, handed, cut, missed, late>>
  BY DEF LoadState, saver
<1>2. /\ request = NoRequest /\ alive = {} /\ Saving = {} /\ solo = {}
      /\ \A w \in Savers : stage[w] = "idle" /\ held[w] = Nothing
  BY <1>1 DEF IInv, StageInv, SaveInv, Saving
<1>3. file.state.sessions \in [Ids -> Stamps] /\ file.state.tabs \in [Tabs -> Stamps]
  BY DEF IInv, TypeOK, States
<1>4. /\ LoadedTabs \subseteq In(file.state.tabs) /\ LoadedTabs \subseteq Tabs
      /\ LoadedPanes \subseteq file.state.panes /\ LoadedSessions \subseteq LoadedPanes
      /\ LoadedSessions \subseteq In(file.state.sessions) /\ d \subseteq Ids
  BY <1>3 DEF LoadedTabs, LoadedPanes, LoadedSessions, In
<1>5. sessions' \in [Ids -> Stamps] /\ In(sessions') = LoadedSessions
  BY <1>1, <1>3, <1>4 DEF In, Stamps
<1>6. tabs' \in [Tabs -> Stamps] /\ In(tabs') = LoadedTabs
  BY <1>1, <1>3, <1>4 DEF In, Stamps
<1>7. In(file.state.sessions) \cap LoadedPanes \subseteq LoadedSessions \cup X
  BY DEF LoadedSessions
<1>8. OnDisk \subseteq LoadedSessions \cup X
  <2> SUFFICES ASSUME NEW i \in OnDisk, i \notin LoadedSessions PROVE i \in X
    OBVIOUS
  <2>1. i \in d /\ i \in file.state.panes /\ i[1] \in In(file.state.tabs)
    BY <1>3, IdTab DEF OnDisk, Kept, In
  <2>2. CASE i \in LoadedPanes
    BY <1>7, <2>1, <2>2
  <2>3. CASE i \notin LoadedPanes
    <3>1. i[1] \notin LoadedTabs
      BY <2>1, <2>3 DEF LoadedPanes
    <3>2. Expired(file.state.tabs[i[1]])
      BY <2>1, <3>1 DEF LoadedTabs
    <3>3. QED
      BY <2>1, <3>2
  <2>4. QED
    BY <2>2, <2>3
<1>9. X \subseteq Ids
  BY <1>4
<1> HIDE DEF X
<1>10. aged \subseteq aged' /\ aged' \subseteq Ids
  BY <1>1, <1>9 DEF IInv, TypeOK
<1>11. QED
  BY <1>1, <1>2, <1>4, <1>5, <1>6, <1>7, <1>8, <1>10

\* What Adopt makes of the sessions: those with a PTY are alive.
LEMMA AdoptFacts ==
  ASSUME IInv, Adopt
  PROVE  /\ phase = "loaded" /\ phase' = "up" /\ request = NoRequest /\ handed' = {} /\ late' = {}
         /\ sessions' \in [Ids -> Stamps] /\ In(sessions') = In(sessions)
         /\ alive' \subseteq In(sessions) /\ running' \subseteq alive'
         /\ running' \subseteq running /\ running \cap handed \cap In(sessions) \subseteq running'
         /\ \A w \in Savers : stage[w] = "idle" /\ held[w] = Nothing
         /\ Saving = {} /\ solo = {}
         /\ UNCHANGED <<used, live, tabs, panes, file, stage, held, solo, request, cut, missed, aged, gone>>
<1>1. PICK unreaped \in SUBSET (handed \ running) :
        LET adopted == ((handed \cap running) \cup unreaped) \cap In(sessions) IN
        /\ sessions' = [i \in Ids |-> IF i \in adopted THEN "new" ELSE sessions[i]]
        /\ alive' = adopted /\ running' = running \cap adopted
  BY DEF Adopt
<1> DEFINE A == ((handed \cap running) \cup unreaped) \cap In(sessions)
<1>2. /\ sessions' = [i \in Ids |-> IF i \in A THEN "new" ELSE sessions[i]]
      /\ alive' = A /\ running' = running \cap A
      /\ A \subseteq In(sessions) /\ running \cap handed \cap In(sessions) \subseteq A
  BY <1>1
<1> HIDE DEF A
<1>3. /\ phase = "loaded" /\ phase' = "up" /\ handed' = {} /\ late' = {}
      /\ UNCHANGED <<used, live, tabs, panes, file, stage, held, solo, request, cut, missed, aged, gone>>
  BY DEF Adopt, saver
<1>4. /\ request = NoRequest /\ Saving = {} /\ solo = {}
      /\ \A w \in Savers : stage[w] = "idle" /\ held[w] = Nothing
  BY <1>3 DEF IInv, StageInv, SaveInv, Saving
<1>5. sessions' \in [Ids -> Stamps] /\ In(sessions') = In(sessions)
  <2>1. sessions \in [Ids -> Stamps]
    BY DEF IInv, TypeOK
  <2>2. QED
    BY <1>2, <2>1, PersistenceAssumption DEF In, Stamps
<1>6. QED
  BY <1>2, <1>3, <1>4, <1>5

\* The passing of days drops nothing.
LEMMA DaysFacts ==
  ASSUME IInv, DaysPass
  PROVE  /\ sessions' \in [Ids -> Stamps] /\ In(sessions') = In(sessions)
         /\ tabs' \in [Tabs -> Stamps] /\ In(tabs') = In(tabs)
         /\ file'.kind = file.kind /\ file'.state \in States /\ file'.state.panes = file.state.panes
         /\ In(file'.state.sessions) = In(file.state.sessions)
         /\ In(file'.state.tabs) = In(file.state.tabs)
         /\ file.state = Nothing => file'.state = Nothing
         /\ OnDisk' = OnDisk /\ Saving' = Saving /\ held' \in [Savers -> States]
         /\ \A w \in Savers : /\ held'[w].panes = held[w].panes
                              /\ In(held'[w].sessions) = In(held[w].sessions)
                              /\ In(held'[w].tabs) = In(held[w].tabs)
                              /\ held[w] = Nothing => held'[w] = Nothing
         /\ UNCHANGED <<phase, used, live, panes, alive, running, stage, solo, request, handed,
                        cut, missed, late, aged, gone>>
<1>1. /\ tabs' = Aged(tabs) /\ sessions' = Aged(sessions)
      /\ file' = [file EXCEPT !.state = AgedState(file.state)]
      /\ held' = [w \in Savers |-> AgedState(held[w])]
      /\ UNCHANGED <<phase, used, live, panes, alive, running, stage, solo, request, handed,
                     cut, missed, late, aged, gone>>
  BY DEF DaysPass, history
<1>2. /\ sessions \in [Ids -> Stamps] /\ tabs \in [Tabs -> Stamps]
      /\ file \in [kind : {"absent", "empty", "mixed", "ok"}, state : States]
      /\ \A w \in Savers : held[w] \in States
  BY DEF IInv, TypeOK
<1>3. /\ sessions' \in [Ids -> Stamps] /\ In(sessions') = In(sessions)
      /\ tabs' \in [Tabs -> Stamps] /\ In(tabs') = In(tabs)
  BY <1>1, <1>2, InFacts
<1>4. file.state \in States /\ file'.kind = file.kind /\ file'.state = AgedState(file.state)
  BY <1>1, <1>2
<1>5. \A s \in States : /\ AgedState(s) \in States /\ AgedState(s).panes = s.panes
                        /\ In(AgedState(s).sessions) = In(s.sessions)
                        /\ In(AgedState(s).tabs) = In(s.tabs)
                        /\ s = Nothing => AgedState(s) = Nothing
  BY StateFacts, NothingFacts
<1>6. Saving' = Saving
  BY <1>1 DEF Saving
<1>7. \A w \in Savers : held'[w] = AgedState(held[w])
  BY <1>1
<1>8. held' \in [Savers -> States]
  BY <1>1, <1>2, <1>5
<1>9. OnDisk' = OnDisk
  <2>1. /\ In(file'.state.sessions) = In(file.state.sessions) /\ file'.state.panes = file.state.panes
        /\ file.state.panes \subseteq Ids
        /\ \A t \in Tabs : file'.state.tabs[t] # None <=> file.state.tabs[t] # None
    BY <1>4, StateFacts
  <2>2. QED
    BY <2>1, IdTab DEF OnDisk, Kept
<1>10. QED
  BY <1>1, <1>2, <1>3, <1>4, <1>5, <1>6, <1>7, <1>8, <1>9

\* Every step keeps the types.
LEMMA TypeStep ==
  ASSUME IInv, [Next]_vars
  PROVE  TypeOK'
<1> USE DEF TypeOK
<1>1. TypeOK /\ StageInv
  BY DEF IInv
<1>2. CASE UNCHANGED vars
  BY <1>1, <1>2 DEF vars, memory, saver, history
<1>3. ASSUME NEW i \in Ids, StartTab(i) PROVE TypeOK'
  <2>1. Asked("create", i[1], {i}, {}) \in [op : {"none", "create", "edit", "undo", "drop", "answer"},
          tab : Tabs \cup {None}, new : SUBSET Ids, olds : SUBSET Ids, kill : SUBSET Ids]
    BY IdTab DEF Asked
  <2>2. QED
    BY <1>1, <1>3, <2>1 DEF StartTab, memory, saver, history
<1>4. CASE EditStep
  <2>1. PICK t \in Tabs, new \in SUBSET Ids, olds \in SUBSET panes : Edit(t, new, olds)
    BY <1>4, EditFacts
  <2>2. Asked("edit", t, new, olds) \in [op : {"none", "create", "edit", "undo", "drop", "answer"},
          tab : Tabs \cup {None}, new : SUBSET Ids, olds : SUBSET Ids, kill : SUBSET Ids]
    BY <1>1 DEF Asked
  <2>3. QED
    BY <1>1, <2>1, <2>2 DEF Edit, memory, saver, history
<1>5. ASSUME NEW i \in Ids, BeginSession(i) \/ Revive(i) \/ Output(i) PROVE TypeOK'
  <2>1. sessions' \in [Ids -> Stamps]
    BY <1>5, MapFacts
  <2>2. QED
    BY <1>1, <1>5, <2>1 DEF BeginSession, Revive, Output, Late, saver, history
<1>6. ASSUME NEW i \in Ids, DeleteSession(i) PROVE TypeOK'
  <2>1. sessions' \in [Ids -> Stamps]
    BY <1>6, MapFacts
  <2>2. request' \in [op : {"none", "create", "edit", "undo", "drop", "answer"},
          tab : Tabs \cup {None}, new : SUBSET Ids, olds : SUBSET Ids, kill : SUBSET Ids]
    BY <1>1, <1>6 DEF DeleteSession
  <2>3. QED
    BY <1>1, <1>6, <2>1, <2>2 DEF DeleteSession, saver, history
<1>7. ASSUME NEW t \in Tabs, UpdateTab(t) PROVE TypeOK'
  <2>1. tabs' \in [Tabs -> Stamps]
    BY <1>7, MapFacts
  <2>2. QED
    BY <1>1, <1>7, <2>1 DEF UpdateTab, Due, history
<1>8. ASSUME NEW t \in Tabs, DeleteTab(t) PROVE TypeOK'
  <2>1. /\ Panes(t) \subseteq Ids
        /\ Asked("drop", t, {}, Panes(t)) \in [op : {"none", "create", "edit", "undo", "drop", "answer"},
             tab : Tabs \cup {None}, new : SUBSET Ids, olds : SUBSET Ids, kill : SUBSET Ids]
    BY <1>1 DEF Asked, Panes
  <2>2. QED
    BY <1>1, <1>8, <2>1 DEF DeleteTab, Late, saver
<1>9. CASE SpawnFails
  <2>1. Asked("undo", request.tab, {}, request.new \cap In(sessions)) \in
          [op : {"none", "create", "edit", "undo", "drop", "answer"},
           tab : Tabs \cup {None}, new : SUBSET Ids, olds : SUBSET Ids, kill : SUBSET Ids]
    BY <1>1 DEF Asked
  <2>2. QED
    BY <1>1, <1>9, <2>1 DEF SpawnFails, memory, saver, history
<1>10. CASE CreateTab
  <2>1. tabs' \in [Tabs -> Stamps] /\ request.tab \in Tabs
    BY <1>1, <1>10, MapFacts DEF StageInv, CreateTab
  <2>2. QED
    BY <1>1, <1>10, <2>1 DEF CreateTab, NoRequest, saver, history
<1>11. CASE SetLayout
  <2>1. tabs' \in [Tabs -> Stamps]
    BY <1>11, MapFacts
  <2>2. request' \in [op : {"none", "create", "edit", "undo", "drop", "answer"},
          tab : Tabs \cup {None}, new : SUBSET Ids, olds : SUBSET Ids, kill : SUBSET Ids]
    BY <1>1, <1>11 DEF SetLayout, Asked
  <2>3. QED
    BY <1>1, <1>11, <2>1, <2>2 DEF SetLayout, Late, saver
<1>12. CASE KillShell
  BY <1>1, <1>12 DEF KillShell, memory, saver, history
<1>13. CASE Dropped
  BY <1>1, <1>13 DEF Dropped, Due, memory, history
<1>14. CASE Undone
  BY <1>1, <1>14 DEF Undone, NoRequest, memory, saver, history
<1>15. CASE Answered
  <2>1. request.tab \in Tabs
    BY <1>1, <1>15, MapFacts DEF StageInv, Answered
  <2>2. QED
    BY <1>1, <1>15, <2>1 DEF Answered, NoRequest, memory, saver
<1>16. CASE Tick \/ Stop \/ Pause \/ HandoffFiles
  BY <1>1, <1>16 DEF Tick, Stop, Pause, HandoffFiles, Due, Savers, memory, history
<1>17. CASE ListFiles
  BY <1>1, <1>17 DEF ListFiles, memory, saver, history
<1>18. CASE Exec \/ Exit \/ Crash
  <2>1. /\ sessions' \in [Ids -> Stamps] /\ tabs' \in [Tabs -> Stamps]
        /\ stage' \in [Savers -> {"idle", "due", "captured", "opened"}] /\ held' \in [Savers -> States]
    <3>1. /\ sessions' = Nothing.sessions /\ tabs' = Nothing.tabs
          /\ stage' = [w \in Savers |-> "idle"] /\ held' = [w \in Savers |-> Nothing]
      BY <1>18 DEF Exec, Exit, Crash, ProcessEnds
    <3>2. QED
      BY <3>1, NothingFacts, StateFacts
  <2>2. handed' \in SUBSET Ids /\ running' \subseteq running /\ late' \subseteq late /\ cut' \in BOOLEAN
    BY <1>1, <1>18 DEF Exec, Exit, Crash, ProcessEnds
  <2>3. QED
    BY <1>1, <1>18, <2>1, <2>2, EndFacts DEF NoRequest
<1>19. CASE LoadState
  <2>1. /\ live' \subseteq Tabs /\ panes' \subseteq Ids /\ gone' \subseteq Tabs
    BY <1>1, <1>19, LoadFacts DEF States
  <2>2. QED
    BY <1>1, <1>19, <2>1, LoadFacts
<1>20. CASE Adopt
  BY <1>1, <1>20, AdoptFacts DEF In
<1>21. CASE DaysPass
  <2>1. file' \in [kind : {"absent", "empty", "mixed", "ok"}, state : States]
    <3>1. file' = [file EXCEPT !.state = AgedState(file.state)]
      BY <1>21 DEF DaysPass
    <3>2. AgedState(file.state) \in States
      BY <1>1, StateFacts
    <3>3. QED
      BY <1>1, <3>1, <3>2
  <2>2. QED
    BY <1>1, <1>21, <2>1, DaysFacts
<1>22. ASSUME NEW w \in Savers, Capture(w) PROVE TypeOK'
  <2>1. held' \in [Savers -> States]
    <3>1. held'[w] \in States /\ \E x : held' = [held EXCEPT ![w] = x]
      BY <1>22, SaveFacts DEF Capture
    <3>2. QED
      BY <1>1, <3>1
  <2>2. late' \subseteq Ids
    BY <1>1, <1>22 DEF Capture, In
  <2>3. QED
    BY <1>1, <1>22, <2>1, <2>2 DEF Capture, memory
<1>23. ASSUME NEW w \in Savers, Open(w) PROVE TypeOK'
  <2>1. held' \in [Savers -> States]
    <3>1. held'[w] \in States /\ \E x : held' = [held EXCEPT ![w] = x]
      BY <1>23, SaveFacts DEF Open
    <3>2. QED
      BY <1>1, <3>1
  <2>2. QED
    BY <1>1, <1>23, <2>1, NothingFacts DEF Open, memory, history
<1>24. ASSUME NEW w \in Savers, Write(w) PROVE TypeOK'
  <2>1. held' \in [Savers -> States] /\ held[w] \in States
    BY <1>1, <1>24, NothingFacts DEF Write, Saved
  <2>2. file' \in [kind : {"absent", "empty", "mixed", "ok"}, state : States]
    BY <1>24, <2>1, NothingFacts DEF Write, Mixed
  <2>3. stage' \in [Savers -> {"idle", "due", "captured", "opened"}] /\ solo' \subseteq Savers
    BY <1>1, <1>24 DEF Write, Saved
  <2>4. cut' \in BOOLEAN /\ missed' \subseteq Ids
    BY <1>1, <1>24 DEF Write
  <2>5. QED
    BY <1>1, <1>24, <2>1, <2>2, <2>3, <2>4 DEF Write, memory
<1>25. ASSUME NEW w \in Savers, WriteFails(w) PROVE TypeOK'
  <2>1. held' \in [Savers -> States]
    BY <1>1, <1>25, NothingFacts DEF WriteFails, Saved
  <2>2. file' \in [kind : {"absent", "empty", "mixed", "ok"}, state : States]
    BY <1>1, <1>25, NothingFacts DEF WriteFails, Mixed
  <2>3. QED
    BY <1>1, <1>25, <2>1, <2>2 DEF WriteFails, Saved, memory
<1>26. ASSUME NEW i \in Ids, ShellExit(i) \/ SessionEnds(i) PROVE TypeOK'
  BY <1>1, <1>26 DEF ShellExit, SessionEnds, memory, saver, history
<1>27. QED
  BY <1>2, <1>3, <1>4, <1>5, <1>6, <1>7, <1>8, <1>9, <1>10, <1>11, <1>12, <1>13, <1>14,
     <1>15, <1>16, <1>17, <1>18, <1>19, <1>20, <1>21, <1>22, <1>23, <1>24, <1>25, <1>26
  DEF Next, HandlerStep, MainStep, SaveStep

\* A request or a save under way has a process that serves it.
LEMMA ServingFacts ==
  ASSUME IInv
  PROVE  /\ request.op # "none" => Serving
         /\ \A w \in Savers : stage[w] # "idle" => Serving
         /\ phase \in {"down", "loaded"} <=> ~Serving
         /\ HandlerFree => /\ Serving /\ request.op = "none" /\ request = NoRequest
                           /\ stage["handler"] = "idle"
BY DEF IInv, TypeOK, StageInv, Serving, HandlerFree, NoRequest

\* Every tab there is, or was, has had an id generated for it.
LEMMA UsedFacts ==
  ASSUME IInv
  PROVE  /\ live \subseteq UsedTabs /\ gone \subseteq UsedTabs /\ Shown \subseteq panes
         /\ \A i \in panes : i[1] \in UsedTabs
BY DEF IInv, UsedInv, UsedTabs, Shown

\* What a request and a process are doing stays well-formed.
LEMMA StageStep ==
  ASSUME IInv, [Next]_vars
  PROVE  StageInv'
<1> USE DEF StageInv
<1>1. TypeOK /\ StageInv /\ UsedInv /\ SaveInv
  BY DEF IInv
<1>2. ASSUME UNCHANGED <<used, live, panes, stage, held, request, gone>>, In(sessions') \subseteq In(sessions),
             phase' = phase, alive' = {} \/ Serving
      PROVE  StageInv'
  <2>1. UNCHANGED <<UsedTabs, Saving, Shown, Panes(request.tab)>> /\ (phase \in {"down", "loaded"} <=> ~Serving)
    BY <1>2, ServingFacts DEF UsedTabs, Saving, Shown, Panes
  <2>2. QED
    BY <1>1, <1>2, <2>1
<1>3. CASE UNCHANGED vars
  <2>1. UNCHANGED <<UsedTabs, Saving, Shown, Panes(request.tab), In(sessions)>>
    BY <1>3 DEF vars, memory, saver, UsedTabs, Saving, Shown, Panes, In
  <2>2. QED
    BY <1>1, <1>3, <2>1 DEF vars, memory, saver, history
<1>4. ASSUME NEW i \in Ids, StartTab(i) PROVE StageInv'
  <2>1. /\ Serving /\ request' = Asked("create", i[1], {i}, {}) /\ used' = used \cup {i}
        /\ stage["handler"] = "idle" /\ \A j \in used : j[1] # i[1]
        /\ UNCHANGED <<phase, live, panes, sessions, alive, stage, held, gone>>
    BY <1>4, ServingFacts DEF StartTab, memory, saver, history, HandlerFree
  <2>2. i[1] \notin UsedTabs /\ i \notin used
    BY <2>1 DEF UsedTabs
  <2>3. i[1] \in UsedTabs' /\ Saving' = Saving
    BY <2>1 DEF UsedTabs, Saving
  <2>4. i[1] \notin live \cup gone /\ Panes(i[1])' = {} /\ i \notin panes
    BY <1>1, <2>1, <2>2, UsedFacts DEF Panes, UsedInv
  <2>5. QED
    BY <1>1, <2>1, <2>2, <2>3, <2>4, ServingFacts DEF Asked
<1>5. CASE EditStep
  <2>1. PICK t \in Tabs, new \in SUBSET Ids, olds \in SUBSET panes :
          Edit(t, new, olds) /\ new \cap used = {} /\ \A i \in new \cup olds : i[1] = t
    BY <1>5, EditFacts
  <2>2. /\ Serving /\ request' = Asked("edit", t, new, olds) /\ used' = used \cup new
        /\ stage["handler"] = "idle" /\ t \in live
        /\ UNCHANGED <<phase, live, panes, sessions, alive, stage, held, gone>>
    BY <2>1, ServingFacts DEF Edit, memory, saver, history, HandlerFree
  <2>3. t \in UsedTabs' /\ Saving' = Saving
    BY <2>2, UsedFacts DEF UsedTabs, Saving
  <2>4. new \subseteq used' \ panes
    BY <1>1, <2>1, <2>2 DEF UsedInv
  <2>5. QED
    BY <1>1, <2>1, <2>2, <2>3, <2>4, ServingFacts DEF Asked
<1>6. ASSUME NEW i \in Ids, BeginSession(i) PROVE StageInv'
  <2>1. /\ request.op \in {"create", "edit"} /\ Serving
        /\ UNCHANGED <<phase, used, live, panes, stage, held, request, gone>>
    BY <1>6, ServingFacts DEF BeginSession, saver
  <2>2. UNCHANGED <<UsedTabs, Saving, Shown, Panes(request.tab)>>
    BY <2>1 DEF UsedTabs, Saving, Shown, Panes
  <2>3. QED
    BY <1>1, <2>1, <2>2, ServingFacts
<1>7. ASSUME NEW i \in Ids, Revive(i) \/ Output(i) PROVE StageInv'
  <2>1. In(sessions') = In(sessions) /\ Serving
    BY <1>7, MapFacts DEF Revive, Output
  <2>2. UNCHANGED <<phase, used, live, panes, stage, held, request, gone>>
    BY <1>7 DEF Revive, Output, saver, history
  <2>3. QED
    BY <1>2, <2>1, <2>2
<1>8. ASSUME NEW i \in Ids, DeleteSession(i) PROVE StageInv'
  <2>1. /\ request.op \in {"drop", "undo"} /\ Serving /\ In(sessions') = In(sessions) \ {i}
        /\ UNCHANGED <<phase, used, live, panes, stage, held, gone>>
    BY <1>8, ServingFacts, MapFacts DEF DeleteSession, saver, history
  <2>2. /\ request'.op = request.op /\ request'.tab = request.tab /\ request'.olds = request.olds \ {i}
        /\ request'.kill = {i} \cap In(sessions)
    BY <1>1, <1>8 DEF DeleteSession, TypeOK
  <2>3. UNCHANGED <<UsedTabs, Saving, Shown>>
    BY <2>1 DEF UsedTabs, Saving, Shown
  <2>4. QED
    BY <1>1, <2>1, <2>2, <2>3, ServingFacts
<1>9. ASSUME NEW t \in Tabs, UpdateTab(t) PROVE StageInv'
  <2>1. /\ Serving /\ request = NoRequest /\ stage["handler"] = "idle" /\ stage'["handler"] = "due"
        /\ \A w \in Savers \ {"handler"} : stage'[w] = stage[w]
        /\ UNCHANGED <<phase, used, live, panes, sessions, held, request, gone>>
    BY <1>9, ServingFacts, SaveFacts DEF UpdateTab, Due, history, Savers
  <2>2. UNCHANGED <<UsedTabs, Saving>>
    BY <2>1 DEF UsedTabs, Saving, Savers
  <2>3. QED
    BY <1>1, <2>1, <2>2, ServingFacts DEF NoRequest, Savers
<1>10. ASSUME NEW t \in Tabs, DeleteTab(t) PROVE StageInv'
  <2>1. /\ Serving /\ request' = Asked("drop", t, {}, Panes(t)) /\ live' = live \ {t} /\ t \in live
        /\ stage["handler"] = "idle"
        /\ UNCHANGED <<phase, used, panes, sessions, stage, held, gone>>
    BY <1>10, ServingFacts DEF DeleteTab, saver
  <2>2. t \in UsedTabs /\ UNCHANGED <<UsedTabs, Saving>>
    BY <2>1, UsedFacts DEF UsedTabs, Saving
  <2>3. Panes(t) \cap Shown' = {}
    BY <2>1 DEF Panes, Shown
  <2>4. QED
    BY <1>1, <2>1, <2>2, <2>3, ServingFacts DEF Asked
<1>11. CASE SpawnFails
  <2>1. /\ Serving /\ request.op \in {"create", "edit"}
        /\ request' = Asked("undo", request.tab, {}, request.new \cap In(sessions))
        /\ UNCHANGED <<phase, used, live, panes, sessions, stage, held, gone>>
    BY <1>11, ServingFacts DEF SpawnFails, memory, saver, history
  <2>2. UNCHANGED <<UsedTabs, Saving, Shown>> /\ Shown \subseteq panes
    BY <2>1 DEF UsedTabs, Saving, Shown
  <2>3. QED
    BY <1>1, <2>1, <2>2, ServingFacts DEF Asked
<1>12. CASE CreateTab
  <2>1. /\ Serving /\ request' = NoRequest /\ request.op = "create"
        /\ UNCHANGED <<phase, used, sessions, stage, held>>
    BY <1>12, ServingFacts DEF CreateTab, saver
  <2>2. Saving' = Saving
    BY <2>1 DEF Saving
  <2>3. QED
    BY <1>1, <2>1, <2>2, ServingFacts DEF NoRequest
<1>13. CASE SetLayout
  <2>1. /\ Serving /\ request.op = "edit" /\ request' = Asked("drop", request.tab, {}, request.olds)
        /\ panes' = (panes \ request.olds) \cup request.new
        /\ UNCHANGED <<phase, used, live, sessions, stage, held, gone>>
    BY <1>13, ServingFacts DEF SetLayout, saver
  <2>2. UNCHANGED <<UsedTabs, Saving>>
    BY <2>1 DEF UsedTabs, Saving
  <2>3. request.olds \cap Shown' = {}
    BY <1>1, <2>1 DEF Shown
  <2>4. QED
    BY <1>1, <2>1, <2>2, <2>3, ServingFacts DEF Asked
<1>14. CASE KillShell
  <2>1. /\ Serving
        /\ UNCHANGED <<phase, used, live, panes, sessions, stage, held, gone>>
    BY <1>1, <1>14, ServingFacts DEF KillShell, memory, saver, history, TypeOK, NoRequest
  <2>2. /\ request'.op = request.op /\ request'.tab = request.tab /\ request'.olds = request.olds
        /\ request'.new = request.new /\ request'.kill = {}
    BY <1>1, <1>14 DEF KillShell, TypeOK
  <2>3. UNCHANGED <<UsedTabs, Saving, Shown>> /\ Panes(request.tab)' = Panes(request.tab)
    BY <2>1, <2>2 DEF UsedTabs, Saving, Shown, Panes
  <2>4. QED
    BY <1>1, <2>1, <2>2, <2>3, ServingFacts
<1>15. CASE Dropped
  <2>1. /\ Serving /\ request.op = "drop" /\ request.olds = {} /\ request.kill = {}
        /\ stage["handler"] = "idle" /\ stage'["handler"] = "due"
        /\ \A w \in Savers \ {"handler"} : stage'[w] = stage[w]
        /\ UNCHANGED <<phase, used, live, panes, sessions, held, gone>>
    BY <1>1, <1>15, ServingFacts, SaveFacts DEF Dropped, Due, memory, history, Savers
  <2>2. request'.op = "answer" /\ request'.tab = request.tab /\ request'.olds = {} /\ request'.kill = {}
    BY <1>1, <1>15 DEF Dropped, TypeOK
  <2>3. UNCHANGED <<UsedTabs, Saving>>
    BY <2>1 DEF UsedTabs, Saving, Savers
  <2>4. QED
    BY <1>1, <2>1, <2>2, <2>3, ServingFacts DEF Savers
<1>16. CASE Undone \/ Answered
  <2>1. /\ Serving /\ request' = NoRequest
        /\ UNCHANGED <<phase, used, live, panes, sessions, stage, held>>
    BY <1>16, ServingFacts DEF Undone, Answered, memory, saver, history
  <2>2. UNCHANGED <<UsedTabs, Saving>>
    BY <2>1 DEF UsedTabs, Saving
  <2>3. QED
    BY <1>1, <2>1, <2>2, ServingFacts DEF NoRequest
<1>17. CASE Tick \/ Stop \/ Pause \/ HandoffFiles
  <2>1. /\ phase \notin {"down", "loaded"} /\ phase' \notin {"down", "loaded"}
        /\ UNCHANGED <<used, live, panes, sessions, held, request, gone>>
    BY <1>17 DEF Tick, Stop, Pause, HandoffFiles, Due, memory, history
  <2>2. /\ Saving' = Saving /\ stage'["handler"] = stage["handler"]
        /\ phase' = "up" => stage'["main"] = "idle"
    BY <1>1, <1>17 DEF Tick, Stop, Pause, HandoffFiles, Due, Saving, Savers, TypeOK
  <2>3. UNCHANGED <<UsedTabs, Shown>> /\ Panes(request.tab)' = Panes(request.tab)
    BY <2>1 DEF UsedTabs, Shown, Panes
  <2>4. QED
    BY <1>1, <2>1, <2>2, <2>3
<1>18. CASE ListFiles
  <2>1. /\ phase \notin {"down", "loaded"} /\ phase' = "listed"
        /\ UNCHANGED <<used, live, panes, sessions, stage, held, request, gone>>
    BY <1>18 DEF ListFiles, memory, saver, history
  <2>2. UNCHANGED <<UsedTabs, Saving, Shown>> /\ Panes(request.tab)' = Panes(request.tab)
    BY <2>1 DEF UsedTabs, Shown, Panes, Saving
  <2>3. QED
    BY <1>1, <2>1, <2>2
<1>19. CASE Exec \/ Exit \/ Crash
  BY <1>19, EndFacts DEF NoRequest
<1>20. CASE LoadState
  <2>1. Saving' = Saving
    BY <1>20, LoadFacts DEF Saving
  <2>2. QED
    BY <1>1, <1>20, <2>1, LoadFacts DEF NoRequest
<1>21. CASE Adopt
  <2>1. Saving' = Saving
    BY <1>21, AdoptFacts DEF Saving
  <2>2. QED
    BY <1>1, <1>21, <2>1, AdoptFacts DEF NoRequest, Savers
<1>22. CASE DaysPass
  <2>1. UNCHANGED <<UsedTabs, Saving, Shown>> /\ Panes(request.tab)' = Panes(request.tab)
    BY <1>22, DaysFacts DEF UsedTabs, Shown, Panes
  <2>2. QED
    BY <1>1, <1>22, <2>1, DaysFacts
<1>23. ASSUME NEW w \in Savers, Capture(w) \/ Open(w) \/ Write(w) \/ WriteFails(w)
       PROVE  StageInv'
  <2>1. /\ Serving /\ stage[w] # "idle"
        /\ UNCHANGED <<phase, used, live, panes, sessions, request, gone>>
    BY <1>23, ServingFacts, SaveFacts DEF Capture, Open, Write, WriteFails, memory, history
  <2>2. /\ \A v \in Savers \ {w} : stage'[v] = stage[v] /\ held'[v] = held[v]
        /\ (stage'[w] = "idle" /\ held'[w] = Nothing) \/ stage'[w] \in {"captured", "opened"}
    BY <1>23, SaveFacts
  <2>3. UNCHANGED <<UsedTabs, Shown>> /\ Panes(request.tab)' = Panes(request.tab)
    BY <2>1 DEF UsedTabs, Shown, Panes
  <2>4. /\ phase = "up" => stage'["main"] = "idle"
        /\ request.op \in {"create", "edit", "undo", "drop"} => stage'["handler"] = "idle"
    BY <1>1, <2>1, <2>2 DEF Savers
  <2>5. \A v \in Savers \ Saving' : held'[v] = Nothing
    BY <1>1, <2>2 DEF Saving
  <2>6. QED
    BY <1>1, <2>1, <2>3, <2>4, <2>5, ServingFacts
<1>24. ASSUME NEW i \in Ids, ShellExit(i) \/ SessionEnds(i) PROVE StageInv'
  <2>1. /\ UNCHANGED <<phase, used, live, panes, sessions, stage, held, request, gone>>
        /\ alive' = {} \/ Serving
    BY <1>1, <1>24, ServingFacts DEF ShellExit, SessionEnds, memory, saver, history
  <2>2. QED
    BY <1>2, <2>1
<1>25. QED
  BY <1>3, <1>4, <1>5, <1>6, <1>7, <1>8, <1>9, <1>10, <1>11, <1>12, <1>13, <1>14, <1>15,
     <1>16, <1>17, <1>18, <1>19, <1>20, <1>21, <1>22, <1>23, <1>24
  DEF Next, HandlerStep, MainStep, SaveStep

\* What a save makes of state.json.
LEMMA FileFacts ==
  ASSUME IInv, NEW w \in Savers
  PROVE  /\ Capture(w) => file' = file
         /\ Open(w) => file'.kind = "empty" /\ file'.state = Nothing
         /\ Write(w) => /\ stage[w] = "opened"
                        /\ \/ file'.kind = "ok" /\ file'.state = held[w]
                           \/ file.kind # "empty" /\ file'.kind = "mixed" /\ file'.state = Nothing
         /\ WriteFails(w) => file' = file \/ (stage[w] = "opened" /\ file'.kind = "mixed" /\ file'.state = Nothing)
BY DEF Capture, Open, Write, WriteFails, Mixed

\* Ids are not generated twice, and what a tab has it keeps.
LEMMA UsedStep ==
  ASSUME IInv, [Next]_vars
  PROVE  UsedInv'
<1> USE DEF UsedInv
<1>1. TypeOK /\ StageInv /\ UsedInv /\ SaveInv
  BY DEF IInv
<1>2. ASSUME UNCHANGED <<panes, live, tabs, gone, file, held>>, used \subseteq used', alive' \subseteq In(sessions')
      PROVE  UsedInv'
  <2>1. UsedTabs \subseteq UsedTabs' /\ In(tabs)' = In(tabs)
    BY <1>2 DEF UsedTabs, In
  <2>2. QED
    BY <1>1, <1>2, <2>1
<1>3. CASE UNCHANGED vars
  <2>1. In(sessions)' = In(sessions)
    BY <1>3 DEF vars, memory, In
  <2>2. QED
    BY <1>1, <1>2, <1>3, <2>1 DEF vars, memory, saver, history
<1>4. ASSUME NEW i \in Ids, StartTab(i) PROVE UsedInv'
  <2>1. In(sessions)' = In(sessions)
    BY <1>4 DEF StartTab, memory, In
  <2>2. QED
    BY <1>1, <1>2, <1>4, <2>1 DEF StartTab, memory, saver, history
<1>5. CASE EditStep
  <2>1. PICK t \in Tabs, new \in SUBSET Ids, olds \in SUBSET panes : Edit(t, new, olds)
    BY <1>5, EditFacts
  <2>2. In(sessions)' = In(sessions)
    BY <2>1 DEF Edit, memory, In
  <2>3. QED
    BY <1>1, <1>2, <2>1, <2>2 DEF Edit, memory, saver, history
<1>6. ASSUME NEW i \in Ids, BeginSession(i) \/ Revive(i) \/ Output(i) PROVE UsedInv'
  <2>1. In(sessions') = In(sessions) \cup {i}
    BY <1>6, MapFacts
  <2>2. QED
    BY <1>1, <1>2, <1>6, <2>1 DEF BeginSession, Revive, Output, saver, history
<1>7. ASSUME NEW i \in Ids, DeleteSession(i) PROVE UsedInv'
  <2>1. In(sessions') = In(sessions) \ {i}
    BY <1>7, MapFacts
  <2>2. QED
    BY <1>1, <1>2, <1>7, <2>1 DEF DeleteSession, saver, history
<1>8. ASSUME NEW t \in Tabs, UpdateTab(t) PROVE UsedInv'
  <2>1. In(tabs') = In(tabs) /\ UNCHANGED <<used, live, panes, sessions, alive, held, file, gone>>
    BY <1>8, MapFacts DEF UpdateTab, Due, history
  <2>2. UsedTabs' = UsedTabs
    BY <2>1 DEF UsedTabs
  <2>3. QED
    BY <1>1, <2>1, <2>2
<1>9. ASSUME NEW t \in Tabs, DeleteTab(t) PROVE UsedInv'
  <2>1. live' \subseteq live /\ UNCHANGED <<used, tabs, panes, sessions, alive, held, file, gone>>
    BY <1>9 DEF DeleteTab, saver
  <2>2. UsedTabs' = UsedTabs
    BY <2>1 DEF UsedTabs
  <2>3. QED
    BY <1>1, <2>1, <2>2
<1>10. CASE CreateTab \/ SetLayout
  <2>1. /\ In(tabs') = In(tabs) \cup {request.tab} /\ request.tab \in UsedTabs
        /\ live' \subseteq live \cup {request.tab} /\ panes' \subseteq panes \cup request.new
        /\ request.new \subseteq used
        /\ UNCHANGED <<used, sessions, alive, held, file, gone>>
    BY <1>1, <1>10, MapFacts DEF CreateTab, SetLayout, saver, history, StageInv
  <2>2. UsedTabs' = UsedTabs
    BY <2>1 DEF UsedTabs
  <2>3. QED
    BY <1>1, <2>1, <2>2
<1>11. CASE SpawnFails \/ KillShell \/ Dropped \/ Undone \/ Tick \/ Stop \/ Pause \/
            HandoffFiles \/ ListFiles
  <2>1. /\ UNCHANGED <<used, live, tabs, panes, sessions, held, file, gone>>
        /\ alive' \subseteq alive
    BY <1>11 DEF SpawnFails, KillShell, Dropped, Undone, Tick, Stop, Pause, HandoffFiles, ListFiles, memory, saver, history, Due
  <2>2. QED
    BY <1>1, <1>2, <2>1
<1>12. CASE Answered
  <2>1. /\ gone' \subseteq gone \cup {request.tab} /\ request.tab \in UsedTabs
        /\ UNCHANGED <<used, live, tabs, panes, sessions, alive, held, file>>
    BY <1>1, <1>12 DEF Answered, memory, saver, StageInv
  <2>2. UsedTabs' = UsedTabs
    BY <2>1 DEF UsedTabs
  <2>3. QED
    BY <1>1, <2>1, <2>2
<1>13. CASE Exec \/ Exit \/ Crash
  <2>1. UsedTabs' = UsedTabs
    BY <1>13, EndFacts DEF UsedTabs
  <2>2. \A w \in Savers : In(held'[w].tabs) = {} /\ held'[w].panes = {}
    BY <1>13, EndFacts, NothingFacts
  <2>3. QED
    BY <1>1, <1>13, <2>1, <2>2, EndFacts
<1>14. CASE LoadState
  <2>1. UsedTabs' = UsedTabs
    BY <1>14, LoadFacts DEF UsedTabs
  <2>2. \A w \in Savers : In(held'[w].tabs) = {} /\ held'[w].panes = {}
    BY <1>14, LoadFacts, NothingFacts
  <2>3. QED
    BY <1>1, <1>14, <2>1, <2>2, LoadFacts
<1>15. CASE Adopt
  BY <1>1, <1>2, <1>15, AdoptFacts
<1>16. CASE DaysPass
  <2>1. UsedTabs' = UsedTabs
    BY <1>16, DaysFacts DEF UsedTabs
  <2>2. QED
    BY <1>1, <1>16, <2>1, DaysFacts
<1>17. ASSUME NEW w \in Savers, Capture(w) \/ Open(w) PROVE UsedInv'
  <2>1. UNCHANGED <<used, live, tabs, panes, sessions, alive, gone>>
    BY <1>17 DEF Capture, Open, memory, history
  <2>2. UsedTabs' = UsedTabs
    BY <2>1 DEF UsedTabs
  <2>3. \A v \in Savers : In(held'[v].tabs) \subseteq In(tabs) /\ held'[v].panes \subseteq used
    BY <1>1, <1>17, SaveFacts DEF ToWrite
  <2>4. file' = file \/ file'.state = Nothing
    BY <1>17, FileFacts
  <2>5. QED
    BY <1>1, <2>1, <2>2, <2>3, <2>4, NothingFacts
<1>18. ASSUME NEW w \in Savers, Write(w) \/ WriteFails(w) PROVE UsedInv'
  <2>1. UNCHANGED <<used, live, tabs, panes, sessions, alive, gone>>
    BY <1>18 DEF Write, WriteFails, memory
  <2>2. UsedTabs' = UsedTabs
    BY <2>1 DEF UsedTabs
  <2>3. \A v \in Savers : In(held'[v].tabs) \subseteq In(tabs) /\ held'[v].panes \subseteq used
    BY <1>1, <1>18, SaveFacts, NothingFacts
  <2>4. file' = file \/ file'.state \in {Nothing, held[w]}
    BY <1>18, FileFacts
  <2>5. QED
    BY <1>1, <2>1, <2>2, <2>3, <2>4, NothingFacts
<1>19. ASSUME NEW i \in Ids, ShellExit(i) \/ SessionEnds(i) PROVE UsedInv'
  <2>1. /\ UNCHANGED <<used, live, tabs, panes, sessions, held, file, gone>>
        /\ alive' \subseteq alive
    BY <1>19 DEF ShellExit, SessionEnds, memory, saver, history
  <2>2. QED
    BY <1>1, <1>2, <2>1
<1>20. QED
  BY <1>3, <1>4, <1>5, <1>6, <1>7, <1>8, <1>9, <1>10, <1>11, <1>12, <1>13, <1>14, <1>15,
     <1>16, <1>17, <1>18, <1>19
  DEF Next, HandlerStep, MainStep, SaveStep

\* What a save shows, by the tabs it has.
LEMMA ShownBy ==
  ASSUME NEW P \in SUBSET Ids, NEW T \in [Tabs -> Stamps]
  PROVE  {i \in P : T[i[1]] # None} = {i \in P : i[1] \in In(T)}
BY IdTab DEF In

\* What a save under way shows, before a step and after it.
LEMMA ToWriteFacts ==
  ASSUME IInv, [Next]_vars
  PROVE  /\ \A w \in Savers : stage[w] = "captured" => ToWrite(w) = {i \in panes : i[1] \in In(held[w].tabs)}
         /\ \A w \in Savers : stage'[w] = "captured" => ToWrite(w)' = {i \in panes' : i[1] \in In(held'[w].tabs)}
         /\ \A w \in Savers : /\ ToWrite(w) \subseteq Ids /\ ToWrite(w)' \subseteq Ids
                              /\ stage[w] # "captured" => ToWrite(w) = held[w].panes
                              /\ stage'[w] # "captured" => ToWrite(w)' = held'[w].panes
         /\ \A w \in Savers, i \in Ids : /\ held[w].tabs[i[1]] # None <=> i[1] \in In(held[w].tabs)
                                       /\ held'[w].tabs[i[1]] # None <=> i[1] \in In(held'[w].tabs)
<1>1. TypeOK /\ TypeOK'
  BY TypeStep DEF IInv
<1>2. /\ panes \subseteq Ids /\ panes' \subseteq Ids
      /\ \A w \in Savers : held[w] \in States /\ held'[w] \in States
  BY <1>1 DEF TypeOK
<1>3. \A s \in States : /\ s.tabs \in [Tabs -> Stamps] /\ s.panes \subseteq Ids
                        /\ \A P \in SUBSET Ids : {i \in P : s.tabs[i[1]] # None} = {i \in P : i[1] \in In(s.tabs)}
  BY StateFacts, ShownBy
<1>4. \A w \in Savers : /\ ToWrite(w) \subseteq Ids /\ ToWrite(w)' \subseteq Ids
                        /\ stage[w] # "captured" => ToWrite(w) = held[w].panes
                        /\ stage'[w] # "captured" => ToWrite(w)' = held'[w].panes
  BY <1>2, <1>3 DEF ToWrite
<1>5. \A w \in Savers : stage[w] = "captured" => ToWrite(w) = {i \in panes : i[1] \in In(held[w].tabs)}
  BY <1>2, <1>3 DEF ToWrite
<1>6. \A w \in Savers : stage'[w] = "captured" => ToWrite(w)' = {i \in panes' : i[1] \in In(held'[w].tabs)}
  BY <1>2, <1>3 DEF ToWrite
<1>7. \A s \in States, i \in Ids : s.tabs[i[1]] # None <=> i[1] \in In(s.tabs)
  BY IdTab, <1>3 DEF In
<1>8. QED
  BY <1>2, <1>4, <1>5, <1>6, <1>7

\* Panes and sessions agree in memory, in a save under way and on the disk.
LEMMA PaneStep ==
  ASSUME IInv, [Next]_vars
  PROVE  PaneInv'
<1> USE DEF PaneInv, PanesHaveSessionsUnlessMissed, Excused
<1>1. TypeOK /\ StageInv /\ UsedInv /\ SaveInv /\ PaneInv
  BY DEF IInv
<1>2. ASSUME UNCHANGED <<panes, held, file, aged, missed>>, In(sessions') = In(sessions), live' \subseteq live,
             Saving' = Saving, \A w \in Saving : stage'[w] = stage[w]
      PROVE  PaneInv'
  <2>1. Shown' \subseteq Shown
    BY <1>2 DEF Shown
  <2>2. \A w \in Saving : ToWrite(w)' = ToWrite(w)
    BY <1>2 DEF ToWrite
  <2>3. QED
    BY <1>1, <1>2, <2>1, <2>2
<1>3. CASE UNCHANGED vars
  <2>1. UNCHANGED <<In(sessions), Saving>>
    BY <1>3 DEF vars, memory, saver, In, Saving
  <2>2. QED
    BY <1>2, <1>3, <2>1 DEF vars, memory, saver, history
<1>4. ASSUME NEW i \in Ids, StartTab(i) \/ ShellExit(i) \/ SessionEnds(i) PROVE PaneInv'
  <2>1. UNCHANGED <<live, panes, sessions, stage, held, file, aged, missed>>
    BY <1>4 DEF StartTab, ShellExit, SessionEnds, memory, saver, history
  <2>2. UNCHANGED <<In(sessions), Saving>>
    BY <2>1 DEF In, Saving
  <2>3. QED
    BY <1>2, <2>1, <2>2
<1>5. CASE EditStep
  <2>1. PICK t \in Tabs, new \in SUBSET Ids, olds \in SUBSET panes : Edit(t, new, olds)
    BY <1>5, EditFacts
  <2>2. UNCHANGED <<live, panes, sessions, stage, held, file, aged, missed>>
    BY <2>1 DEF Edit, memory, saver, history
  <2>3. UNCHANGED <<In(sessions), Saving>>
    BY <2>2 DEF In, Saving
  <2>4. QED
    BY <1>2, <2>2, <2>3
<1>6. ASSUME NEW i \in Ids, BeginSession(i) PROVE PaneInv'
  <2>1. /\ In(sessions') = In(sessions) \cup {i} /\ missed \subseteq missed'
        /\ (\E w \in Savers : stage[w] = "captured") => i \in missed'
        /\ UNCHANGED <<live, panes, stage, held, file, aged>>
    BY <1>6, MapFacts DEF BeginSession, saver
  <2>2. UNCHANGED <<Shown, Saving>> /\ \A w \in Saving : ToWrite(w)' = ToWrite(w)
    BY <2>1 DEF Shown, Saving, ToWrite
  <2>3. ASSUME NEW w \in Saving, stage[w] = "captured"
        PROVE  In(sessions') \subseteq In(held[w].sessions) \cup missed'
    BY <1>1, <2>1, <2>3 DEF Saving
  <2>4. QED
    BY <1>1, <2>1, <2>2, <2>3
<1>7. ASSUME NEW i \in Ids, Revive(i) \/ Output(i) PROVE PaneInv'
  <2>1. In(sessions') = In(sessions)
    BY <1>7, MapFacts
  <2>2. UNCHANGED <<live, panes, stage, held, file, aged, missed>>
    BY <1>7 DEF Revive, Output, saver, history
  <2>3. Saving' = Saving
    BY <2>2 DEF Saving
  <2>4. QED
    BY <1>2, <2>1, <2>2, <2>3
<1>8. ASSUME NEW i \in Ids, DeleteSession(i) PROVE PaneInv'
  <2>1. In(sessions') = In(sessions) \ {i} /\ i \notin Shown
    BY <1>1, <1>8, MapFacts DEF DeleteSession, StageInv
  <2>2. UNCHANGED <<live, panes, stage, held, file, aged, missed>>
    BY <1>8 DEF DeleteSession, saver, history
  <2>3. UNCHANGED <<Shown, Saving>> /\ \A w \in Saving : ToWrite(w)' = ToWrite(w)
    BY <2>2 DEF Shown, Saving, ToWrite
  <2>4. QED
    BY <1>1, <2>1, <2>2, <2>3
<1>9. ASSUME NEW t \in Tabs, UpdateTab(t) PROVE PaneInv'
  <2>1. UNCHANGED <<live, panes, sessions, held, file, aged, missed>>
    BY <1>9 DEF UpdateTab, Due, history
  <2>2. Saving' = Saving /\ \A w \in Saving : stage'[w] = stage[w]
    BY <1>9 DEF UpdateTab, HandlerFree, Due, Saving
  <2>3. In(sessions)' = In(sessions)
    BY <2>1 DEF In
  <2>4. QED
    BY <1>2, <2>1, <2>2, <2>3
<1>10. ASSUME NEW t \in Tabs, DeleteTab(t) PROVE PaneInv'
  <2>1. live' \subseteq live /\ UNCHANGED <<panes, sessions, stage, held, file, aged, missed>>
    BY <1>10 DEF DeleteTab, saver
  <2>2. UNCHANGED <<In(sessions), Saving>>
    BY <2>1 DEF In, Saving
  <2>3. QED
    BY <1>2, <2>1, <2>2
<1>11. CASE CreateTab \/ SetLayout
  <2>1. /\ request.new \subseteq In(sessions) /\ panes' \subseteq panes \cup request.new
        /\ live' = live \/ (live' = live \cup {request.tab} /\ Panes(request.tab) = {})
        /\ UNCHANGED <<sessions, stage, held, file, aged, missed>>
    BY <1>1, <1>11 DEF CreateTab, SetLayout, saver, history, StageInv
  <2>2. Shown' \subseteq Shown \cup request.new
    BY <2>1 DEF Shown, Panes
  <2>3. \A w \in Savers : ToWrite(w)' \subseteq ToWrite(w) \cup request.new /\ (stage[w] = "captured" \/ ToWrite(w)' = ToWrite(w))
    BY <2>1 DEF ToWrite
  <2>4. UNCHANGED <<In(sessions), Saving>>
    BY <2>1 DEF In, Saving
  <2>5. ASSUME NEW w \in Saving
        PROVE  ToWrite(w)' \subseteq In(held[w].sessions) \cup Excused
    BY <1>1, <2>1, <2>3 DEF Saving
  <2>6. PanesHaveSessionsUnlessMissed'
    BY <1>1, <2>1, <2>2, <2>4
  <2>7. \A w \in Saving : In(held[w].sessions) \cap Shown' \subseteq In(sessions)
    BY <1>1, <2>1, <2>2
  <2>8. QED
    BY <1>1, <2>1, <2>4, <2>5, <2>6, <2>7
<1>12. CASE SpawnFails \/ KillShell \/ Undone \/ Answered \/ ListFiles
  <2>1. UNCHANGED <<live, panes, sessions, stage, held, file, aged, missed>>
    BY <1>12 DEF SpawnFails, KillShell, Undone, Answered, ListFiles, memory, saver, history
  <2>2. UNCHANGED <<In(sessions), Saving>>
    BY <2>1 DEF In, Saving
  <2>3. QED
    BY <1>2, <2>1, <2>2
<1>13. CASE Dropped \/ Tick \/ Stop \/ Pause \/ HandoffFiles
  <2>1. UNCHANGED <<live, panes, sessions, held, file, aged, missed>>
    BY <1>13 DEF Dropped, Tick, Stop, Pause, HandoffFiles, memory, history, Due
  <2>2. Saving' = Saving /\ \A w \in Saving : stage'[w] = stage[w]
    BY <1>1, <1>13 DEF Dropped, Tick, Stop, Pause, HandoffFiles, Due, Saving, StageInv, TypeOK, Savers
  <2>3. In(sessions)' = In(sessions)
    BY <2>1 DEF In
  <2>4. QED
    BY <1>2, <2>1, <2>2, <2>3
<1>14. CASE Exec \/ Exit \/ Crash
  <2>1. Shown' = {}
    BY <1>14, EndFacts DEF Shown
  <2>2. QED
    BY <1>1, <1>14, <2>1, EndFacts
<1>15. CASE LoadState
  <2>1. Shown' = LoadedPanes /\ Saving' = {}
    BY <1>15, LoadFacts DEF Shown, Saving, LoadedPanes
  <2>2. /\ LoadedPanes \subseteq In(file.state.sessions) \cup aged \cup missed
        /\ In(file.state.sessions) \cap LoadedPanes \subseteq LoadedSessions \cup aged'
        /\ aged \subseteq aged' /\ missed' = missed /\ file' = file /\ In(sessions') = LoadedSessions
    BY <1>1, <1>15, LoadFacts
  <2>3. QED
    BY <1>1, <2>1, <2>2
<1>16. CASE Adopt
  <2>1. Saving' = Saving
    BY <1>16, AdoptFacts DEF Saving
  <2>2. QED
    BY <1>2, <1>16, <2>1, AdoptFacts
<1>17. CASE DaysPass
  <2>1. /\ Shown' = Shown /\ \A w \in Savers : In(held'[w].sessions) = In(held[w].sessions)
        /\ \A w \in Saving : stage'[w] = stage[w]
    BY <1>17, DaysFacts DEF Shown
  <2>2. \A w \in Savers : ToWrite(w)' = ToWrite(w)
    BY <1>17, DaysFacts, ToWriteFacts
  <2>3. Saving \subseteq Savers
    BY DEF Saving
  <2>4. QED
    BY <1>1, <1>17, <2>1, <2>2, <2>3, DaysFacts
<1>18. ASSUME NEW w \in Savers, Capture(w) PROVE PaneInv'
  <2>1. /\ UNCHANGED <<live, panes, sessions, file, aged, missed>> /\ Saving' = Saving \cup {w}
        /\ held'[w].sessions = sessions /\ stage'[w] = "captured"
        /\ \A v \in Savers \ {w} : stage'[v] = stage[v] /\ held'[v] = held[v]
        /\ w \notin Saving /\ Saving \subseteq Savers
    BY <1>18, SaveFacts DEF Capture, memory, Saving
  <2>2. UNCHANGED <<Shown, In(sessions)>>
    BY <2>1 DEF Shown, In
  <2>3. ToWrite(w)' \subseteq Shown /\ \A v \in Saving : ToWrite(v)' = ToWrite(v)
    <3>1. ToWrite(w)' = {i \in panes' : i[1] \in In(held'[w].tabs)} /\ In(held'[w].tabs) = live
      BY <1>18, <2>1, ToWriteFacts, SaveFacts
    <3>2. QED
      BY <2>1, <3>1 DEF Shown, ToWrite
  <2>4. QED
    BY <1>1, <2>1, <2>2, <2>3
<1>19. ASSUME NEW w \in Savers, Open(w) PROVE PaneInv'
  <2>1. /\ UNCHANGED <<live, panes, sessions, aged, missed>> /\ Saving' = Saving
        /\ held'[w].sessions = held[w].sessions /\ held'[w].panes = ToWrite(w) /\ stage'[w] = "opened"
        /\ \A v \in Savers \ {w} : stage'[v] = stage[v] /\ held'[v] = held[v]
        /\ w \in Saving /\ Saving \subseteq Savers
    BY <1>19, SaveFacts DEF Open, memory, history, Saving
  <2>2. UNCHANGED <<Shown, In(sessions)>>
    BY <2>1 DEF Shown, In
  <2>3. \A v \in Saving : ToWrite(v)' = ToWrite(v)
    BY <2>1 DEF ToWrite
  <2>4. file'.state.panes = {}
    BY <1>19, FileFacts, NothingFacts
  <2>5. \A v \in Saving : In(held'[v].sessions) = In(held[v].sessions)
    BY <2>1
  <2>6. \A v \in Saving : stage'[v] = "captured" => stage[v] = "captured"
    BY <2>1
  <2>7. QED
    BY <1>1, <2>1, <2>2, <2>3, <2>4, <2>5, <2>6
<1>20. ASSUME NEW w \in Savers, Write(w) PROVE PaneInv'
  <2>1. /\ UNCHANGED <<live, panes, sessions, aged>> /\ Saving' = Saving \ {w}
        /\ \A v \in Savers \ {w} : stage'[v] = stage[v] /\ held'[v] = held[v]
        /\ w \in Saving /\ Saving \subseteq Savers /\ stage[w] = "opened"
        /\ missed' = IF w \in solo THEN missed \ In(held[w].sessions) ELSE missed
    BY <1>20, SaveFacts DEF Write, memory, Saving
  <2>2. UNCHANGED <<Shown, In(sessions)>>
    BY <2>1 DEF Shown, In
  <2>3. \A v \in Saving' : ToWrite(v)' = ToWrite(v)
    BY <2>1 DEF ToWrite
  <2>4. ToWrite(w) = held[w].panes
    BY <2>1 DEF ToWrite
  <2>5. CASE w \in solo
    <3>1. Saving' = {} /\ file'.state = held[w] /\ missed' = missed \ In(held[w].sessions)
      BY <1>1, <1>20, <2>1, <2>5, FileFacts DEF SaveInv
    <3>2. held[w].panes \subseteq In(held[w].sessions) \cup aged \cup missed'
      BY <1>1, <2>1, <2>4, <3>1
    <3>3. Shown \subseteq In(sessions) \cup aged \cup missed'
      BY <1>1, <2>1, <3>1
    <3>4. QED
      BY <2>1, <2>2, <3>1, <3>2, <3>3
  <2>6. CASE w \notin solo
    <3>1. missed' = missed /\ (file'.state = held[w] \/ file'.state = Nothing)
      BY <1>20, <2>1, <2>6, FileFacts
    <3>2. file'.state.panes \subseteq In(file'.state.sessions) \cup Excused
      BY <1>1, <2>1, <2>4, <3>1, NothingFacts
    <3>3. QED
      BY <1>1, <2>1, <2>2, <2>3, <3>1, <3>2
  <2>7. QED
    BY <2>5, <2>6
<1>21. ASSUME NEW w \in Savers, WriteFails(w) PROVE PaneInv'
  <2>1. /\ UNCHANGED <<live, panes, sessions, aged, missed>> /\ Saving' = Saving \ {w}
        /\ \A v \in Savers \ {w} : stage'[v] = stage[v] /\ held'[v] = held[v]
        /\ Saving \subseteq Savers
    BY <1>21, SaveFacts DEF WriteFails, memory, Saving
  <2>2. UNCHANGED <<Shown, In(sessions)>>
    BY <2>1 DEF Shown, In
  <2>3. \A v \in Saving' : ToWrite(v)' = ToWrite(v)
    BY <2>1 DEF ToWrite
  <2>4. file' = file \/ file'.state.panes = {}
    BY <1>21, FileFacts, NothingFacts
  <2>5. QED
    BY <1>1, <2>1, <2>2, <2>3, <2>4
<1>22. QED
  BY <1>3, <1>4, <1>5, <1>6, <1>7, <1>8, <1>9, <1>10, <1>11, <1>12, <1>13, <1>14, <1>15,
     <1>16, <1>17, <1>18, <1>19, <1>20, <1>21
  DEF Next, HandlerStep, MainStep, SaveStep

\* A save that met no other has the file to itself, and leaves it readable.
LEMMA FileStep ==
  ASSUME IInv, [Next]_vars
  PROVE  SaveInv'
<1> USE DEF SaveInv, ReadableUnlessCut, Readable
<1>1. TypeOK /\ TypeOK' /\ StageInv /\ SaveInv
  BY TypeStep DEF IInv
<1>2. cut \in BOOLEAN /\ cut' \in BOOLEAN
  BY <1>1 DEF TypeOK
<1>3. ASSUME UNCHANGED <<solo, file, cut, Saving>>,
             \A w \in Savers : stage'[w] = "opened" <=> stage[w] = "opened"
      PROVE  SaveInv'
  <2>1. solo \subseteq Savers
    BY <1>1 DEF TypeOK
  <2>2. QED
    BY <1>1, <1>2, <1>3, <2>1
<1>4. CASE UNCHANGED vars
  BY <1>3, <1>4 DEF vars, saver, history, Saving
<1>5. ASSUME NEW i \in Ids, StartTab(i) \/ BeginSession(i) \/ Revive(i) \/ Output(i) \/
             DeleteSession(i) \/ ShellExit(i) \/ SessionEnds(i)
      PROVE  SaveInv'
  <2>1. UNCHANGED <<stage, solo, file, cut>>
    BY <1>5 DEF StartTab, BeginSession, Revive, Output, DeleteSession, ShellExit, SessionEnds, saver, history
  <2>2. Saving' = Saving
    BY <2>1 DEF Saving
  <2>3. QED
    BY <1>3, <2>1, <2>2
<1>6. ASSUME NEW t \in Tabs, DeleteTab(t) PROVE SaveInv'
  <2>1. UNCHANGED <<stage, solo, file, cut>>
    BY <1>6 DEF DeleteTab, saver, history
  <2>2. Saving' = Saving
    BY <2>1 DEF Saving
  <2>3. QED
    BY <1>3, <2>1, <2>2
<1>7. CASE EditStep
  <2>1. PICK t \in Tabs, new \in SUBSET Ids, olds \in SUBSET panes : Edit(t, new, olds)
    BY <1>7, EditFacts
  <2>2. UNCHANGED <<stage, solo, file, cut>>
    BY <2>1 DEF Edit, saver, history
  <2>3. Saving' = Saving
    BY <2>2 DEF Saving
  <2>4. QED
    BY <1>3, <2>2, <2>3
<1>8. CASE SpawnFails \/ CreateTab \/ SetLayout \/ KillShell \/ Undone \/ Answered \/
           ListFiles
  <2>1. UNCHANGED <<stage, solo, file, cut>>
    BY <1>8 DEF SpawnFails, CreateTab, SetLayout, KillShell, Undone, Answered, ListFiles, saver, history
  <2>2. Saving' = Saving
    BY <2>1 DEF Saving
  <2>3. QED
    BY <1>3, <2>1, <2>2
<1>9. ASSUME NEW t \in Tabs, UpdateTab(t) PROVE SaveInv'
  <2>1. UNCHANGED <<solo, file, cut>>
    BY <1>9 DEF UpdateTab, Due, history
  <2>2. /\ Saving' = Saving
        /\ \A w \in Savers : stage'[w] = "opened" <=> stage[w] = "opened"
    BY <1>1, <1>9 DEF UpdateTab, HandlerFree, Due, Saving, Savers, TypeOK
  <2>3. QED
    BY <1>3, <2>1, <2>2
<1>10. CASE Dropped \/ Tick \/ Stop \/ Pause \/ HandoffFiles
  <2>1. UNCHANGED <<solo, file, cut>>
    BY <1>10 DEF Dropped, Tick, Stop, Pause, HandoffFiles, Due, history
  <2>2. /\ Saving' = Saving
        /\ \A w \in Savers : stage'[w] = "opened" <=> stage[w] = "opened"
    BY <1>1, <1>10 DEF Dropped, Tick, Stop, Pause, HandoffFiles, StageInv, Due, Saving, Savers, TypeOK
  <2>3. QED
    BY <1>3, <2>1, <2>2
<1>11. CASE Exec \/ Exit \/ Crash
  <2>1. (\A w \in Savers : stage[w] # "opened") \/ cut'
    BY <1>11, EndFacts
  <2>2. cut => cut'
    BY <1>11, EndFacts, Zenon
  <2>3. QED
    BY <1>1, <1>2, <1>11, <2>1, <2>2, EndFacts
<1>12. CASE LoadState
  BY <1>3, <1>12, LoadFacts DEF Saving
<1>13. CASE Adopt
  BY <1>3, <1>13, AdoptFacts DEF Saving
<1>14. CASE DaysPass
  BY <1>1, <1>2, <1>14, DaysFacts
<1>15. ASSUME NEW w \in Savers, Capture(w) PROVE SaveInv'
  <2>1. /\ UNCHANGED <<file, cut>> /\ Saving' = Saving \cup {w} /\ solo' = {v \in {w} : Saving = {}}
        /\ stage'[w] = "captured" /\ \A v \in Savers \ {w} : stage'[v] = stage[v]
        /\ stage[w] # "opened"
    BY <1>15, SaveFacts DEF Capture
  <2>2. QED
    BY <1>1, <1>2, <2>1
<1>16. ASSUME NEW w \in Savers, Open(w) PROVE SaveInv'
  <2>1. /\ UNCHANGED <<cut, solo>> /\ Saving' = Saving
        /\ stage'[w] = "opened" /\ \A v \in Savers \ {w} : stage'[v] = stage[v]
        /\ file'.kind = "empty" /\ file'.state = Nothing
    BY <1>16, SaveFacts, FileFacts DEF Open, history
  <2>2. QED
    BY <1>1, <1>2, <2>1
<1>17. ASSUME NEW w \in Savers, Write(w) \/ WriteFails(w) PROVE SaveInv'
  <2>1. /\ Saving' = Saving \ {w} /\ w \in Saving /\ solo' = solo \ {w}
        /\ stage'[w] = "idle" /\ \A v \in Savers \ {w} : stage'[v] = stage[v]
    BY <1>17, SaveFacts
  <2>2. (file' = file \/ file'.kind = "ok" \/ file'.state = Nothing) /\ (cut' \/ (w \in solo /\ file'.kind = "ok"))
    <3>1. CASE WriteFails(w)
      BY <3>1, FileFacts DEF WriteFails
    <3>2. CASE Write(w)
      BY <1>1, <3>2, FileFacts DEF Write
    <3>3. QED
      BY <1>17, <3>1, <3>2
  <2>3. solo' = {} \/ (w \notin solo)
    BY <1>1, <2>1
  <2>4. solo' = {}
    BY <1>1, <2>1, <2>3
  <2>5. QED
    BY <1>1, <1>2, <2>1, <2>2, <2>4
<1>18. QED
  BY <1>4, <1>5, <1>6, <1>7, <1>8, <1>9, <1>10, <1>11, <1>12, <1>13, <1>14, <1>15, <1>16,
     <1>17
  DEF Next, HandlerStep, MainStep, SaveStep

\* A deleted tab is in no save, nor on the file, but through an overlap or a failure.
LEMMA GoneStep ==
  ASSUME IInv, [Next]_vars
  PROVE  GoneInv'
<1> USE DEF GoneInv
<1>1. TypeOK /\ TypeOK' /\ StageInv /\ SaveInv /\ GoneInv
  BY TypeStep DEF IInv
<1>2. cut \in BOOLEAN /\ cut' \in BOOLEAN
  BY <1>1 DEF TypeOK
<1>3. ASSUME gone' \subseteq gone, live' \cap gone \subseteq live, \A t \in Tabs : SavesOmit(t) => SavesOmit(t)',
             UNCHANGED <<file, cut>>,
             request'.op = "answer" => /\ request.op = "answer" /\ request'.tab = request.tab /\ live' = live
                                       /\ stage'["handler"] = stage["handler"]
      PROVE  GoneInv'
  <2>1. \A t \in Tabs : DiskOmits(t)' = DiskOmits(t)
    BY <1>3 DEF DiskOmits, In
  <2>2. request.op # "none" => request.tab \in Tabs
    BY <1>1, MapFacts DEF StageInv
  <2>3. gone \subseteq Tabs
    BY <1>1 DEF TypeOK
  <2>4. QED
    BY <1>1, <1>3, <2>1, <2>2, <2>3
<1>4. UNCHANGED <<held, solo>> => \A t \in Tabs : SavesOmit(t) => SavesOmit(t)'
  BY DEF SavesOmit, In
<1>5. CASE UNCHANGED vars
  BY <1>3, <1>4, <1>5 DEF vars, memory, saver, history
<1>6. ASSUME NEW i \in Ids, StartTab(i) PROVE GoneInv'
  <2>1. UNCHANGED <<live, held, solo, file, cut, gone>> /\ request'.op = "create"
    BY <1>6 DEF StartTab, memory, saver, history, Asked
  <2>2. QED
    BY <1>3, <1>4, <2>1
<1>7. CASE EditStep
  <2>1. PICK t \in Tabs, new \in SUBSET Ids, olds \in SUBSET panes : Edit(t, new, olds)
    BY <1>7, EditFacts
  <2>2. UNCHANGED <<live, held, solo, file, cut, gone>> /\ request'.op = "edit"
    BY <2>1 DEF Edit, memory, saver, history, Asked
  <2>3. QED
    BY <1>3, <1>4, <2>2
<1>8. ASSUME NEW i \in Ids, BeginSession(i) \/ Revive(i) \/ Output(i) \/ ShellExit(i) \/
             SessionEnds(i)
      PROVE  GoneInv'
  <2>1. UNCHANGED <<live, stage, held, solo, file, cut, request, gone>>
    BY <1>8 DEF BeginSession, Revive, Output, ShellExit, SessionEnds, memory, saver, history
  <2>2. QED
    BY <1>3, <1>4, <2>1
<1>9. ASSUME NEW i \in Ids, DeleteSession(i) PROVE GoneInv'
  <2>1. UNCHANGED <<live, stage, held, solo, file, cut, gone>> /\ request'.op # "answer"
    BY <1>1, <1>9 DEF DeleteSession, saver, history, TypeOK
  <2>2. QED
    BY <1>3, <1>4, <2>1
<1>10. ASSUME NEW t \in Tabs, UpdateTab(t) PROVE GoneInv'
  <2>1. UNCHANGED <<live, held, solo, file, cut, gone>> /\ request'.op # "answer"
    BY <1>10 DEF UpdateTab, HandlerFree, NoRequest, Due, history
  <2>2. QED
    BY <1>3, <1>4, <2>1
<1>11. ASSUME NEW t \in Tabs, DeleteTab(t) PROVE GoneInv'
  <2>1. live' \subseteq live /\ UNCHANGED <<held, solo, file, cut, gone>> /\ request'.op # "answer"
    BY <1>11 DEF DeleteTab, Asked, saver
  <2>2. QED
    BY <1>3, <1>4, <2>1
<1>12. CASE SpawnFails \/ CreateTab \/ SetLayout \/ Undone
  <2>1. /\ live' \subseteq live \cup {x \in {request.tab} : x \notin gone}
        /\ UNCHANGED <<held, solo, file, cut, gone>> /\ request'.op # "answer"
    BY <1>1, <1>12 DEF SpawnFails, CreateTab, SetLayout, Undone, Asked, NoRequest, StageInv, memory, saver, history
  <2>2. QED
    BY <1>3, <1>4, <2>1
<1>13. CASE KillShell
  <2>1. /\ UNCHANGED <<live, stage, held, solo, file, cut, gone>>
        /\ request'.op = request.op /\ request'.tab = request.tab
    BY <1>1, <1>13 DEF KillShell, memory, saver, history, TypeOK
  <2>2. QED
    BY <1>3, <1>4, <2>1
<1>14. CASE Dropped
  <2>1. UNCHANGED <<live, held, solo, file, cut, gone>> /\ stage'["handler"] = "due"
    BY <1>1, <1>14, SaveFacts DEF Dropped, Due, memory, history, Savers
  <2>2. \A t \in Tabs : DiskOmits(t)' = DiskOmits(t)
    BY <2>1 DEF DiskOmits, In
  <2>3. gone \subseteq Tabs
    BY <1>1 DEF TypeOK
  <2>4. QED
    BY <1>1, <1>4, <2>1, <2>2, <2>3
<1>15. CASE Answered
  <2>1. /\ UNCHANGED <<live, held, solo, file, cut>> /\ request'.op = "none"
        /\ request.op = "answer" /\ stage["handler"] = "idle" /\ gone' = gone \cup ({request.tab} \ live)
    BY <1>15 DEF Answered, NoRequest, memory, saver
  <2>2. \A t \in Tabs : DiskOmits(t)' = DiskOmits(t)
    BY <2>1 DEF DiskOmits, In
  <2>3. request.tab \in Tabs /\ gone \subseteq Tabs
    BY <1>1, <2>1, MapFacts DEF StageInv, TypeOK
  <2>4. QED
    BY <1>1, <1>4, <2>1, <2>2, <2>3
<1>16. CASE Tick \/ Stop \/ Pause \/ HandoffFiles
  <2>1. UNCHANGED <<live, held, solo, file, cut, request, gone>> /\ stage'["handler"] = stage["handler"]
    BY <1>1, <1>16 DEF Tick, Stop, Pause, HandoffFiles, Due, memory, history, TypeOK, Savers
  <2>2. QED
    BY <1>3, <1>4, <2>1
<1>17. CASE ListFiles
  <2>1. UNCHANGED <<live, stage, held, solo, file, cut, request, gone>>
    BY <1>17 DEF ListFiles, memory, saver, history
  <2>2. QED
    BY <1>3, <1>4, <2>1
<1>18. CASE Exec \/ Exit \/ Crash
  <2>1. request'.op # "answer" /\ live' = {} /\ UNCHANGED <<gone, file>>
    BY <1>18, EndFacts DEF NoRequest
  <2>2. cut => cut'
    BY <1>18, EndFacts, Zenon
  <2>3. \A t : SavesOmit(t)'
    BY <1>18, EndFacts DEF SavesOmit
  <2>4. \A t : DiskOmits(t) => DiskOmits(t)'
    BY <1>2, <2>1, <2>2 DEF DiskOmits, In
  <2>5. QED
    BY <1>1, <2>1, <2>3, <2>4
<1>19. CASE LoadState
  <2>1. /\ live' = LoadedTabs /\ gone' = gone \ LoadedTabs /\ UNCHANGED <<file, cut>>
        /\ request'.op # "answer"
    BY <1>19, LoadFacts DEF NoRequest
  <2>2. \A t : SavesOmit(t)'
    BY <1>19, LoadFacts DEF SavesOmit
  <2>3. \A t : DiskOmits(t)' = DiskOmits(t)
    BY <2>1 DEF DiskOmits, In
  <2>4. QED
    BY <1>1, <2>1, <2>2, <2>3
<1>20. CASE Adopt
  <2>1. UNCHANGED <<live, stage, held, solo, file, cut, request, gone>>
    BY <1>20, AdoptFacts
  <2>2. QED
    BY <1>3, <1>4, <2>1
<1>21. CASE DaysPass
  <2>1. UNCHANGED <<live, stage, solo, cut, request, gone>>
    BY <1>21, DaysFacts
  <2>2. solo \subseteq Savers
    BY <1>1 DEF TypeOK
  <2>3. \A t : SavesOmit(t)' = SavesOmit(t)
    BY <1>21, <2>1, <2>2, DaysFacts DEF SavesOmit
  <2>4. \A t : DiskOmits(t)' = DiskOmits(t)
    BY <1>21, <2>1, DaysFacts DEF DiskOmits
  <2>5. QED
    BY <1>1, <2>1, <2>3, <2>4
<1>22. ASSUME NEW w \in Savers, Capture(w) PROVE GoneInv'
  <2>1. /\ UNCHANGED <<live, request, file, cut, gone>> /\ solo' \subseteq {w} /\ In(held'[w].tabs) = live
        /\ stage'[w] = "captured" /\ \A v \in Savers \ {w} : stage'[v] = stage[v]
    BY <1>22, SaveFacts DEF Capture, memory
  <2>2. \A t : t \notin live => SavesOmit(t)'
    BY <2>1 DEF SavesOmit
  <2>3. \A t : DiskOmits(t)' = DiskOmits(t)
    BY <2>1 DEF DiskOmits, In
  <2>4. stage'["handler"] = "idle" => stage["handler"] = "idle"
    BY <2>1 DEF Savers
  <2>5. QED
    BY <1>1, <2>1, <2>2, <2>3, <2>4
<1>23. ASSUME NEW w \in Savers, Open(w) PROVE GoneInv'
  <2>1. /\ UNCHANGED <<live, request, solo, cut, gone>> /\ In(held'[w].tabs) = In(held[w].tabs)
        /\ stage[w] = "captured" /\ stage'[w] = "opened"
        /\ \A v \in Savers \ {w} : stage'[v] = stage[v] /\ held'[v] = held[v]
    BY <1>23, SaveFacts DEF Open, memory, history
  <2>2. \A t : SavesOmit(t)' = SavesOmit(t)
    <3>1. solo \subseteq Savers /\ \A v \in Savers : In(held'[v].tabs) = In(held[v].tabs)
      BY <1>1, <2>1 DEF TypeOK
    <3>2. QED
      BY <2>1, <3>1 DEF SavesOmit
  <2>3. \A t : DiskOmits(t)'
    BY <1>23, FileFacts, NothingFacts DEF DiskOmits
  <2>4. stage["handler"] = "due" => stage'["handler"] = "due"
    BY <2>1 DEF Savers
  <2>5. QED
    BY <1>1, <2>1, <2>2, <2>3, <2>4
<1>24. ASSUME NEW w \in Savers, Write(w) \/ WriteFails(w) PROVE GoneInv'
  <2>1. /\ UNCHANGED <<live, request, gone>> /\ solo' = solo \ {w} /\ w \in Saving /\ Saving' = Saving \ {w}
        /\ stage[w] # "due" /\ \A v \in Savers \ {w} : stage'[v] = stage[v]
    BY <1>24, SaveFacts DEF Write, WriteFails, memory, Saving
  <2>2. \A t : SavesOmit(t)'
    <3>1. solo' = {}
      BY <1>1, <2>1 DEF SaveInv
    <3>2. QED
      BY <3>1 DEF SavesOmit
  <2>3. \A t : SavesOmit(t) => DiskOmits(t)'
    <3>1. CASE WriteFails(w)
      BY <1>2, <3>1 DEF WriteFails, DiskOmits
    <3>2. CASE Write(w) /\ w \notin solo
      BY <1>2, <3>2 DEF Write, DiskOmits
    <3>3. CASE Write(w) /\ w \in solo
      <4>1. file'.state = held[w]
        BY <1>1, <3>3, FileFacts DEF SaveInv
      <4>2. QED
        BY <3>3, <4>1 DEF SavesOmit, DiskOmits
    <3>4. QED
      BY <1>24, <3>1, <3>2, <3>3
  <2>4. stage["handler"] = "due" => stage'["handler"] = "due"
    BY <2>1 DEF Savers
  <2>5. QED
    BY <1>1, <2>1, <2>2, <2>3, <2>4
<1>25. QED
  BY <1>5, <1>6, <1>7, <1>8, <1>9, <1>10, <1>11, <1>12, <1>13, <1>14, <1>15, <1>16, <1>17,
     <1>18, <1>19, <1>20, <1>21, <1>22, <1>23, <1>24
  DEF Next, HandlerStep, MainStep, SaveStep

\* A shell that runs for a session is known to.
LEMMA AliveStep ==
  ASSUME IInv, [Next]_vars
  PROVE  AliveInv'
<1> USE DEF AliveInv, Serving
<1>1. TypeOK /\ AliveInv
  BY DEF IInv
<1>2. ASSUME UNCHANGED <<phase, alive, sessions>>, running' \subseteq running
      PROVE  AliveInv'
  BY <1>1, <1>2 DEF In
<1>3. CASE UNCHANGED vars
  BY <1>2, <1>3 DEF vars, memory
<1>4. ASSUME NEW i \in Ids, StartTab(i) \/ ShellExit(i) PROVE AliveInv'
  BY <1>2, <1>4 DEF StartTab, ShellExit, memory
<1>5. CASE EditStep
  <2>1. PICK t \in Tabs, new \in SUBSET Ids, olds \in SUBSET panes : Edit(t, new, olds)
    BY <1>5, EditFacts
  <2>2. QED
    BY <1>2, <2>1 DEF Edit, memory
<1>6. ASSUME NEW i \in Ids, BeginSession(i) \/ Revive(i) PROVE AliveInv'
  <2>1. /\ In(sessions') = In(sessions) \cup {i} /\ alive' = alive \cup {i} /\ running' = running \cup {i}
        /\ phase' = phase
    BY <1>6, MapFacts DEF BeginSession, Revive
  <2>2. QED
    BY <1>1, <2>1
<1>7. ASSUME NEW i \in Ids, Output(i) PROVE AliveInv'
  <2>1. In(sessions') = In(sessions)
    BY <1>7, MapFacts
  <2>2. UNCHANGED <<phase, alive, running>>
    BY <1>7 DEF Output
  <2>3. QED
    BY <1>1, <2>1, <2>2
<1>8. ASSUME NEW i \in Ids, DeleteSession(i) PROVE AliveInv'
  <2>1. In(sessions') = In(sessions) \ {i} /\ alive' = alive \ {i} /\ UNCHANGED <<phase, running>>
    BY <1>8, MapFacts DEF DeleteSession
  <2>2. QED
    BY <1>1, <2>1
<1>9. ASSUME NEW i \in Ids, SessionEnds(i) PROVE AliveInv'
  <2>1. alive' = alive \ {i} /\ i \notin running /\ UNCHANGED <<phase, running, sessions>>
    BY <1>9 DEF SessionEnds
  <2>2. QED
    BY <1>1, <2>1 DEF In
<1>10. ASSUME NEW t \in Tabs, UpdateTab(t) \/ DeleteTab(t) PROVE AliveInv'
  BY <1>2, <1>10 DEF UpdateTab, DeleteTab
<1>11. CASE SpawnFails \/ CreateTab \/ SetLayout \/ KillShell \/ Dropped \/ Undone \/
            Answered \/ Tick
  BY <1>2, <1>11 DEF SpawnFails, CreateTab, SetLayout, KillShell, Dropped, Undone, Answered, Tick, memory
<1>12. CASE Stop
  <2>1. UNCHANGED sessions /\ running' = running \ alive /\ phase = "up"
    BY <1>12 DEF Stop
  <2>2. QED
    BY <1>1, <2>1 DEF In
<1>13. CASE Pause \/ HandoffFiles \/ ListFiles
  <2>1. Serving /\ UNCHANGED <<alive, running, sessions>>
    BY <1>13 DEF Pause, HandoffFiles, ListFiles, memory
  <2>2. QED
    BY <1>1, <2>1 DEF In
<1>14. CASE Exec \/ Exit \/ Crash
  BY <1>14, EndFacts
<1>15. CASE LoadState
  BY <1>15, LoadFacts
<1>16. CASE Adopt
  BY <1>16, AdoptFacts
<1>17. CASE DaysPass
  BY <1>1, <1>17, DaysFacts
<1>18. ASSUME NEW w \in Savers, Capture(w) \/ Open(w) \/ Write(w) \/ WriteFails(w)
       PROVE  AliveInv'
  BY <1>2, <1>18 DEF Capture, Open, Write, WriteFails, memory
<1>19. QED
  BY <1>3, <1>4, <1>5, <1>6, <1>7, <1>8, <1>9, <1>10, <1>11, <1>12, <1>13, <1>14, <1>15,
     <1>16, <1>17, <1>18
  DEF Next, HandlerStep, MainStep, SaveStep

\* Adding to late is all that Late does.
LEMMA LateFacts ==
  ASSUME NEW X, Late(X)
  PROVE  late \subseteq late' /\ (PastHandoffSave => X \subseteq late')
BY DEF Late

\* From HandoffFiles' save on, a session is shown and saved, or late.
LEMMA LateStep ==
  ASSUME IInv, [Next]_vars
  PROVE  LateInv'
<1>1. TypeOK /\ TypeOK' /\ StageInv /\ UsedInv /\ SaveInv /\ LateInv
  BY TypeStep DEF IInv
<1>2. solo \subseteq Savers /\ solo' \subseteq Savers
  BY <1>1 DEF TypeOK
<1>3. ASSUME NEW w \in Savers, NEW i \in Kept(held[w], ToWrite(w)), i \in ToWrite(w)',
             In(held'[w].sessions) = In(held[w].sessions), In(held'[w].tabs) = In(held[w].tabs)
      PROVE  i \in Kept(held[w], ToWrite(w))'
  <2>1. i \in Ids
    BY <1>3, ToWriteFacts
  <2>2. i \in In(held[w].sessions) /\ held[w].tabs[i[1]] # None
    BY <1>3 DEF Kept
  <2>3. i \in In(held'[w].sessions) /\ held'[w].tabs[i[1]] # None
    <3>1. i[1] \in In(held[w].tabs)
      <4>1. held[w].tabs \in [Tabs -> Stamps]
        BY <1>1, StateFacts DEF TypeOK
      <4>2. QED
        BY <2>1, <2>2, <4>1, IdTab DEF In
    <3>2. i[1] \in In(held'[w].tabs) /\ i \in In(held'[w].sessions)
      BY <1>3, <2>2, <3>1
    <3>3. QED
      BY <2>1, <3>2, ToWriteFacts
  <2>4. QED
    BY <1>3, <2>3 DEF Kept
<1>4. ASSUME PastHandoffSave' => PastHandoffSave /\ late \subseteq late' /\ Shown \subseteq Shown' \cup late',
             In(sessions') \subseteq In(sessions) \cup {i \in late' : PastHandoffSave}, solo' \subseteq solo,
             \A w \in solo' : /\ In(held'[w].sessions) = In(held[w].sessions)
                              /\ In(held'[w].tabs) = In(held[w].tabs)
                              /\ PastHandoffSave => ToWrite(w) \subseteq ToWrite(w)' \cup late'
      PROVE  LateInv'
  <2> SUFFICES ASSUME PastHandoffSave' PROVE LateInv'
    BY DEF LateInv
  <2>1. PastHandoffSave /\ late \subseteq late' /\ Shown \subseteq Shown' \cup late'
    BY <1>4
  <2>2. In(sessions') \subseteq Shown' \cup late'
    BY <1>1, <1>4, <2>1 DEF LateInv
  <2>3. ASSUME NEW w \in solo', NEW i \in In(sessions'), i \notin late'
        PROVE  i \in Kept(held[w], ToWrite(w))'
    <3>1. w \in solo /\ i \in In(sessions) /\ i \notin late
      BY <1>4, <2>1, <2>3
    <3>2. i \in Kept(held[w], ToWrite(w))
      BY <1>1, <2>1, <3>1 DEF LateInv
    <3>3. i \in ToWrite(w)'
      BY <1>4, <2>1, <2>3, <3>2 DEF Kept
    <3>4. QED
      BY <1>2, <1>3, <1>4, <2>3, <3>2, <3>3
  <2>4. QED
    BY <2>2, <2>3 DEF LateInv
<1>5. ASSUME UNCHANGED <<phase, live, panes, stage, held, solo>>, late \subseteq late',
             In(sessions') \subseteq In(sessions) \cup {i \in late' : PastHandoffSave}
      PROVE  LateInv'
  <2>1. UNCHANGED <<PastHandoffSave, Shown>> /\ \A w \in Savers : ToWrite(w)' = ToWrite(w)
    BY <1>5 DEF PastHandoffSave, Shown, ToWrite
  <2>2. QED
    BY <1>2, <1>4, <1>5, <2>1
<1>6. CASE UNCHANGED vars
  <2>1. In(sessions') = In(sessions)
    BY <1>6 DEF vars, memory
  <2>2. QED
    BY <1>5, <1>6, <2>1 DEF vars, memory, saver, history
<1>7. ASSUME NEW i \in Ids, StartTab(i) \/ ShellExit(i) \/ SessionEnds(i) PROVE LateInv'
  <2>1. In(sessions') = In(sessions) /\ UNCHANGED <<phase, live, panes, stage, held, solo, late>>
    BY <1>7 DEF StartTab, ShellExit, SessionEnds, memory, saver, history
  <2>2. QED
    BY <1>5, <2>1
<1>8. CASE EditStep
  <2>1. PICK t \in Tabs, new \in SUBSET Ids, olds \in SUBSET panes : Edit(t, new, olds)
    BY <1>8, EditFacts
  <2>2. In(sessions') = In(sessions) /\ UNCHANGED <<phase, live, panes, stage, held, solo, late>>
    BY <2>1 DEF Edit, memory, saver, history
  <2>3. QED
    BY <1>5, <2>2
<1>9. ASSUME NEW i \in Ids, BeginSession(i) PROVE LateInv'
  <2>1. In(sessions') = In(sessions) \cup {i} /\ Late({i})
    BY <1>9, MapFacts DEF BeginSession
  <2>2. UNCHANGED <<phase, live, panes, stage, held, solo>>
    BY <1>9 DEF BeginSession, saver
  <2>3. late \subseteq late' /\ (PastHandoffSave => i \in late')
    BY <2>1, LateFacts
  <2>4. CASE PastHandoffSave
    BY <1>5, <2>1, <2>2, <2>3, <2>4
  <2>5. CASE ~PastHandoffSave
    BY <2>2, <2>5 DEF PastHandoffSave, LateInv
  <2>6. QED
    BY <2>4, <2>5
<1>10. ASSUME NEW i \in Ids, Revive(i) \/ Output(i) \/ DeleteSession(i) PROVE LateInv'
  <2>1. In(sessions') \subseteq In(sessions)
    BY <1>10, MapFacts
  <2>2. UNCHANGED <<phase, live, panes, stage, held, solo>> /\ late \subseteq late'
    BY <1>10 DEF Revive, Output, DeleteSession, Late, saver, history
  <2>3. QED
    BY <1>5, <2>1, <2>2
<1>11. ASSUME NEW t \in Tabs, UpdateTab(t) PROVE LateInv'
  <2>1. In(sessions') = In(sessions) /\ UNCHANGED <<phase, live, panes, held, solo, late>>
    BY <1>11 DEF UpdateTab, Due, history
  <2>2. UNCHANGED <<PastHandoffSave, Shown>> /\ \A w \in Saving : ToWrite(w)' = ToWrite(w)
    BY <1>1, <1>11, <2>1 DEF UpdateTab, HandlerFree, Due, Saving, Savers, PastHandoffSave, Shown, ToWrite, TypeOK
  <2>3. QED
    BY <1>1, <1>4, <2>1, <2>2 DEF SaveInv
<1>12. ASSUME NEW t \in Tabs, DeleteTab(t) PROVE LateInv'
  <2>1. /\ In(sessions') = In(sessions) /\ live' = live \ {t} /\ Late(Panes(t))
        /\ UNCHANGED <<phase, panes, stage, held, solo>>
    BY <1>12 DEF DeleteTab, saver
  <2>2. late \subseteq late' /\ (PastHandoffSave => Panes(t) \subseteq late')
    BY <2>1, LateFacts
  <2>3. /\ PastHandoffSave' = PastHandoffSave /\ \A w \in Savers : ToWrite(w)' = ToWrite(w)
        /\ Shown \subseteq Shown' \cup Panes(t)
    BY <2>1 DEF PastHandoffSave, ToWrite, Shown, Panes
  <2>4. QED
    BY <1>2, <1>4, <2>1, <2>2, <2>3
<1>13. CASE CreateTab
  <2>1. /\ In(sessions') = In(sessions) /\ live \subseteq live' /\ panes \subseteq panes'
        /\ UNCHANGED <<phase, stage, held, solo, late>>
    BY <1>13 DEF CreateTab, saver, history
  <2>2. /\ PastHandoffSave' = PastHandoffSave /\ Shown \subseteq Shown'
        /\ \A w \in Savers : ToWrite(w) \subseteq ToWrite(w)'
    BY <2>1 DEF PastHandoffSave, ToWrite, Shown
  <2>3. QED
    BY <1>2, <1>4, <2>1, <2>2
<1>14. CASE SetLayout
  <2>1. /\ In(sessions') = In(sessions) /\ panes \subseteq panes' \cup request.olds /\ Late(request.olds)
        /\ UNCHANGED <<phase, live, stage, held, solo>>
    BY <1>14 DEF SetLayout, saver
  <2>2. late \subseteq late' /\ (PastHandoffSave => request.olds \subseteq late')
    BY <2>1, LateFacts
  <2>3. /\ PastHandoffSave' = PastHandoffSave /\ Shown \subseteq Shown' \cup request.olds
        /\ \A w \in Savers : ToWrite(w) \subseteq ToWrite(w)' \cup request.olds
    BY <2>1 DEF PastHandoffSave, ToWrite, Shown
  <2>4. QED
    BY <1>2, <1>4, <2>1, <2>2, <2>3
<1>15. CASE SpawnFails \/ KillShell \/ Undone \/ Answered
  <2>1. In(sessions') = In(sessions) /\ UNCHANGED <<phase, live, panes, stage, held, solo, late>>
    BY <1>15 DEF SpawnFails, KillShell, Undone, Answered, memory, saver, history
  <2>2. QED
    BY <1>5, <2>1
<1>16. CASE Dropped \/ Tick
  <2>1. In(sessions') = In(sessions) /\ UNCHANGED <<phase, live, panes, held, solo, late>>
    BY <1>16 DEF Dropped, Tick, memory, Due, history
  <2>2. UNCHANGED <<PastHandoffSave, Shown>> /\ \A w \in Saving : ToWrite(w)' = ToWrite(w)
    BY <1>1, <1>16, <2>1 DEF Dropped, Tick, StageInv, Due, Saving, Savers, PastHandoffSave, Shown, ToWrite, TypeOK
  <2>3. QED
    BY <1>1, <1>4, <2>1, <2>2 DEF SaveInv
<1>17. CASE Stop \/ Pause \/ HandoffFiles
  <2>1. ~PastHandoffSave'
    BY <1>1, <1>17 DEF Stop, Pause, HandoffFiles, Due, PastHandoffSave, TypeOK, Savers
  <2>2. QED
    BY <2>1 DEF LateInv
<1>18. CASE ListFiles
  <2>1. /\ PastHandoffSave /\ In(sessions') = In(sessions)
        /\ UNCHANGED <<live, panes, stage, held, solo, late>>
    BY <1>18 DEF ListFiles, memory, saver, history, PastHandoffSave
  <2>2. Shown' = Shown /\ \A w \in Savers : ToWrite(w)' = ToWrite(w)
    BY <2>1 DEF Shown, ToWrite
  <2>3. QED
    BY <1>2, <1>4, <2>1, <2>2
<1>19. CASE Exec \/ Exit \/ Crash
  BY <1>19, EndFacts DEF LateInv, PastHandoffSave
<1>20. CASE LoadState
  BY <1>20, LoadFacts DEF LateInv, PastHandoffSave
<1>21. CASE Adopt
  BY <1>21, AdoptFacts DEF LateInv, PastHandoffSave
<1>22. CASE DaysPass
  <2>1. UNCHANGED <<PastHandoffSave, Shown, late, solo>>
    BY <1>22, DaysFacts DEF PastHandoffSave, Shown
  <2>2. \A w \in Savers : ToWrite(w)' = ToWrite(w)
    BY <1>22, DaysFacts, ToWriteFacts
  <2>3. QED
    BY <1>2, <1>4, <1>22, <2>1, <2>2, DaysFacts
<1>23. ASSUME NEW w \in Savers, Capture(w) PROVE LateInv'
  <2>1. /\ UNCHANGED <<phase, live, panes, sessions>> /\ solo' \subseteq {w}
        /\ held'[w].sessions = sessions /\ In(held'[w].tabs) = live
        /\ stage'[w] = "captured" /\ \A v \in Savers \ {w} : stage'[v] = stage[v]
    BY <1>23, SaveFacts DEF Capture, memory
  <2>2. UNCHANGED <<Shown, In(sessions)>>
    BY <2>1 DEF Shown, In
  <2> SUFFICES ASSUME PastHandoffSave' PROVE LateInv'
    BY DEF LateInv
  <2>3. In(sessions) \subseteq Shown \cup late'
    <3>1. CASE w = "main" /\ phase = "handing"
      BY <1>23, <3>1 DEF Capture
    <3>2. CASE ~(w = "main" /\ phase = "handing")
      <4>1. PastHandoffSave /\ late' = late
        BY <1>23, <2>1, <3>2 DEF Capture, PastHandoffSave, Savers
      <4>2. QED
        BY <1>1, <4>1 DEF LateInv
    <3>3. QED
      BY <3>1, <3>2
  <2>4. ASSUME NEW i \in In(sessions) \cap Shown
        PROVE  i \in Kept(held[w], ToWrite(w))'
    <3>1. i \in panes' /\ i[1] \in In(held'[w].tabs) /\ i \in Ids
      BY <1>1, <2>1, <2>4 DEF Shown, TypeOK
    <3>2. i \in ToWrite(w)' /\ held'[w].tabs[i[1]] # None
      BY <2>1, <3>1, ToWriteFacts
    <3>3. i \in In(held'[w].sessions)
      BY <2>1, <2>4
    <3>4. QED
      BY <3>2, <3>3 DEF Kept
  <2>5. QED
    BY <2>1, <2>2, <2>3, <2>4 DEF LateInv
<1>24. ASSUME NEW w \in Savers, Open(w) PROVE LateInv'
  <2>1. /\ UNCHANGED <<phase, live, panes, sessions, solo, late>>
        /\ held'[w].sessions = held[w].sessions /\ In(held'[w].tabs) = In(held[w].tabs)
        /\ held'[w].panes = ToWrite(w) /\ stage[w] = "captured" /\ stage'[w] = "opened"
        /\ \A v \in Savers \ {w} : stage'[v] = stage[v] /\ held'[v] = held[v]
    BY <1>24, SaveFacts DEF Open, memory, history
  <2>2. UNCHANGED <<Shown, In(sessions)>> /\ (PastHandoffSave' => PastHandoffSave)
    BY <2>1 DEF Shown, In, PastHandoffSave, Savers
  <2>3. \A v \in Savers : /\ ToWrite(v)' = ToWrite(v) /\ In(held'[v].sessions) = In(held[v].sessions)
                          /\ In(held'[v].tabs) = In(held[v].tabs)
    BY <2>1 DEF ToWrite
  <2>4. QED
    BY <1>2, <1>4, <2>1, <2>2, <2>3
<1>25. ASSUME NEW w \in Savers, Write(w) \/ WriteFails(w) PROVE LateInv'
  <2>1. /\ UNCHANGED <<phase, live, panes, sessions, late>> /\ solo' = solo \ {w} /\ w \in Saving
        /\ stage[w] # "due" /\ \A v \in Savers \ {w} : stage'[v] = stage[v]
    BY <1>25, SaveFacts DEF Write, WriteFails, memory, Saving
  <2>2. solo' = {}
    BY <1>1, <2>1 DEF SaveInv
  <2>3. UNCHANGED <<Shown, In(sessions)>> /\ (PastHandoffSave' => PastHandoffSave)
    BY <2>1 DEF Shown, In, PastHandoffSave, Savers
  <2>4. QED
    BY <1>4, <2>1, <2>2, <2>3
<1>26. QED
  BY <1>6, <1>7, <1>8, <1>9, <1>10, <1>11, <1>12, <1>13, <1>14, <1>15, <1>16, <1>17, <1>18,
     <1>19, <1>20, <1>21, <1>22, <1>23, <1>24, <1>25
  DEF Next, HandlerStep, MainStep, SaveStep

\* After HandoffFiles' save, what is registered is on the disk, or late.
LEMMA HandoffStep ==
  ASSUME IInv, [Next]_vars
  PROVE  HandoffInv'
<1>1. TypeOK /\ TypeOK' /\ StageInv /\ SaveInv /\ LateInv /\ HandoffInv
  BY TypeStep DEF IInv
<1>2. cut \in BOOLEAN /\ cut' \in BOOLEAN
  BY <1>1 DEF TypeOK
<1>3. ASSUME HandoffSaved' => HandoffSaved /\ late \subseteq late', UNCHANGED <<file, cut>>,
             In(sessions') \subseteq In(sessions) \cup {i \in late' : PastHandoffSave}
      PROVE  HandoffInv'
  <2>1. OnDisk' = OnDisk /\ Readable' = Readable
    BY <1>3 DEF OnDisk, Kept, In, Readable
  <2>2. QED
    BY <1>1, <1>2, <1>3, <2>1 DEF HandoffInv
<1>4. ASSUME UNCHANGED <<phase, stage, file, cut>>, late \subseteq late',
             In(sessions') \subseteq In(sessions) \cup {i \in late' : PastHandoffSave}
      PROVE  HandoffInv'
  <2>1. HandoffSaved' = HandoffSaved
    BY <1>4 DEF HandoffSaved
  <2>2. QED
    BY <1>3, <1>4, <2>1
<1>5. CASE UNCHANGED vars
  <2>1. In(sessions') = In(sessions)
    BY <1>5 DEF vars, memory
  <2>2. QED
    BY <1>4, <1>5, <2>1 DEF vars, saver, history
<1>6. ASSUME NEW i \in Ids, StartTab(i) \/ ShellExit(i) \/ SessionEnds(i)
      PROVE  HandoffInv'
  <2>1. In(sessions') = In(sessions) /\ UNCHANGED <<phase, stage, file, cut, late>>
    BY <1>6 DEF StartTab, ShellExit, SessionEnds, memory, saver, history
  <2>2. QED
    BY <1>4, <2>1
<1>7. CASE EditStep
  <2>1. PICK t \in Tabs, new \in SUBSET Ids, olds \in SUBSET panes : Edit(t, new, olds)
    BY <1>7, EditFacts
  <2>2. In(sessions') = In(sessions) /\ UNCHANGED <<phase, stage, file, cut, late>>
    BY <2>1 DEF Edit, memory, saver, history
  <2>3. QED
    BY <1>4, <2>2
<1>8. ASSUME NEW i \in Ids, BeginSession(i) PROVE HandoffInv'
  <2>1. In(sessions') = In(sessions) \cup {i} /\ Late({i})
    BY <1>8, MapFacts DEF BeginSession
  <2>2. UNCHANGED <<phase, stage, file, cut>>
    BY <1>8 DEF BeginSession, saver
  <2>3. late \subseteq late' /\ (PastHandoffSave => i \in late')
    BY <2>1, LateFacts
  <2>4. CASE PastHandoffSave
    BY <1>4, <2>1, <2>2, <2>3, <2>4
  <2>5. CASE ~PastHandoffSave
    BY <2>2, <2>5 DEF PastHandoffSave, HandoffSaved, HandoffInv
  <2>6. QED
    BY <2>4, <2>5
<1>9. ASSUME NEW i \in Ids, Revive(i) \/ Output(i) \/ DeleteSession(i) PROVE HandoffInv'
  <2>1. In(sessions') \subseteq In(sessions)
    BY <1>9, MapFacts
  <2>2. UNCHANGED <<phase, stage, file, cut>> /\ late \subseteq late'
    BY <1>9 DEF Revive, Output, DeleteSession, Late, saver, history
  <2>3. QED
    BY <1>4, <2>1, <2>2
<1>10. ASSUME NEW t \in Tabs, UpdateTab(t) PROVE HandoffInv'
  <2>1. In(sessions') = In(sessions) /\ UNCHANGED <<phase, file, cut, late>> /\ stage'["main"] = stage["main"]
    BY <1>1, <1>10 DEF UpdateTab, Due, history, Savers, TypeOK
  <2>2. HandoffSaved' = HandoffSaved
    BY <2>1 DEF HandoffSaved
  <2>3. QED
    BY <1>3, <2>1, <2>2
<1>11. ASSUME NEW t \in Tabs, DeleteTab(t) PROVE HandoffInv'
  <2>1. In(sessions') = In(sessions) /\ UNCHANGED <<phase, stage, file, cut>> /\ late \subseteq late'
    BY <1>11 DEF DeleteTab, Late, saver
  <2>2. QED
    BY <1>4, <2>1
<1>12. CASE SpawnFails \/ CreateTab \/ SetLayout \/ KillShell \/ Undone \/ Answered
  <2>1. In(sessions') = In(sessions) /\ UNCHANGED <<phase, stage, file, cut>> /\ late \subseteq late'
    BY <1>12 DEF SpawnFails, CreateTab, SetLayout, KillShell, Undone, Answered, Late, memory, saver, history
  <2>2. QED
    BY <1>4, <2>1
<1>13. CASE Dropped \/ Tick
  <2>1. In(sessions') = In(sessions) /\ UNCHANGED <<phase, file, cut, late>> /\ stage'["main"] = stage["main"]
    BY <1>1, <1>13 DEF Dropped, Tick, Due, memory, history, Savers, TypeOK
  <2>2. HandoffSaved' = HandoffSaved
    BY <2>1 DEF HandoffSaved
  <2>3. QED
    BY <1>3, <2>1, <2>2
<1>14. CASE Stop \/ Pause \/ HandoffFiles
  <2>1. ~HandoffSaved'
    BY <1>1, <1>14 DEF Stop, Pause, HandoffFiles, Due, HandoffSaved, TypeOK, Savers
  <2>2. QED
    BY <2>1 DEF HandoffInv
<1>15. CASE ListFiles
  <2>1. HandoffSaved /\ In(sessions') = In(sessions) /\ UNCHANGED <<file, cut, late>>
    BY <1>15 DEF ListFiles, memory, history, HandoffSaved
  <2>2. QED
    BY <1>3, <2>1
<1>16. CASE Exec \/ Exit \/ Crash
  BY <1>16, EndFacts DEF HandoffInv, HandoffSaved
<1>17. CASE LoadState
  BY <1>17, LoadFacts DEF HandoffInv, HandoffSaved
<1>18. CASE Adopt
  BY <1>18, AdoptFacts DEF HandoffInv, HandoffSaved
<1>19. CASE DaysPass
  <2>1. UNCHANGED <<HandoffSaved, late, cut, In(sessions), OnDisk>> /\ file'.kind = file.kind
    BY <1>19, DaysFacts DEF HandoffSaved
  <2>2. QED
    BY <1>1, <1>2, <2>1 DEF HandoffInv, Readable
<1>20. ASSUME NEW w \in Savers, Capture(w) PROVE HandoffInv'
  <2>1. /\ UNCHANGED <<phase, sessions, file, cut>> /\ stage'[w] = "captured"
        /\ \A v \in Savers \ {w} : stage'[v] = stage[v]
    BY <1>20, SaveFacts DEF Capture, memory
  <2>2. HandoffSaved' => HandoffSaved /\ late' = late
    BY <1>20, <2>1 DEF Capture, HandoffSaved, Savers
  <2>3. QED
    BY <1>3, <2>1, <2>2
<1>21. ASSUME NEW w \in Savers, Open(w) PROVE HandoffInv'
  <2>1. /\ UNCHANGED phase /\ stage'[w] = "opened" /\ \A v \in Savers \ {w} : stage'[v] = stage[v]
        /\ file'.kind = "empty"
    BY <1>21, SaveFacts, FileFacts DEF Open
  <2>2. QED
    BY <2>1 DEF HandoffInv, Readable
<1>22. ASSUME NEW w \in Savers, Write(w) PROVE HandoffInv'
  <2> SUFFICES ASSUME HandoffSaved', ~cut'
               PROVE  file'.kind # "absent" /\ (Readable' => In(sessions') \subseteq OnDisk' \cup late')
    BY DEF HandoffInv
  <2>1. /\ UNCHANGED <<phase, sessions, late>> /\ w \in solo /\ stage[w] = "opened"
        /\ \A v \in Savers \ {w} : stage'[v] = stage[v]
    BY <1>22, SaveFacts DEF Write, memory
  <2>2. file'.kind = "ok" /\ file'.state = held[w]
    BY <1>1, <1>22, <2>1, FileFacts DEF SaveInv
  <2>3. PastHandoffSave
    BY <2>1 DEF HandoffSaved, PastHandoffSave, Savers
  <2>4. In(sessions) \subseteq Kept(held[w], held[w].panes) \cup late
    BY <1>1, <2>1, <2>3 DEF LateInv, ToWrite
  <2>5. OnDisk' = Kept(held[w], held[w].panes)
    BY <2>2 DEF OnDisk, Kept
  <2>6. QED
    BY <2>1, <2>2, <2>4, <2>5 DEF In
<1>23. ASSUME NEW w \in Savers, WriteFails(w) PROVE HandoffInv'
  BY <1>23 DEF WriteFails, HandoffInv
<1>24. QED
  BY <1>5, <1>6, <1>7, <1>8, <1>9, <1>10, <1>11, <1>12, <1>13, <1>14, <1>15, <1>16, <1>17,
     <1>18, <1>19, <1>20, <1>21, <1>22, <1>23
  DEF Next, HandlerStep, MainStep, SaveStep

\* The PTYs handed over are those of what is on the disk, or late.
LEMMA HandedStep ==
  ASSUME IInv, [Next]_vars
  PROVE  HandedInv'
<1> USE DEF HandedInv
<1>1. TypeOK /\ TypeOK' /\ StageInv /\ UsedInv /\ SaveInv /\ AliveInv /\ LateInv /\ HandoffInv /\ HandedInv
  BY TypeStep DEF IInv
<1>2. cut \in BOOLEAN /\ cut' \in BOOLEAN
  BY <1>1 DEF TypeOK
<1>3. ASSUME Serving, UNCHANGED <<phase, handed>>,
             phase = "listed" => /\ late \subseteq late' /\ In(sessions) \subseteq In(sessions') \cup late'
                                 /\ running' \cap In(sessions') \subseteq (running \cap In(sessions)) \cup late'
      PROVE  HandedInv'
  BY <1>1, <1>3, ServingFacts
<1>4. CASE UNCHANGED vars
  <2>1. OnDisk' = OnDisk /\ In(sessions') = In(sessions)
    BY <1>4 DEF vars, memory, OnDisk, Kept, In
  <2>2. QED
    BY <1>1, <1>2, <1>4, <2>1 DEF vars, history, Readable
<1>5. ASSUME NEW i \in Ids, StartTab(i) PROVE HandedInv'
  <2>1. Serving /\ In(sessions') = In(sessions) /\ UNCHANGED <<phase, handed, running, late>>
    BY <1>5, ServingFacts DEF StartTab, memory, history
  <2>2. QED
    BY <1>3, <2>1
<1>6. CASE EditStep
  <2>1. PICK t \in Tabs, new \in SUBSET Ids, olds \in SUBSET panes : Edit(t, new, olds)
    BY <1>6, EditFacts
  <2>2. Serving /\ In(sessions') = In(sessions) /\ UNCHANGED <<phase, handed, running, late>>
    BY <2>1, ServingFacts DEF Edit, memory, history
  <2>3. QED
    BY <1>3, <2>2
<1>7. ASSUME NEW i \in Ids, BeginSession(i) \/ Revive(i) PROVE HandedInv'
  <2>1. /\ Serving /\ In(sessions') = In(sessions) \cup {i} /\ running' = running \cup {i}
        /\ Late({i}) /\ UNCHANGED <<phase, handed>>
    BY <1>7, MapFacts, ServingFacts DEF BeginSession, Revive
  <2>2. phase = "listed" => late \subseteq late' /\ i \in late'
    BY <2>1, LateFacts DEF PastHandoffSave
  <2>3. QED
    BY <1>3, <2>1, <2>2
<1>8. ASSUME NEW i \in Ids, Output(i) \/ SessionEnds(i) PROVE HandedInv'
  <2>1. Serving /\ In(sessions') = In(sessions) /\ UNCHANGED <<phase, handed, running, late>>
    BY <1>8, MapFacts DEF Output, SessionEnds, history
  <2>2. QED
    BY <1>3, <2>1
<1>9. ASSUME NEW i \in Ids, ShellExit(i) PROVE HandedInv'
  <2>1. /\ running' \subseteq running /\ UNCHANGED <<phase, handed, sessions, file, cut, late, aged>>
    BY <1>9 DEF ShellExit, memory, history
  <2>2. OnDisk' = OnDisk /\ In(sessions') = In(sessions)
    BY <2>1 DEF OnDisk, Kept, In
  <2>3. QED
    BY <1>1, <1>2, <2>1, <2>2 DEF Readable
<1>10. ASSUME NEW i \in Ids, DeleteSession(i) PROVE HandedInv'
  <2>1. /\ Serving /\ In(sessions') = In(sessions) \ {i} /\ i \notin Shown
        /\ UNCHANGED <<phase, handed, running, late>>
    BY <1>1, <1>10, MapFacts, ServingFacts DEF DeleteSession, history, StageInv
  <2>2. phase = "listed" => (i \in In(sessions) => i \in late)
    BY <1>1, <2>1 DEF LateInv, PastHandoffSave
  <2>3. QED
    BY <1>3, <2>1, <2>2
<1>11. ASSUME NEW t \in Tabs, UpdateTab(t) PROVE HandedInv'
  <2>1. Serving /\ In(sessions') = In(sessions) /\ UNCHANGED <<phase, handed, running, late>>
    BY <1>11, ServingFacts DEF UpdateTab, history
  <2>2. QED
    BY <1>3, <2>1
<1>12. ASSUME NEW t \in Tabs, DeleteTab(t) PROVE HandedInv'
  <2>1. /\ Serving /\ In(sessions') = In(sessions) /\ UNCHANGED <<phase, handed, running>>
        /\ late \subseteq late'
    BY <1>12, ServingFacts DEF DeleteTab, Late
  <2>2. QED
    BY <1>3, <2>1
<1>13. CASE SpawnFails \/ CreateTab \/ SetLayout \/ Dropped \/ Undone \/ Answered
  <2>1. /\ Serving /\ In(sessions') = In(sessions) /\ UNCHANGED <<phase, handed, running>>
        /\ late \subseteq late'
    BY <1>13, ServingFacts DEF SpawnFails, CreateTab, SetLayout, Dropped, Undone, Answered, Late, memory, history
  <2>2. QED
    BY <1>3, <2>1
<1>14. CASE KillShell
  <2>1. /\ In(sessions') = In(sessions) /\ UNCHANGED <<phase, handed, late>>
        /\ running' \subseteq running
    BY <1>14 DEF KillShell, memory, history
  <2>2. Serving
    BY <1>1, <1>14, ServingFacts DEF KillShell, StageInv, NoRequest
  <2>3. QED
    BY <1>3, <2>1, <2>2
<1>15. CASE Tick
  <2>1. Serving /\ In(sessions') = In(sessions) /\ UNCHANGED <<phase, handed, running, late>>
    BY <1>15 DEF Tick, Serving, memory, history
  <2>2. QED
    BY <1>3, <2>1
<1>16. CASE Stop \/ Pause \/ HandoffFiles
  BY <1>16 DEF Stop, Pause, HandoffFiles
<1>17. CASE ListFiles
  <2>1. /\ Serving /\ phase' = "listed" /\ handed' = alive /\ In(sessions') = In(sessions)
        /\ UNCHANGED <<running, late>>
    BY <1>17 DEF ListFiles, Serving, memory, history
  <2>2. QED
    BY <1>1, <2>1 DEF AliveInv, UsedInv
<1>18. CASE Exit \/ Crash
  <2>1. /\ phase' = "down" /\ running' = {} /\ handed' = {}
    BY <1>18 DEF Exit, Crash, ProcessEnds
  <2>2. QED
    BY <2>1
<1>19. CASE Exec
  <2>1. /\ phase = "listed" /\ phase' = "down" /\ running' \subseteq handed
        /\ UNCHANGED <<file, handed, late>>
    BY <1>19 DEF Exec, ProcessEnds
  <2>2. cut => cut'
    BY <1>19, EndFacts, Zenon
  <2>3. OnDisk' = OnDisk /\ Readable' = Readable
    BY <2>1 DEF OnDisk, Kept, In, Readable
  <2>4. ~cut => file.kind # "absent" /\ (Readable => In(sessions) \subseteq OnDisk \cup late)
    BY <1>1, <2>1 DEF HandoffInv, HandoffSaved
  <2>5. QED
    BY <1>1, <1>2, <2>1, <2>2, <2>3, <2>4
<1>20. CASE LoadState
  <2>1. /\ phase = "down" /\ phase' = "loaded" /\ UNCHANGED <<running, handed, late, cut>>
        /\ In(sessions') = LoadedSessions /\ OnDisk \subseteq LoadedSessions \cup aged'
    BY <1>20, LoadFacts
  <2>2. Readable \/ file.kind = "absent" \/ cut
    BY <1>1, <1>20, LoadFacts DEF SaveInv, ReadableUnlessCut
  <2>3. QED
    BY <1>1, <1>2, <2>1, <2>2
<1>21. CASE Adopt
  BY <1>21, AdoptFacts
<1>22. CASE DaysPass
  <2>1. UNCHANGED <<phase, running, handed, late, cut, aged, In(sessions), OnDisk>> /\ file'.kind = file.kind
    BY <1>22, DaysFacts
  <2>2. QED
    BY <1>1, <1>2, <2>1 DEF Readable
<1>23. ASSUME NEW w \in Savers, Capture(w) PROVE HandedInv'
  <2>1. Serving /\ UNCHANGED <<phase, sessions, running, handed>> /\ (phase = "listed" => late' = late)
    BY <1>23, ServingFacts DEF Capture, memory
  <2>2. QED
    BY <1>3, <2>1 DEF In
<1>24. ASSUME NEW w \in Savers, Open(w) \/ Write(w) \/ WriteFails(w) PROVE HandedInv'
  <2>1. Serving /\ UNCHANGED <<phase, sessions, running, handed, late>>
    BY <1>24, ServingFacts DEF Open, Write, WriteFails, memory, history
  <2>2. QED
    BY <1>3, <2>1 DEF In
<1>25. QED
  BY <1>4, <1>5, <1>6, <1>7, <1>8, <1>9, <1>10, <1>11, <1>12, <1>13, <1>14, <1>15, <1>16,
     <1>17, <1>18, <1>19, <1>20, <1>21, <1>22, <1>23, <1>24
  DEF Next, HandlerStep, MainStep, SaveStep

-----------------------------------------------------------------------------
\* The inductive invariant, for any tabs and ids, with or without a clean-up.
THEOREM PersistenceInvariant == Spec => []IInv
<1>1. Init => IInv
  <2> SUFFICES ASSUME Init PROVE IInv
    OBVIOUS
  <2>1. /\ phase = "down" /\ used = {} /\ live = {} /\ panes = {} /\ alive = {} /\ running = {} /\ solo = {}
        /\ tabs = Nothing.tabs /\ sessions = Nothing.sessions
        /\ file = [kind |-> "absent", state |-> Nothing]
        /\ stage = [w \in Savers |-> "idle"] /\ held = [w \in Savers |-> Nothing]
        /\ request = NoRequest /\ handed = {}
        /\ cut = FALSE /\ missed = {} /\ late = {} /\ aged = {} /\ gone = {}
    BY DEF Init
  <2>2. /\ In(tabs) = {} /\ In(sessions) = {} /\ file.kind = "absent" /\ file.state = Nothing
        /\ \A w \in Savers : held[w] = Nothing /\ stage[w] = "idle"
        /\ Saving = {} /\ ~Readable /\ Shown = {} /\ request.op = "none"
    BY <2>1, NothingFacts DEF Saving, Readable, Shown, NoRequest
  <2>3. TypeOK
    <3>1. /\ tabs \in [Tabs -> Stamps] /\ sessions \in [Ids -> Stamps]
          /\ file \in [kind : {"absent", "empty", "mixed", "ok"}, state : States]
          /\ held \in [Savers -> States]
      BY <2>1, NothingFacts, StateFacts
    <3>2. QED
      BY <2>1, <3>1 DEF TypeOK, NoRequest
  <2>4. StageInv /\ UsedInv
    BY <2>1, <2>2, NothingFacts DEF StageInv, UsedInv, NoRequest, Savers
  <2>5. PaneInv /\ SaveInv /\ GoneInv
    BY <2>1, <2>2, NothingFacts
    DEF PaneInv, PanesHaveSessionsUnlessMissed, SaveInv, ReadableUnlessCut, GoneInv
  <2>6. AliveInv /\ LateInv /\ HandoffInv /\ HandedInv
    BY <2>1, <2>2 DEF AliveInv, Serving, LateInv, PastHandoffSave, HandoffInv, HandoffSaved, HandedInv
  <2>7. QED
    BY <2>3, <2>4, <2>5, <2>6 DEF IInv
<1>2. IInv /\ [Next]_vars => IInv'
  BY TypeStep, StageStep, UsedStep, PaneStep, FileStep, GoneStep, AliveStep, LateStep, HandoffStep,
     HandedStep DEF IInv
<1>3. QED
  BY <1>1, <1>2, PTL DEF Spec

\* Every variable keeps its type, through every save, crash and restart.
THEOREM PersistenceTypeOK == Spec => []TypeOK
BY PersistenceInvariant, PTL DEF IInv

\* Whenever no save is at work on it, state.json can be parsed, unless a save was
\* cut short, failed or overlapped another (SaveState).
THEOREM PersistenceReadable == Spec => []ReadableUnlessCut
BY PersistenceInvariant, PTL DEF IInv, SaveInv

\* Every pane's session is registered, but for those the clean-up dropped by their
\* own time (LoadState), and those begun between a save's capture and its
\* marshalling (SaveState).
THEOREM PersistencePanes == Spec => []PanesHaveSessionsUnlessMissed
BY PersistenceInvariant, PTL DEF IInv, PaneInv

\* A deleted tab stays deleted through any restart, but for a save that was cut
\* short, failed or overlapped another (DeleteTab, SaveState, LoadState).
THEOREM PersistenceDeletedStays == Spec => DeletedStaysDeletedUnlessCut
<1>1. IInv => [LoadState /\ LoadedTabs \cap gone # {} => cut]_vars
  <2> SUFFICES ASSUME IInv, LoadState, NEW t \in LoadedTabs \cap gone PROVE cut
    OBVIOUS
  <2>1. t \in In(file.state.tabs)
    BY DEF LoadedTabs
  <2>2. DiskOmits(t)
    BY DEF IInv, GoneInv
  <2>3. cut \in BOOLEAN
    BY DEF IInv, TypeOK
  <2>4. QED
    BY <2>1, <2>2, <2>3 DEF DiskOmits
<1>2. QED
  BY PersistenceInvariant, <1>1, PTL DEF DeletedStaysDeletedUnlessCut

\* An in-place restart ends no shell of a registered session, but for what was
\* begun or deleted after HandoffFiles' save, what the clean-up drops, and a
\* state.json that was cut (HandoffFiles, Adopt).
THEOREM PersistenceKeepsShells == Spec => RestartKeepsShells
<1>1. IInv => [/\ Exec => (running \cap In(sessions)) \ running' \subseteq late
               /\ Adopt => running \ running' \subseteq late \cup aged \/ cut]_vars
  <2> SUFFICES ASSUME IInv
               PROVE  /\ Exec => (running \cap In(sessions)) \ running' \subseteq late
                      /\ Adopt => running \ running' \subseteq late \cup aged \/ cut
    OBVIOUS
  <2>1. ASSUME Exec PROVE (running \cap In(sessions)) \ running' \subseteq late
    BY <2>1 DEF Exec, ProcessEnds, IInv, HandedInv
  <2>2. ASSUME Adopt PROVE running \ running' \subseteq late \cup aged \/ cut
    <3>1. running \cap handed \cap In(sessions) \subseteq running' /\ phase = "loaded"
      BY <2>2, AdoptFacts
    <3>2. running \subseteq handed /\ (cut \/ handed \subseteq In(sessions) \cup late \cup aged)
      BY <3>1 DEF IInv, HandedInv
    <3>3. QED
      BY <3>1, <3>2
  <2>3. QED
    BY <2>1, <2>2
<1>2. QED
  BY PersistenceInvariant, <1>1, PTL DEF RestartKeepsShells
=============================================================================
