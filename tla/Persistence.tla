----------------------------- MODULE Persistence -----------------------------
(***************************************************************************)
(* What outlives the server: state.json, saved by a ticker, by request     *)
(* handlers and by the main goroutine (SaveState) and loaded at startup    *)
(* (LoadState); the shells handed over by an in-place restart (Pause,      *)
(* HandoffFiles, Adopt); a stop, and a crash at any moment.  What a        *)
(* scrollback file holds is RingBuffer's, and nothing here depends on it.  *)
(*                                                                         *)
(* Ids are generated, so each is named after the tab it is generated for: a*)
(* session is <<tab, name>>, and layouts are the set of their panes'       *)
(* sessions.  A LastActive is "old" when the clean-up window               *)
(* (CleanupAfterDays) has passed since, and "new" otherwise.               *)
(***************************************************************************)
EXTENDS FiniteSets

CONSTANTS
  Tabs,
  Names,     \* ids generated for one tab
  None,
  CleansUp   \* cfg.CleanupAfterDays > 0

ASSUME PersistenceAssumption ==
  /\ CleansUp \in BOOLEAN
  /\ None \notin {"new", "old"}

Ids == Tabs \X Names
Stamps == {"new", "old", None}

\* The goroutines that call SaveState.
Savers == {"ticker", "handler", "main"}

VARIABLES
  phase,    \* the server: down, loaded, up; exiting; pausing, handing, listed
  used,     \* session ids generated so far
  live,     \* m.tabs
  tabs,     \* LastActive of every *Tab of this process, deleted ones included
  panes,    \* and the sessions in their layouts
  sessions, \* m.sessions: LastActive, or None
  alive,    \* Session.Alive
  running,  \* the sessions whose shell runs
  file,     \* state.json
  stage,    \* each goroutine's SaveState: idle, due, captured, opened
  held,     \* and its stateFile
  solo,     \* the saves that met no other
  request,  \* the handler's request: the tab, its sessions to begin, to delete,
            \* and the one whose shell is to be killed
  handed,   \* PTYs handed to the next incarnation
  \* history
  cut,      \* state.json may be stale or unreadable: a write was cut short or
            \* failed, or two saves overlapped
  missed,   \* sessions begun between a save's capture and its marshalling, and
            \* in no save since that met no other
  late,     \* sessions begun or deleted since HandoffFiles' save
  aged,     \* sessions LoadState dropped for their age, or their tab's
  gone      \* tabs whose deletion is complete

memory == <<live, tabs, panes, sessions, alive>>
saver == <<stage, held, solo>>
history == <<cut, missed, late, aged, gone>>
vars == <<phase, used, memory, running, file, saver, request, handed, history>>

NoRequest == [op |-> "none", tab |-> None, new |-> {}, olds |-> {}, kill |-> {}]
Nothing == [sessions |-> [i \in Ids |-> None], tabs |-> [t \in Tabs |-> None], panes |-> {}]

In(f) == {x \in DOMAIN f : f[x] # None}
Panes(t) == {i \in panes : i[1] = t}
Shown == {i \in panes : i[1] \in live}
Readable == file.kind = "ok"
Serving == phase \in {"up", "exiting", "pausing", "handing", "listed"}
Saving == {w \in Savers : stage[w] \in {"captured", "opened"}}
\* HandoffFiles has captured the maps.
PastHandoffSave == phase = "listed" \/ (phase = "handing" /\ stage["main"] # "due")

Init ==
  /\ phase = "down" /\ used = {} /\ live = {} /\ tabs = Nothing.tabs /\ panes = {}
  /\ sessions = Nothing.sessions /\ alive = {} /\ running = {}
  /\ file = [kind |-> "absent", state |-> Nothing]
  /\ stage = [w \in Savers |-> "idle"] /\ held = [w \in Savers |-> Nothing] /\ solo = {}
  /\ request = NoRequest /\ handed = {}
  /\ cut = FALSE /\ missed = {} /\ late = {} /\ aged = {} /\ gone = {}

-----------------------------------------------------------------------------
(* SaveState *)

Due(w) == stage' = [stage EXCEPT ![w] = "due"] /\ UNCHANGED <<held, solo>>
\* SaveState returns.
Saved(w) ==
  /\ stage' = [stage EXCEPT ![w] = "idle"] /\ held' = [held EXCEPT ![w] = Nothing]
  /\ solo' = solo \ {w}

\* Mutant: only the sessions alive are saved.
Capture_AliveOnly(w) ==
  /\ stage[w] = "due"
  /\ stage' = [stage EXCEPT ![w] = "captured"]
  /\ held' = [held EXCEPT ![w] =
       [sessions |-> [i \in Ids |-> IF i \in alive THEN sessions[i] ELSE None],
        tabs |-> [t \in Tabs |-> IF t \in live THEN tabs[t] ELSE None], panes |-> {}]]
  /\ solo' = (solo \ Saving) \cup {v \in {w} : Saving = {}}
  /\ late' = IF w = "main" /\ phase = "handing" THEN In(sessions) \ Shown ELSE late
  /\ UNCHANGED <<phase, used, memory, running, file, request, handed, cut, missed, aged, gone>>

\* Under m.mu: the sessions' metadata; of the tabs, the pointers.
Capture(w) ==
  /\ stage[w] = "due"
  /\ stage' = [stage EXCEPT ![w] = "captured"]
  /\ held' = [held EXCEPT ![w] =
       [sessions |-> sessions,
        tabs |-> [t \in Tabs |-> IF t \in live THEN tabs[t] ELSE None], panes |-> {}]]
  /\ solo' = (solo \ Saving) \cup {v \in {w} : Saving = {}}
  /\ late' = IF w = "main" /\ phase = "handing" THEN In(sessions) \ Shown ELSE late
  /\ UNCHANGED <<phase, used, memory, running, file, request, handed, cut, missed, aged, gone>>

\* The tabs as they are when they are marshalled, after m.mu was released.
Marshalled(s) ==
  [s EXCEPT !.tabs = [t \in Tabs |-> IF @[t] = None THEN None ELSE tabs[t]],
            !.panes = {i \in panes : s.tabs[i[1]] # None}]

\* Mutant: the file is opened without being truncated.
Open_NoTruncate(w) ==
  /\ stage[w] = "captured"
  /\ stage' = [stage EXCEPT ![w] = "opened"]
  /\ held' = [held EXCEPT ![w] = Marshalled(@)]
  /\ UNCHANGED <<phase, used, memory, running, file, solo, request, handed, history>>

\* MarshalIndent reads the tabs' layouts, and os.WriteFile truncates state.json, ...
Open(w) ==
  /\ stage[w] = "captured"
  /\ stage' = [stage EXCEPT ![w] = "opened"]
  /\ held' = [held EXCEPT ![w] = Marshalled(@)]
  /\ file' = [kind |-> "empty", state |-> Nothing]
  /\ UNCHANGED <<phase, used, memory, running, solo, request, handed, history>>

Mixed == [kind |-> "mixed", state |-> Nothing]

\* ... and writes it from its start, over what another save has written
\* meanwhile, whose end remains if it was longer.
Write(w) ==
  /\ stage[w] = "opened"
  /\ file' \in {[kind |-> "ok", state |-> held[w]]} \cup {f \in {Mixed} : file.kind # "empty"}
  /\ Saved(w)
  /\ cut' = (w \notin solo)
  /\ missed' = IF w \in solo THEN missed \ In(held[w].sessions) ELSE missed
  /\ UNCHANGED <<phase, used, memory, running, request, handed, late, aged, gone>>

\* os.WriteFile fails, which is logged: it could not open the file, or wrote a part
\* of it or nothing.
WriteFails(w) ==
  /\ \/ stage[w] = "captured" /\ UNCHANGED file
     \/ stage[w] = "opened" /\ file' \in {file, Mixed}
  /\ Saved(w)
  /\ cut' = TRUE
  /\ UNCHANGED <<phase, used, memory, running, request, handed, missed, late, aged, gone>>

\* Mutant: the ticker waits until no shell is alive.
Tick_WhenQuiet ==
  /\ phase = "up" /\ stage["ticker"] = "idle" /\ alive = {}
  /\ Due("ticker")
  /\ UNCHANGED <<phase, used, memory, running, file, request, handed, history>>

\* periodicSave.
Tick ==
  /\ phase = "up" /\ stage["ticker"] = "idle"
  /\ Due("ticker")
  /\ UNCHANGED <<phase, used, memory, running, file, request, handed, history>>

-----------------------------------------------------------------------------
(* The server at work.  SessionRegistry has what concurrent requests do to  *)
(* one tab; one handler at a time is enough for what they do to the disk.   *)
(* The page deletes no session but with its tab or pane.                   *)

HandlerFree == Serving /\ request = NoRequest /\ stage["handler"] = "idle"
Late(ids) == late' = IF PastHandoffSave THEN late \cup ids ELSE late
Asked(op, t, new, olds) == [op |-> op, tab |-> t, new |-> new, olds |-> olds, kill |-> {}]

\* CreateTab: the session first, then the tab; nothing is saved.
StartTab(i) ==
  /\ HandlerFree /\ \A j \in used : j[1] # i[1]
  /\ used' = used \cup {i}
  /\ request' = Asked("create", i[1], {i}, {})
  /\ UNCHANGED <<phase, memory, running, file, saver, handed, history>>

\* The operations on a tab's panes: the sessions that are new are begun first,
\* then the layout is changed, then the old ones are deleted.
Edit(t, new, olds) ==
  /\ HandlerFree /\ t \in live
  /\ used' = used \cup new
  /\ request' = Asked("edit", t, new, olds)
  /\ UNCHANGED <<phase, memory, running, file, saver, handed, history>>
SplitPane(i) == i \notin used /\ Edit(i[1], {i}, {})
ClosePane(i) == i \in Shown /\ Panes(i[1]) # {i} /\ Edit(i[1], {}, {i})
\* ReplaceTabSessions; with one pane, ClosePane too.
ReplaceTabSessions(t, new) ==
  /\ \A i \in new : i[1] = t /\ i \notin used
  /\ Cardinality(new) = Cardinality(Panes(t))
  /\ Edit(t, new, Panes(t))

\* Mutant: a session begins without its LastActive.
BeginSession_NoStamp(i) ==
  /\ request.op \in {"create", "edit"} /\ i \in request.new \ In(sessions)
  /\ alive' = alive \cup {i} /\ running' = running \cup {i}
  /\ Late({i})
  /\ missed' = IF \E w \in Savers : stage[w] = "captured" THEN missed \cup {i} ELSE missed
  /\ UNCHANGED <<phase, used, live, tabs, panes, sessions, file, saver, request, handed, cut, aged, gone>>

BeginSession(i) ==
  /\ request.op \in {"create", "edit"} /\ i \in request.new \ In(sessions)
  /\ sessions' = [sessions EXCEPT ![i] = "new"] /\ alive' = alive \cup {i}
  /\ running' = running \cup {i}
  /\ Late({i})
  /\ missed' = IF \E w \in Savers : stage[w] = "captured" THEN missed \cup {i} ELSE missed
  /\ UNCHANGED <<phase, used, live, tabs, panes, file, saver, request, handed, cut, aged, gone>>

\* A shell does not start: those begun are deleted again.
SpawnFails ==
  /\ request.op \in {"create", "edit"} /\ ~(request.new \subseteq In(sessions))
  /\ request' = Asked("undo", request.tab, {}, request.new \cap In(sessions))
  /\ UNCHANGED <<phase, used, memory, running, file, saver, handed, history>>

CreateTab ==
  /\ request.op = "create" /\ request.new \subseteq In(sessions)
  /\ live' = live \cup {request.tab} /\ tabs' = [tabs EXCEPT ![request.tab] = "new"]
  /\ panes' = panes \cup request.new
  /\ request' = NoRequest
  /\ UNCHANGED <<phase, used, sessions, alive, running, file, saver, handed, history>>

SetLayout ==
  /\ request.op = "edit" /\ request.new \subseteq In(sessions)
  /\ tabs' = [tabs EXCEPT ![request.tab] = "new"]
  /\ panes' = (panes \ request.olds) \cup request.new
  /\ request' = Asked("drop", request.tab, {}, request.olds)
  /\ Late(request.olds)
  /\ UNCHANGED <<phase, used, live, sessions, alive, running, file, saver, handed, cut, missed, aged, gone>>

\* A rename or a change of the layout's ratios.
UpdateTab(t) ==
  /\ HandlerFree /\ t \in live
  /\ tabs' = [tabs EXCEPT ![t] = "new"]
  /\ Due("handler")
  /\ UNCHANGED <<phase, used, live, panes, sessions, alive, running, file, request, handed, history>>

DeleteTab(t) ==
  /\ HandlerFree /\ t \in live
  /\ live' = live \ {t}
  /\ request' = Asked("drop", t, {}, Panes(t))
  /\ Late(Panes(t))
  /\ UNCHANGED <<phase, used, tabs, panes, sessions, alive, running, file, saver, handed, cut, missed, aged, gone>>

DeleteSession(i) ==
  /\ request.op \in {"drop", "undo"} /\ request.kill = {} /\ i \in request.olds
  /\ sessions' = [sessions EXCEPT ![i] = None] /\ alive' = alive \ {i}
  /\ request' = [request EXCEPT !.olds = @ \ {i}, !.kill = {i} \cap In(sessions)]
  /\ UNCHANGED <<phase, used, live, tabs, panes, running, file, saver, handed, history>>

\* Its files are removed too.
KillShell ==
  /\ request.kill # {}
  /\ running' = running \ request.kill
  /\ request' = [request EXCEPT !.kill = {}]
  /\ UNCHANGED <<phase, used, memory, file, saver, handed, history>>

\* Mutant: the handler answers without saving.
Dropped_NoSave ==
  /\ request.op = "drop" /\ request.olds = {} /\ request.kill = {}
  /\ request' = [request EXCEPT !.op = "answer"]
  /\ UNCHANGED <<phase, used, memory, running, file, saver, handed, history>>

Dropped ==
  /\ request.op = "drop" /\ request.olds = {} /\ request.kill = {}
  /\ request' = [request EXCEPT !.op = "answer"]
  /\ Due("handler")
  /\ UNCHANGED <<phase, used, memory, running, file, handed, history>>

Undone ==
  /\ request.op = "undo" /\ request.olds = {} /\ request.kill = {}
  /\ request' = NoRequest
  /\ UNCHANGED <<phase, used, memory, running, file, saver, handed, history>>

Answered ==
  /\ request.op = "answer" /\ stage["handler"] = "idle"
  /\ request' = NoRequest
  /\ gone' = gone \cup ({request.tab} \ live)
  /\ UNCHANGED <<phase, used, memory, running, file, saver, handed, cut, missed, late, aged>>

\* ReviveSession, for a pane that is opened.
Revive(i) ==
  /\ Serving /\ i \in (In(sessions) \ alive) \cap Shown
  /\ sessions' = [sessions EXCEPT ![i] = "new"] /\ alive' = alive \cup {i}
  /\ running' = running \cup {i}
  /\ Late({i})
  /\ UNCHANGED <<phase, used, live, tabs, panes, file, saver, request, handed, cut, missed, aged, gone>>

\* readPump: output renews the session, not its tab.
Output(i) ==
  /\ Serving /\ i \in alive \cap running
  /\ sessions' = [sessions EXCEPT ![i] = "new"]
  /\ UNCHANGED <<phase, used, live, tabs, panes, alive, running, file, saver, request, handed, history>>

ShellExit(i) ==
  /\ i \in running
  /\ running' = running \ {i}
  /\ UNCHANGED <<phase, used, memory, file, saver, request, handed, history>>

\* readPump reaches the end of the PTY and reaps the shell.
SessionEnds(i) ==
  /\ Serving /\ i \in alive \ running
  /\ alive' = alive \ {i}
  /\ UNCHANGED <<phase, used, live, tabs, panes, sessions, running, file, saver, request, handed, history>>

\* The clean-up window passes: whatever is there was last active before it.
Aged(stamps) == [x \in DOMAIN stamps |-> IF stamps[x] = None THEN None ELSE "old"]
AgedState(s) == [sessions |-> Aged(s.sessions), tabs |-> Aged(s.tabs), panes |-> s.panes]
DaysPass ==
  /\ CleansUp
  /\ tabs' = Aged(tabs) /\ sessions' = Aged(sessions)
  /\ file' = [file EXCEPT !.state = AgedState(@)]
  /\ held' = [w \in Savers |-> AgedState(held[w])]
  /\ UNCHANGED <<phase, used, live, panes, alive, running, stage, solo, request, handed, history>>

-----------------------------------------------------------------------------
(* Stop: the sessions are killed, and the state saved when none is alive;   *)
(* handlers run until the process ends.  The kills are one step: what a     *)
(* save writes does not depend on them.                                     *)

Stop ==
  /\ phase = "up"
  /\ phase' = "exiting"
  /\ running' = running \ alive /\ alive' = {}
  /\ Due("main")
  /\ UNCHANGED <<used, live, tabs, panes, sessions, file, request, handed, history>>

(* An in-place restart: Pause, then HandoffFiles, then the new executable.  *)

Pause ==
  /\ phase = "up"
  /\ phase' = "pausing"
  /\ Due("main")
  /\ UNCHANGED <<used, memory, running, file, request, handed, history>>

\* Mutant: the PTYs are listed without a save of their own.
HandoffFiles_NoSave ==
  /\ phase = "pausing" /\ stage["main"] = "idle"
  /\ phase' = "handing"
  /\ UNCHANGED <<used, memory, running, file, saver, request, handed, history>>

HandoffFiles ==
  /\ phase = "pausing" /\ stage["main"] = "idle"
  /\ phase' = "handing"
  /\ Due("main")
  /\ UNCHANGED <<used, memory, running, file, request, handed, history>>

ListFiles ==
  /\ phase = "handing" /\ stage["main"] = "idle"
  /\ phase' = "listed"
  /\ handed' = alive
  /\ UNCHANGED <<used, memory, running, file, saver, request, history>>

\* The process image is gone: its goroutines, and the PTYs that were not kept,
\* whose shells get a hangup.
ProcessEnds(kept) ==
  /\ phase' = "down"
  /\ live' = {} /\ tabs' = Nothing.tabs /\ panes' = {}
  /\ sessions' = Nothing.sessions /\ alive' = {}
  /\ running' = running \cap kept
  /\ handed' = kept
  /\ stage' = [w \in Savers |-> "idle"] /\ held' = [w \in Savers |-> Nothing] /\ solo' = {}
  /\ request' = NoRequest
  /\ cut' = (cut \/ \E w \in Savers : stage[w] = "opened")
  /\ UNCHANGED <<used, file, missed, aged, gone>>

Exec == phase = "listed" /\ ProcessEnds(handed) /\ UNCHANGED late
Exit == phase = "exiting" /\ stage["main"] = "idle" /\ ProcessEnds({}) /\ late' = {}
Crash == phase # "down" /\ ProcessEnds({}) /\ late' = {}

-----------------------------------------------------------------------------
(* Startup *)

Expired(last) == CleansUp /\ last = "old"

\* What LoadState puts in the maps: the tabs within the clean-up window, and
\* the sessions within it that a tab shows.
LoadedTabs == {t \in In(file.state.tabs) : ~Expired(file.state.tabs[t])}
LoadedPanes == {i \in file.state.panes : i[1] \in LoadedTabs}
LoadedSessions == {i \in In(file.state.sessions) \cap LoadedPanes : ~Expired(file.state.sessions[i])}

LoadState ==
  LET dropped == In(file.state.sessions) \ LoadedSessions IN
  /\ phase = "down"
  /\ phase' = "loaded"
  /\ live' = LoadedTabs /\ panes' = LoadedPanes
  /\ tabs' = [t \in Tabs |-> IF t \in LoadedTabs THEN file.state.tabs[t] ELSE None]
  /\ sessions' = [i \in Ids |-> IF i \in LoadedSessions THEN file.state.sessions[i] ELSE None]
  /\ aged' = aged \cup {i \in dropped : Expired(file.state.sessions[i]) \/ Expired(file.state.tabs[i[1]])}
  /\ gone' = gone \ LoadedTabs
  /\ UNCHANGED <<used, alive, running, file, saver, request, handed, cut, missed, late>>

\* A PTY without a session is closed, which ends its shell.  A shell that died
\* on the way still has its pid if nothing has reaped it.
Adopt ==
  /\ phase = "loaded"
  /\ phase' = "up"
  /\ \E unreaped \in SUBSET (handed \ running) :
       LET adopted == ((handed \cap running) \cup unreaped) \cap In(sessions) IN
       /\ sessions' = [i \in Ids |-> IF i \in adopted THEN "new" ELSE sessions[i]]
       /\ alive' = adopted
       /\ running' = running \cap adopted
  /\ handed' = {} /\ late' = {}
  /\ UNCHANGED <<used, live, tabs, panes, file, saver, request, cut, missed, aged, gone>>

-----------------------------------------------------------------------------
SaveStep(w) == Capture(w) \/ Open(w) \/ Write(w) \/ WriteFails(w)
EditStep ==
  \/ \E i \in Ids : SplitPane(i) \/ ClosePane(i)
  \/ \E t \in Tabs, new \in SUBSET Ids : ReplaceTabSessions(t, new)
HandlerStep ==
  \/ \E i \in Ids : StartTab(i) \/ BeginSession(i) \/ DeleteSession(i) \/ Revive(i)
  \/ \E t \in Tabs : UpdateTab(t) \/ DeleteTab(t)
  \/ EditStep \/ SpawnFails \/ CreateTab \/ SetLayout \/ KillShell
  \/ Dropped \/ Undone \/ Answered
MainStep ==
  \/ Stop \/ Exit
  \/ Pause \/ HandoffFiles \/ ListFiles \/ Exec
  \/ LoadState \/ Adopt

Next ==
  \/ Tick \/ HandlerStep \/ MainStep \/ Crash \/ DaysPass
  \/ \E w \in Savers : SaveStep(w)
  \/ \E i \in Ids : Output(i) \/ ShellExit(i) \/ SessionEnds(i)

Spec == Init /\ [][Next]_vars

\* The ticker and every SaveState under way go on; so does the main goroutine
\* once a stop or a restart has begun.
Fairness ==
  /\ WF_vars(Tick)
  /\ \A w \in Savers : WF_vars(SaveStep(w))
  /\ WF_vars(Exit \/ HandoffFiles \/ ListFiles \/ Exec)
FairSpec == Spec /\ Fairness

-----------------------------------------------------------------------------
States == [sessions : [Ids -> Stamps], tabs : [Tabs -> Stamps], panes : SUBSET Ids]

\* The type of every variable.
TypeOK ==
  /\ phase \in {"down", "loaded", "up", "exiting", "pausing", "handing", "listed"}
  /\ used \subseteq Ids /\ live \subseteq Tabs /\ tabs \in [Tabs -> Stamps] /\ panes \subseteq Ids
  /\ sessions \in [Ids -> Stamps] /\ alive \subseteq Ids
  /\ running \subseteq Ids /\ handed \subseteq Ids
  /\ file \in [kind : {"absent", "empty", "mixed", "ok"}, state : States]
  /\ stage \in [Savers -> {"idle", "due", "captured", "opened"}]
  /\ held \in [Savers -> States] /\ solo \subseteq Savers
  /\ request \in [op : {"none", "create", "edit", "undo", "drop", "answer"}, tab : Tabs \cup {None},
                  new : SUBSET Ids, olds : SUBSET Ids, kill : SUBSET Ids]
  /\ cut \in BOOLEAN /\ missed \subseteq Ids /\ late \subseteq Ids /\ aged \subseteq Ids /\ gone \subseteq Tabs

\* Whenever no save is at work on it, LoadState can parse state.json, unless a
\* save was cut short by the end of the process, failed (a failed os.WriteFile is
\* logged and leaves what it wrote), or overlapped another (SaveState writes in
\* place, after it released the lock).
ReadableUnlessCut ==
  (\A w \in Savers : stage[w] # "opened") => Readable \/ file.kind = "absent" \/ cut

\* Every pane's session is registered, through changes of the layout, saves,
\* crashes, restarts and clean-ups, unless the clean-up dropped a session whose
\* tab was used since (LoadState judges the two by their own times), or a save
\* read the pane in a layout and had captured the sessions before it was begun
\* (SaveState marshals the tabs after it released the lock).
PanesHaveSessionsUnlessMissed == Shown \subseteq In(sessions) \cup aged \cup missed

\* A deleted tab does not come back with a restart once its request is
\* answered, unless a save was cut short, failed or overlapped another.
DeletedStaysDeletedUnlessCut == [][LoadState /\ LoadedTabs \cap gone # {} => cut]_vars

\* An in-place restart ends no shell of a registered session ("so the shells in
\* them keep running through an update", manager.go:222), but for those begun
\* or deleted after HandoffFiles' save, those the clean-up drops, and a
\* state.json that was cut.
RestartKeepsShells ==
  [][/\ Exec => (running \cap In(sessions)) \ running' \subseteq late
     /\ Adopt => running \ running' \subseteq late \cup aged \/ cut]_vars

\* "A server that updates this way keeps every open terminal" (README.md:70):
\* the same without the clean-up.
UpdateKeepsTerminals == [][Adopt => running \ running' \subseteq late \/ cut]_vars

\* A new tab reaches state.json, though CreateTab does not save, unless it or
\* the server goes first (periodicSave); if writes do not fail for ever.
TabIsSaved ==
  <>[][\A w \in Savers : ~WriteFails(w)]_vars =>
     \A t \in Tabs : t \in live ~> (t \notin live \/ t \in In(file.state.tabs))

-----------------------------------------------------------------------------
(* The inductive invariant *)

UsedTabs == {i[1] : i \in used}

\* What a process is doing ends with it; a request's new sessions are in no layout
\* until it puts them there, and those it deletes are in none any more.
StageInv ==
  /\ phase \in {"down", "loaded"} => /\ request = NoRequest /\ alive = {}
                                    /\ \A w \in Savers : stage[w] = "idle"
  /\ phase = "up" => stage["main"] = "idle"
  /\ \A w \in Savers \ Saving : held[w] = Nothing
  /\ request.op \in {"create", "edit", "undo", "drop"} => stage["handler"] = "idle"
  /\ request.op # "none" => request.tab \in UsedTabs
  /\ request.op \in {"create", "edit"} =>
       /\ request.new \subseteq used \ panes /\ request.kill = {}
       /\ \A i \in request.new \cup request.olds : i[1] = request.tab
       /\ request.olds \subseteq panes
  /\ request.op = "create" => /\ Panes(request.tab) = {} /\ request.olds = {}
                              /\ request.tab \notin live \cup gone
  /\ request.op = "edit" => request.tab \in live
  /\ request.op \in {"undo", "drop"} => request.olds \cap Shown = {}
  /\ request.op = "answer" => request.olds = {}
  /\ request.kill \cap In(sessions) = {}

\* Ids are not generated twice, and what a tab has it keeps.
UsedInv ==
  /\ panes \subseteq used /\ live \subseteq In(tabs)
  /\ In(tabs) \cup gone \cup In(file.state.tabs) \subseteq UsedTabs
  /\ file.state.panes \subseteq used
  /\ \A w \in Savers : In(held[w].tabs) \subseteq In(tabs) /\ held[w].panes \subseteq used
  /\ alive \subseteq In(sessions)

\* The panes a save writes, or will read.
ToWrite(w) ==
  IF stage[w] = "captured" THEN {i \in panes : held[w].tabs[i[1]] # None} ELSE held[w].panes

\* Panes and sessions agree in memory, in a save under way and on the disk.
Excused == aged \cup missed
PaneInv ==
  /\ PanesHaveSessionsUnlessMissed
  /\ \A w \in Saving : /\ ToWrite(w) \subseteq In(held[w].sessions) \cup Excused
                       /\ In(held[w].sessions) \cap Shown \subseteq In(sessions)
                       /\ stage[w] = "captured" => In(sessions) \subseteq In(held[w].sessions) \cup missed
  /\ file.state.panes \subseteq In(file.state.sessions) \cup Excused

\* A save that met no other found the file as it left it.
SaveInv ==
  /\ \A v, w \in Saving : v \in solo => v = w
  /\ \A w \in solo : stage[w] = "opened" => file.kind = "empty"
  /\ solo \subseteq Saving
  /\ ~Readable => file.state = Nothing
  /\ ReadableUnlessCut

\* A deleted tab is in no save, nor on the file, but through an overlap or a failure.
SavesOmit(t) == \A w \in solo : t \notin In(held[w].tabs)
DiskOmits(t) == cut \/ t \notin In(file.state.tabs)
GoneInv ==
  /\ \A t \in gone : t \notin live /\ SavesOmit(t) /\ DiskOmits(t)
  /\ request.op = "answer" /\ request.tab \notin live =>
       \/ stage["handler"] = "due"
       \/ SavesOmit(request.tab) /\ (stage["handler"] = "idle" => DiskOmits(request.tab))

\* A shell that runs for a session is known to.
AliveInv == Serving => running \cap In(sessions) \subseteq alive

\* From HandoffFiles' save to Adopt, what is late aside: the sessions there are
\* are in every save that met no other and, when it is done, on the disk ...
Kept(f, shown) == {i \in In(f.sessions) \cap shown : f.tabs[i[1]] # None}
OnDisk == Kept(file.state, file.state.panes)
HandoffSaved == phase = "listed" \/ (phase = "handing" /\ stage["main"] = "idle")
LateInv ==
  PastHandoffSave => /\ In(sessions) \subseteq Shown \cup late
                     /\ \A w \in solo : In(sessions) \subseteq Kept(held[w], ToWrite(w)) \cup late
HandoffInv ==
  HandoffSaved /\ ~cut => file.kind # "absent" /\ (Readable => In(sessions) \subseteq OnDisk \cup late)
\* ... and the PTYs handed over are theirs.
HandedInv ==
  /\ phase = "listed" => /\ handed \subseteq In(sessions) \cup late
                         /\ running \cap In(sessions) \subseteq handed \cup late
  /\ phase \in {"down", "loaded"} => running \subseteq handed
  /\ phase = "down" /\ ~cut => /\ handed # {} => file.kind # "absent"
                               /\ Readable => handed \subseteq OnDisk \cup late
  /\ phase = "loaded" => cut \/ handed \subseteq In(sessions) \cup late \cup aged

IInv ==
  /\ TypeOK /\ StageInv /\ UsedInv /\ PaneInv /\ SaveInv /\ GoneInv
  /\ AliveInv /\ LateInv /\ HandoffInv /\ HandedInv
=============================================================================
