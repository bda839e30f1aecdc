-------------------------- MODULE SessionRegistry ---------------------------
(***************************************************************************)
(* The SessionManager's registry (manager.go): sessions, tabs and the      *)
(* layouts that join them, under the operations HTTP and WebSocket         *)
(* handlers run concurrently: CreateTab, SplitPane, ClosePane,             *)
(* ReplaceTabSessions, DeleteTab, DeleteSession, ReviveSession, SaveState. *)
(*                                                                         *)
(* One action per critical section of m.mu, and one for each thing done    *)
(* between two of them.  A layout is the set of the sessions in its panes: *)
(* the operations find, add and remove panes by session, and UpdateTab     *)
(* accepts only layouts with the same set (layoutMatchesSessionSet), so it *)
(* changes nothing here.  A *Tab stays reachable for handlers that looked  *)
(* it up before it was deleted; so does its layout.                        *)
(***************************************************************************)
EXTENDS Integers, FiniteSets

CONSTANTS
  Workers,    \* handler goroutines, and the periodic save
  Tabs,       \* tab ids
  None,       \* no session, shell or tab
  Requests,   \* bound: the operations that are asked for
  MaxShells   \* bound: shells spawned

ASSUME RegistryAssumption ==
  MaxShells \in Nat \ {0} /\ None \notin Nat /\ None \notin Tabs

VARIABLES
  sessions,   \* m.sessions: the shell registered for each session id
  live,       \* m.tabs: the ids in it
  layout,     \* Tab.Layout of every tab there ever was
  spawned,    \* shells spawned so far; shell n is the n-th
  alive,      \* Session.Alive of each shell
  sidOf,      \* Session.ID of each shell: its own number, or the session it revived
  job,        \* what each worker is doing
  disk,       \* state.json: the layout of each tab in it (its sessions are Persistence's)
  \* history
  byHand,     \* sessions deleted with DELETE /api/sessions/{id}
  overlapped, \* two operations on one tab ran at the same time
  saveRaced   \* two SaveStates ran at the same time

vars == <<sessions, live, layout, spawned, alive, sidOf, job, disk, byHand, overlapped, saveRaced>>
registry == <<sessions, live, layout>>
shells == <<spawned, alive, sidOf>>
history == <<byHand, overlapped, saveRaced>>

Shells == 1 .. MaxShells
Ids == Shells

\* A worker's local variables: the pane it works on, the shell it spawned,
\* the sessions it made or still has to delete, the shell it kills.
Idle == [op |-> "none", at |-> "idle", tab |-> None, sid |-> None, new |-> None,
         want |-> 0, made |-> {}, todo |-> {}, kill |-> None, tabs |-> {}]

Registered == {s \in Ids : sessions[s] # None}
Panes == UNION {layout[t] : t \in live}

Init ==
  /\ sessions = [s \in Ids |-> None]
  /\ live = {}
  /\ layout = [t \in Tabs |-> {}]
  /\ spawned = 0
  /\ alive = [n \in Shells |-> FALSE]
  /\ sidOf = [n \in Shells |-> n]
  /\ job = [w \in Workers |-> Idle]
  /\ disk = [t \in Tabs |-> None]
  /\ byHand = {} /\ overlapped = FALSE /\ saveRaced = FALSE

-----------------------------------------------------------------------------
(* The operations' first steps. *)

Busy(w) == job[w].at # "idle"

\* The worker's next step; overlapped records that another operation is at
\* work on the same tab.
Begin(w, j) ==
  /\ ~Busy(w)
  /\ job' = [job EXCEPT ![w] = j]
  /\ overlapped' = (overlapped \/ \E v \in Workers : Busy(v) /\ job[v].tab = j.tab)
  /\ UNCHANGED <<shells, disk, byHand, saveRaced>>

Job(op, at, t) == [Idle EXCEPT !.op = op, !.at = at, !.tab = t]
PaneJob(op, at, t, s) == [Job(op, at, t) EXCEPT !.sid = s]

\* The id is generated, so nobody else knows the tab yet.
CreateTab(w, t) ==
  /\ "create" \in Requests
  /\ t \notin live /\ layout[t] = {} /\ \A v \in Workers : job[v].tab # t
  /\ Begin(w, Job("create", "spawn", t))
  /\ UNCHANGED registry

SplitPane(w, t, s) ==
  /\ "split" \in Requests
  /\ t \in live /\ s \in layout[t]
  /\ Begin(w, PaneJob("split", "spawn", t, s))
  /\ UNCHANGED registry

\* Closing the last pane replaces its session.
ClosePane(w, t, s) ==
  /\ "close" \in Requests
  /\ t \in live /\ s \in layout[t]
  /\ Begin(w, IF layout[t] = {s} THEN PaneJob("closeLast", "spawn", t, s)
                                 ELSE PaneJob("close", "unlink", t, s))
  /\ UNCHANGED registry

ReplaceTabSessions(w, t) ==
  /\ "replace" \in Requests
  /\ t \in live
  /\ Begin(w, Job("replace", "copy", t))
  /\ UNCHANGED registry

DeleteTab(w, t) ==
  /\ "delete" \in Requests
  /\ t \in live
  /\ live' = live \ {t}
  /\ Begin(w, Job("delete", "collect", t))
  /\ UNCHANGED <<sessions, layout>>

\* DELETE /api/sessions/{id}, whether or not a pane shows the session.
DeleteSession(w, s) ==
  /\ "deleteSession" \in Requests
  /\ s \in Registered
  /\ ~Busy(w)
  /\ job' = [job EXCEPT ![w] = [Job("deleteSession", "purge", None) EXCEPT !.todo = {s}]]
  /\ byHand' = byHand \cup {s}
  /\ UNCHANGED <<registry, shells, disk, overlapped, saveRaced>>

\* handleSessionWS for a pane of a tab (CanAttachSession), then ReviveSession.
AttachSession(w, t, s) ==
  /\ "revive" \in Requests
  /\ t \in live /\ s \in layout[t]
  /\ Begin(w, PaneJob("revive", "check", t, s))
  /\ UNCHANGED registry

\* The periodic save, and the one of a rename.
SaveState(w) ==
  /\ "save" \in Requests
  /\ ~Busy(w)
  /\ job' = [job EXCEPT ![w] = Job("save", "save", None)]
  /\ UNCHANGED <<registry, shells, disk, history>>

-----------------------------------------------------------------------------
(* Their further steps. *)

Go(w, at) == job' = [job EXCEPT ![w].at = at]
Done(w) == job' = [job EXCEPT ![w] = Idle]

\* ReviveSession's first critical section.
CheckDead(w) ==
  LET n == sessions[job[w].sid] IN
  /\ job[w].at = "check"
  /\ IF n # None /\ ~alive[n] THEN Go(w, "spawn") ELSE Done(w)
  /\ UNCHANGED <<registry, shells, disk, history>>

\* Mutant: the replacement sessions made so far are kept.
SpawnFails_NoRollback(w) ==
  /\ job[w].at = "spawn"
  /\ Done(w)
  /\ UNCHANGED <<registry, shells, disk, history>>

\* Mutant: the sessions to be replaced are deleted.
SpawnFails_DeletesOld(w) ==
  /\ job[w].at = "spawn"
  /\ IF job[w].op = "replace" THEN Go(w, "rollback") ELSE Done(w)
  /\ UNCHANGED <<registry, shells, disk, history>>

\* NewSession starts a shell ...
Spawn(w) ==
  /\ job[w].at = "spawn" /\ spawned < MaxShells
  /\ spawned' = spawned + 1
  /\ alive' = [alive EXCEPT ![spawned + 1] = TRUE]
  /\ sidOf' = [sidOf EXCEPT ![spawned + 1] = IF job[w].op = "revive" THEN job[w].sid ELSE @]
  /\ job' = [job EXCEPT ![w].new = spawned + 1, ![w].at = "register"]
  /\ UNCHANGED <<registry, disk, history>>

\* ... or fails: ReplaceTabSessions deletes what it has made so far.
SpawnFails(w) ==
  /\ job[w].at = "spawn"
  /\ IF job[w].op = "replace"
     THEN job' = [job EXCEPT ![w].todo = job[w].made, ![w].at = "rollback"]
     ELSE Done(w)
  /\ UNCHANGED <<registry, shells, disk, history>>

\* m.sessions[id] = s, whatever is registered there.
Register(w) ==
  LET n == job[w].new IN
  /\ job[w].at = "register"
  /\ sessions' = [sessions EXCEPT ![sidOf[n]] = n]
  /\ CASE job[w].op = "create"    -> Go(w, "addTab")
       [] job[w].op = "split"     -> Go(w, "insert")
       [] job[w].op = "closeLast" -> Go(w, "swap")
       [] job[w].op = "revive"    -> Done(w)
       [] job[w].op = "replace"   ->
            job' = [job EXCEPT ![w].made = @ \cup {n},
                               ![w].at = IF Cardinality(job[w].made) + 1 < job[w].want
                                         THEN "spawn" ELSE "swap"]
  /\ UNCHANGED <<live, layout, shells, disk, history>>

\* Mutant: the tab gets the id of the pane the handler was asked about.
AddTab_WrongId(w) ==
  LET t == job[w].tab IN
  /\ job[w].at = "addTab"
  /\ live' = live \cup {t}
  /\ layout' = [layout EXCEPT ![t] = {job[w].sid}]
  /\ Done(w)
  /\ UNCHANGED <<sessions, shells, disk, history>>

AddTab(w) ==
  LET t == job[w].tab IN
  /\ job[w].at = "addTab"
  /\ live' = live \cup {t}
  /\ layout' = [layout EXCEPT ![t] = {job[w].new}]
  /\ Done(w)
  /\ UNCHANGED <<sessions, shells, disk, history>>

\* splitLayoutNode on the tab looked up before, which may be deleted by now;
\* a pane that is gone takes the new session with it.
Insert(w) ==
  LET t == job[w].tab IN
  /\ job[w].at = "insert"
  /\ IF job[w].sid \in layout[t]
     THEN layout' = [layout EXCEPT ![t] = @ \cup {job[w].new}] /\ Go(w, "save")
     ELSE /\ job' = [job EXCEPT ![w].todo = {job[w].new}, ![w].at = "rollback"]
          /\ UNCHANGED layout
  /\ UNCHANGED <<sessions, live, shells, disk, history>>

\* The layout is overwritten by the one made from an earlier look at it.
Swap(w) ==
  LET t == job[w].tab IN
  /\ job[w].at = "swap"
  /\ layout' = [layout EXCEPT ![t] = IF job[w].op = "replace" THEN job[w].made ELSE {job[w].new}]
  /\ job' = [job EXCEPT ![w].at = "purge",
                        ![w].todo = IF job[w].op = "replace" THEN @ ELSE {job[w].sid}]
  /\ UNCHANGED <<sessions, live, shells, disk, history>>

\* closePaneInLayout cannot remove the root pane.
Unlink(w) ==
  LET t == job[w].tab
      s == job[w].sid IN
  /\ job[w].at = "unlink"
  /\ IF s \in layout[t] /\ layout[t] # {s}
     THEN /\ layout' = [layout EXCEPT ![t] = @ \ {s}]
          /\ job' = [job EXCEPT ![w].todo = {s}, ![w].at = "purge"]
     ELSE Done(w) /\ UNCHANGED layout
  /\ UNCHANGED <<sessions, live, shells, disk, history>>

\* replaceAllSessions copies the layout without the lock, ...
CopyLayout(w) ==
  /\ job[w].at = "copy"
  /\ job' = [job EXCEPT ![w].want = Cardinality(layout[job[w].tab]), ![w].at = "olds"]
  /\ UNCHANGED <<registry, shells, disk, history>>

\* ... and the sessions to delete are read after it.
CollectOld(w) ==
  /\ job[w].at = "olds"
  /\ job' = [job EXCEPT ![w].todo = layout[job[w].tab], ![w].at = "spawn"]
  /\ UNCHANGED <<registry, shells, disk, history>>

\* DeleteTab reads the deleted tab's sessions without the lock.
Collect(w) ==
  /\ job[w].at = "collect"
  /\ job' = [job EXCEPT ![w].todo = layout[job[w].tab], ![w].at = "purge"]
  /\ UNCHANGED <<registry, shells, disk, history>>

\* Mutant: the shell of a deleted session is not killed.
Purge_NoKill(w, s) ==
  /\ job[w].at \in {"purge", "rollback"} /\ job[w].kill = None /\ s \in job[w].todo
  /\ sessions' = [sessions EXCEPT ![s] = None]
  /\ job' = [job EXCEPT ![w].todo = @ \ {s}]
  /\ UNCHANGED <<live, layout, shells, disk, history>>

\* DeleteSession for the next one: out of the registry, under the lock, ...
Purge(w, s) ==
  /\ job[w].at \in {"purge", "rollback"} /\ job[w].kill = None /\ s \in job[w].todo
  /\ sessions' = [sessions EXCEPT ![s] = None]
  /\ job' = [job EXCEPT ![w].todo = @ \ {s}, ![w].kill = sessions[s]]
  /\ UNCHANGED <<live, layout, shells, disk, history>>

\* ... and Kill, if it is alive, outside it.
Kill(w) ==
  /\ job[w].kill # None
  /\ alive' = [alive EXCEPT ![job[w].kill] = FALSE]
  /\ job' = [job EXCEPT ![w].kill = None]
  /\ UNCHANGED <<registry, spawned, sidOf, disk, history>>

\* Mutant: the operation returns without SaveState.
Purged_NoSave(w) ==
  /\ job[w].kill = None /\ job[w].todo = {}
  /\ job[w].at \in {"purge", "rollback"} /\ Done(w)
  /\ UNCHANGED <<registry, shells, disk, history>>

Purged(w) ==
  /\ job[w].kill = None /\ job[w].todo = {}
  /\ \/ job[w].at = "purge" /\ Go(w, "save")
     \/ job[w].at = "rollback" /\ Done(w)
  /\ UNCHANGED <<registry, shells, disk, history>>

\* SaveState copies the maps under the lock ...
Capture(w) ==
  /\ job[w].at = "save"
  /\ job' = [job EXCEPT ![w].tabs = live, ![w].at = "write"]
  /\ saveRaced' = (saveRaced \/ \E v \in Workers : job[v].at = "write")
  /\ UNCHANGED <<registry, shells, disk, byHand, overlapped>>

\* ... and marshals the tabs they point to, and writes the file, without it.
WriteState(w) ==
  /\ job[w].at = "write"
  /\ disk' = [t \in Tabs |-> IF t \in job[w].tabs THEN layout[t] ELSE None]
  /\ Done(w)
  /\ UNCHANGED <<registry, shells, history>>

\* A shell ends by itself (readPump).
ShellExit(n) ==
  /\ alive[n]
  /\ alive' = [alive EXCEPT ![n] = FALSE]
  /\ UNCHANGED <<registry, spawned, sidOf, job, disk, history>>

-----------------------------------------------------------------------------
BeginStep(w) ==
  \/ SaveState(w)
  \/ \E t \in Tabs : CreateTab(w, t) \/ ReplaceTabSessions(w, t) \/ DeleteTab(w, t)
  \/ \E t \in Tabs, s \in Ids : SplitPane(w, t, s) \/ ClosePane(w, t, s) \/ AttachSession(w, t, s)
  \/ \E s \in Ids : DeleteSession(w, s)

WorkStep(w) ==
  \/ CheckDead(w) \/ Spawn(w) \/ SpawnFails(w) \/ Register(w) \/ AddTab(w)
  \/ Insert(w) \/ Swap(w) \/ Unlink(w) \/ CopyLayout(w) \/ CollectOld(w) \/ Collect(w)
  \/ (\E s \in Ids : Purge(w, s)) \/ Kill(w) \/ Purged(w)
  \/ Capture(w) \/ WriteState(w)

Next ==
  \/ \E w \in Workers : BeginStep(w) \/ WorkStep(w)
  \/ \E n \in Shells : ShellExit(n)

Spec == Init /\ [][Next]_vars

-----------------------------------------------------------------------------
Ops == {"none", "create", "split", "close", "closeLast", "replace", "delete", "deleteSession", "revive", "save"}
Places == {"idle", "check", "spawn", "register", "addTab", "insert", "swap", "unlink",
           "copy", "olds", "collect", "purge", "rollback", "save", "write"}
Jobs == [op : Ops, at : Places, tab : Tabs \cup {None}, sid : Ids \cup {None}, new : Shells \cup {None},
         want : Nat, made : SUBSET Ids, todo : SUBSET Ids, kill : Shells \cup {None},
         tabs : SUBSET Tabs]

\* The type of every variable.
TypeOK ==
  /\ sessions \in [Ids -> Shells \cup {None}]
  /\ live \subseteq Tabs /\ layout \in [Tabs -> SUBSET Ids]
  /\ spawned \in 0 .. MaxShells /\ alive \in [Shells -> BOOLEAN] /\ sidOf \in [Shells -> Ids]
  /\ job \in [Workers -> Jobs]
  /\ disk \in [Tabs -> (SUBSET Ids) \cup {None}]
  /\ byHand \subseteq Ids /\ overlapped \in BOOLEAN /\ saveRaced \in BOOLEAN

AllIdle == \A w \in Workers : ~Busy(w)

\* Every pane of a tab shows a registered session, at any moment and however
\* the operations overlap, unless the session was deleted by hand: sessions
\* are registered before they enter a layout and leave it before they are
\* deleted (CreateTab, SplitPane, ClosePane, ReplaceTabSessions).
NoDanglingPane == Panes \subseteq Registered \cup byHand

\* Why no pane dangles.  Ids come from starting shells; ...
Spawned == 1 .. spawned
IdInv ==
  /\ Registered \subseteq Spawned /\ \A t \in Tabs : layout[t] \subseteq Spawned
  /\ \A n \in Shells : IF n \in Spawned THEN sidOf[n] \in Spawned ELSE sidOf[n] = n
  /\ \A w \in Workers : /\ job[w].made \cup job[w].todo \subseteq Spawned
                        /\ job[w].sid \in Spawned \cup {None} /\ job[w].new \in Spawned \cup {None}

\* ... every operation has its steps, ...
StepsOf(op) ==
  [none |-> {"idle"}, create |-> {"spawn", "register", "addTab"},
   split |-> {"spawn", "register", "insert", "rollback", "save", "write"},
   close |-> {"unlink", "purge", "save", "write"},
   closeLast |-> {"spawn", "register", "swap", "purge", "save", "write"},
   replace |-> {"copy", "olds", "spawn", "register", "swap", "rollback", "purge", "save", "write"},
   delete |-> {"collect", "purge", "save", "write"}, deleteSession |-> {"purge", "save", "write"},
   revive |-> {"check", "spawn", "register"}, save |-> {"save", "write"}][op]
PlaceInv ==
  \A w \in Workers :
    /\ job[w].at \in StepsOf(job[w].op)
    /\ job[w].at \in {"register", "addTab", "insert", "swap"} => job[w].new # None
    /\ job[w].op \in {"split", "close", "closeLast", "revive"} => job[w].sid # None
    /\ job[w].op \in {"none", "save", "deleteSession"} <=> job[w].tab = None
    /\ job[w].op # "replace" \/ job[w].at \in {"copy", "olds"} => job[w].made = {}

\* ... what it made and nobody else knows, and what it was told of or is to delete:
InHand(w) ==
  IF job[w].op # "revive" /\ job[w].at \in {"register", "addTab", "insert", "swap"}
  THEN {job[w].new} ELSE {}
Made(w) == IF job[w].at \in {"spawn", "register", "swap"} THEN job[w].made ELSE {}
Fresh(w) == InHand(w) \cup Made(w)
Old(w) == IF job[w].op = "deleteSession" THEN {} ELSE job[w].todo \cup ({job[w].sid} \ {None})

\* what is fresh is in no layout, in one hand only, and told to nobody; all of it
\* but a shell about to be registered is registered;
FreshInv ==
  /\ \A w \in Workers : \A n \in InHand(w) : sidOf[n] = n
  /\ \A w \in Workers, t \in Tabs : Fresh(w) \cap layout[t] = {}
  /\ \A v, w \in Workers : v # w => Fresh(v) \cap Fresh(w) = {}
  /\ \A v, w \in Workers : Old(v) \cap Fresh(w) = {}
  /\ \A w \in Workers : /\ Made(w) \subseteq Registered \cup byHand
                        /\ job[w].at # "register" => InHand(w) \subseteq Registered \cup byHand

\* a session belongs to one tab; what is about to be deleted has left it, or was
\* asked for by hand.
HomeInv ==
  /\ \A t, u \in Tabs : t # u => layout[t] \cap layout[u] = {}
  /\ \A w \in Workers, u \in Tabs : u # job[w].tab => Old(w) \cap layout[u] = {}
DoomInv ==
  \A w \in Workers :
    /\ job[w].at \in {"purge", "rollback"} => job[w].todo \subseteq byHand \/ job[w].todo \cap Panes = {}
    /\ job[w].op = "deleteSession" => job[w].todo \subseteq byHand

\* A tab being created is nobody else's, and a deleted one does not come back.
TabInv ==
  \A w \in Workers :
    /\ job[w].op = "create" => /\ job[w].tab \notin live /\ layout[job[w].tab] = {}
                               /\ \A v \in Workers \ {w} : job[v].tab # job[w].tab
    /\ job[w].op = "delete" => job[w].tab \notin live

IInv ==
  TypeOK /\ IdInv /\ PlaceInv /\ FreshInv /\ HomeInv /\ DoomInv /\ TabInv /\ NoDanglingPane

\* Once the handlers are through, every registered session is in some tab,
\* if no two of them worked on one tab at the same time: failed spawns, lost
\* panes, replaced and deleted tabs leave no session behind ("Sessions cannot
\* exist without a tab").
NoOrphanUnlessOverlapped == AllIdle /\ ~overlapped /\ byHand = {} => Registered \subseteq Panes

\* A shell that runs is registered or in the hands of a handler, so that it
\* can be reached and killed, if no two operations on its tab overlapped.
ShellIsReachable ==
  ~overlapped /\ byHand = {} => \A n \in Shells : alive[n] =>
    \/ sessions[sidOf[n]] = n
    \/ \E w \in Workers : (job[w].at = "register" /\ job[w].new = n) \/ job[w].kill = n

\* Once the handlers are through, state.json has the layout of every tab, but
\* for a tab created since (CreateTab does not save), and no deleted tab, if
\* no two saves overlapped (SaveState writes after it released the lock).  Writes
\* succeed here: what a failed one leaves is Persistence's.
Right(t) == IF t \in live THEN disk[t] \in {layout[t], None} ELSE disk[t] = None
DiskIsCurrentUnlessRaced == AllIdle /\ ~saveRaced => \A t \in Tabs : Right(t)

-----------------------------------------------------------------------------
(* Why nothing is left behind. *)

\* A registered shell runs under its id; what is about to be registered replaces
\* nothing but the dead shell it revives; a shell is being killed by a deletion.
ShellInv ==
  /\ \A s \in Registered : sessions[s] \in Spawned /\ sidOf[sessions[s]] = s
  /\ \A n \in Shells : alive[n] => n \in Spawned
  /\ \A w \in Workers :
       /\ job[w].kill # None => job[w].at \in {"purge", "rollback"}
       /\ job[w].at = "register" => IF job[w].op = "revive" THEN sidOf[job[w].new] = job[w].sid
                                                            ELSE sessions[job[w].new] = None
       /\ job[w].op = "deleteSession" => byHand # {}

\* Without overlap a handler has its tab to itself: it is live until the handler
\* deletes it, and its layout is what the handler saw.
Quiet == ~overlapped /\ byHand = {}
Sees(w) ==
  /\ job[w].op \in {"split", "close", "closeLast", "replace", "revive"} => job[w].tab \in live
  /\ job[w].at \in {"spawn", "register", "swap"} =>
       /\ job[w].op = "closeLast" => layout[job[w].tab] = {job[w].sid}
       /\ job[w].op = "replace" => layout[job[w].tab] = job[w].todo
  /\ job[w].op = "revive" =>
       /\ job[w].sid \in layout[job[w].tab]
       /\ job[w].at \in {"spawn", "register"} => ~alive[sessions[job[w].sid]]
SoleInv ==
  Quiet => /\ \A v, w \in Workers : v # w => job[v].tab # job[w].tab \/ job[v].tab = None
           /\ \A w \in Workers : Sees(w)

\* Every registered session is in a tab, or a handler is about to put it into one
\* or to delete it.
Hand(w) ==
  Made(w) \cup
  (IF job[w].at \in {"addTab", "insert"} \/ (job[w].op = "closeLast" /\ job[w].at = "swap")
   THEN {job[w].new} ELSE {}) \cup
  (IF job[w].at \in {"purge", "rollback"} THEN job[w].todo ELSE {}) \cup
  (IF job[w].at = "collect" THEN layout[job[w].tab] ELSE {})
KeptInv == Quiet => Registered \subseteq Panes \cup UNION {Hand(w) : w \in Workers}

\* What state.json lacks, somebody is about to save; a save under way has no
\* deleted tab, or another save will follow it.
WillSave(w) == job[w].at \in {"collect", "purge", "save"}
DiskInv ==
  ~saveRaced =>
    /\ \A v, w \in Workers : job[v].at = "write" /\ job[w].at = "write" => v = w
    /\ (\A t \in Tabs : Right(t)) \/ \E w \in Workers : WillSave(w) \/ job[w].at = "write"
    /\ \A w \in Workers : job[w].at = "write" =>
         job[w].tabs \subseteq live \/ \E v \in Workers : WillSave(v)

FullInv ==
  IInv /\ ShellInv /\ SoleInv /\ ShellIsReachable /\ KeptInv /\ DiskInv
=============================================================================
