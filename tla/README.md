# termulaa: a verification development

termulaa serves terminals to browsers: a Go server (`src/src/cmd/termulaa`) keeps shells
on PTYs and streams them over WebSockets, arranges them in tabs that one browser window
owns at a time, survives restarts and updates, and can be reached from elsewhere through
a tunnel agent. An Android app watches several such machines. This directory holds TLA+
models of that code, TLC runs that check them on small instances, and TLAPS proofs that
hold for every value of the constants. Paths below are relative to the directory that
contains `src/`; the repository root is `src/`.

## 1. Inventory

| Component | Where | State it keeps | Operations | Talks to |
|---|---|---|---|---|
| Scrollback ring | `session.go` RingBuffer | byte slots, `pos`, `full` | Write, ReadAll, Len, SaveTo, LoadFrom | written by the PTY reader, saved by SaveState |
| Output fan-out | `session.go` Session, wsClient | client list, `outMu`, per-client queue, `notify`, `overflow`, `done` | readPump, Broadcast, AttachClient, DetachClient, writePump | one reader, per client a handler, a joining goroutine and a writePump |
| Tab ownership | `handler.go` handleTabWS, `manager.go` | `tabClients` per tab, tokens | resume, conflict prompt, takeover, new, register, unregister, CanAttachSession | pages (tab and pane sockets), DeleteTab, sessions' client lists |
| Registry | `manager.go` | `sessions`, `tabs`, layouts | CreateTab, SplitPane, ClosePane, ReplaceTabSessions, DeleteTab, DeleteSession, ReviveSession | handlers of HTTP requests and of both WebSockets |
| Layout tree | `tabs.go` | the tree of panes of a tab | split, close (promote sibling), replace all, match a session set | registry, browser page |
| Persistence | `manager.go`, `main.go` | `state.json`, scrollback files | SaveState, LoadState, Adopt, HandoffFiles, Pause, Stop | every mutating operation, a 5 s ticker, the updater |
| Shell process | `session.go` NewSession, Kill, Resize | PTY, pid, size, alive | start, input, resize, kill, exit | PTY reader |
| Terminal emulator | `src/src/internal/vterm` | screens, cursor, margins, scrollback, parser state | Write, Resize, Snapshot | PTY reader, joins |
| Tunnel agent | `tunnel.go`, `wsconn.go` | a pool of tunnels under one context, backoff | dial, register, serve streams, end when refused or superseded | rendezvous server, local server |
| Browser page | `ui/app.js` | panes, owner token, timers | connect, resume, split, close, ping, takeover banner | both WebSockets |
| Android app | `src/android/app/src/main` | stored machines, seen and notified stamps | periodic check, watch service, diff, notify | the rendezvous server's API |
| Configuration, installer | `main.go`, `install.sh` | config file | flags | |

**Interaction.** A page opens `/ws/tab/{id}`; the handler resumes its registration, or
finds the tab free, or asks the user. The registered page holds a token, and opens one
`/ws/session/{id}` per pane with it. A pane's handler checks the token under the
manager's lock, revives a dead session, upgrades, waits for the first resize and joins the
session's client list under `outMu`, receiving a snapshot of the emulator. From then on the
PTY reader queues every chunk for every client and each client's writePump drains its own
queue. Splits and closes arrive on the tab socket, change the registry in several critical
sections with slow work between them, and save the state.

**What is hard.** Nearly every operation takes the manager's lock several times and does
its slow work between: what it looked up may be gone when it comes back. A goroutine per
connection and per client, two locks per session, a one-slot wake-up channel, `select`s
that choose freely between a queue and the end of the shell. Connections that are dead for
one side and alive for the other. Files written without a lock, and processes that end
between two writes. PROJECT.json lists each of these hazards at its line.

**What makes each component correct.** The ring: it returns an unbroken, newest run. The
fan-out: no gap and no repeat on any screen, no lost wake-up, a slow client is
disconnected, an exit is announced. Ownership: one owner, tokens that mean what they say,
nobody stuck and nobody left behind. The registry: every pane has a session and every
session a pane, no unreachable shell. Persistence: what a restart brings back is what was
there, and the shells go on. The emulator: a snapshot rebuilds the screen. The tunnel
agent: its pool is up or ended as a whole, and contenders do not end each other to the
last.

## 2. Modules

| Module | Models | Proofs |
|---|---|---|
| `RingBuffer` | the scrollback ring and its file | `SessionStreamProofs` |
| `OutputFeed` | abstract: what a session promises its viewers | |
| `SessionStream` | the goroutines of the output path; implements `OutputFeed` | `SessionStreamProofs` |
| `TabOwnership` | handshake, resume, takeover, deletion, panes of an owner | `TabOwnershipProofs` |
| `SessionRegistry` | the manager's operations on sessions, tabs and layouts, and SaveState | `SessionRegistryProofs` |
| `LayoutTree` | the tree functions of `tabs.go` and of the page | `LayoutTreeProofs` |
| `LayoutSync` | the page's and the server's layout, the commands and broadcasts between them | `LayoutSyncProofs` |
| `Persistence` | state.json, scrollback files, restarts, crashes, the clean-up | `PersistenceProofs` |
| `Screen` | the emulator's operations (`term.go`), as operators | `TerminalProofs` |
| `Terminal` | dispatch of a program's output, resizes, `Snapshot` | `TerminalProofs` |
| `TunnelPool` | the agent's tunnels, its rivals and the rendezvous | `TunnelPoolProofs` |
| `MC...` | model values, symmetry and small instances for TLC | |

The map in PROJECT.json gives, for every definition that stands for code, its lines.

### RingBuffer
A byte is its offset in the output, so the ring's content says which bytes are there and in
which order. Each method is one step, as it runs under `r.mu`. The three branches of Write
are `WriteTail`, `WriteFits` and `WriteWraps`. `NewRingBuffer` is a server start: the file
stays. `first` and `total` are history. Its definitions are named `Ring...` so that the ring
and the session can be used in one module.

### SessionStream and OutputFeed
`reader` walks through readPump: PTY read, `outMu`, scrollback and terminal, the copy of
the client list, one `QueueBinary` per client, unlock; then Alive, then `close(done)`. A
connection has a handler (`handler`), a joining goroutine (`join`) and a writePump
(`pump`), which interleave freely. Output is counted in chunks; the terminal's state is the
number of chunks written to it, a snapshot carries that number, and a browser shows the
chunks `1..view`, or a `Fragment` when it was given a chunk that does not continue what it
shows. Coalescing into bigger messages is left out: it keeps order and bytes. `OutputFeed`
says what the comments promise: a viewer's screen starts blank, may jump once to a
snapshot, then grows one chunk at a time, and is never ahead of the shell; after the exit
of the shell it may be left with a fragment, as the code does. `FeedSpec` is that
specification with `Viewers <- Clients` and `ended <- exited`, checked as a property and
proved as a theorem.

### TabOwnership
`hs[c]` is where the handler of tab connection `c` is; each critical section of `m.mu` is
an action, and so is each thing done between two of them (closing the old connection after
a resume; telling and closing the evicted owners one by one; sweeping their panes). The
page's side (`current`, `known`, `takenOver`) is apart from the server's (`up`): either may
learn of a lost connection late or never. `Replace` stands for ReplaceTabSessions, which
SessionRegistry models. `raced`, `swept` and `missed` are history: two handshakes between
check and registration; tokens whose panes were closed; panes past authorisation and not
attached at that moment.

### SessionRegistry
Two handlers run any of the operations, split at the locks: `job[w].at` is the place,
the rest of `job[w]` its local variables. A layout is the set of its panes' sessions, since
the operations find, add and remove panes by session. A `*Tab` stays reachable for a
handler that looked it up before it was deleted, so `layout` is kept for tabs that are not
`live`. A shell is numbered by its start; `sidOf` is the session id it was started for.
Of `state.json`, `disk` keeps the layouts of the tabs in it; the sessions in it are
Persistence's. `byHand`, `overlapped` and `saveRaced` are history.

### LayoutTree and LayoutSync
The server's tree is a record with two subtrees, edited by the recursive functions of
`tabs.go`; the page's is the set of its nodes with their positions, since the page finds an
element's parent and rewires it. The two formulations are independent, so that an
undisturbed page having the server's tree says that both are right. `ReconstructLayout` and
`SerializeTree` convert between them. A tree has at most `MaxSessions` levels (`Level`,
`Layouts`), which is enough for as many panes as there are sessions and makes the recursive
functions functions on a set. A connection has a queue each way; a handler reads a
command, does it in one or two steps (the check, then the edit under the lock after the new
shell was started) and broadcasts later, so that it may do so after its connection is gone.
Taking ownership is one step here, unlike in TabOwnership. `phase` is what a page does with
a message: `first` waits for the greeting, `prompted` has answered the conflict prompt,
`deaf` has taken another message for the first one. `stale` and `unsynced` are history: a
change was lost for a page, came twice or came out of order; a ratio one side may not have.

### Persistence
`phase` follows the process: down, loaded, up, and the main goroutine's ways out, a stop
(`exiting`) or an in-place restart (`pausing`, `handing`, `listed`: Pause, HandoffFiles'
save, its list of PTYs, exec). Three goroutines save: the ticker, a request handler and
the main one; each goes through SaveState in the steps a crash or another goroutine can
come between: the capture under the lock, which takes the sessions' metadata and the tabs'
pointers (`Capture`); MarshalIndent, which reads the tabs and their layouts after the lock
was released, with the truncation by os.WriteFile (`Open`); the write (`Write`), which may
mix with another's, or fail (`WriteFails`: a file that was not opened stays as it is, one
that was holds a part or nothing). One request at a time changes a tab, in the order of
the manager's methods: sessions begin one by one (`BeginSession`, or `SpawnFails` and those
begun are deleted), the layout is set, the old ones are deleted and their shells killed,
the state is saved, the request is answered. Splits, closes and replacements differ in how
many sessions are new and old. Requests that overlap are SessionRegistry's. Ids are named
after the tab they are made for, and a layout is the set of its panes' sessions. A crash is
possible at any moment, and ends every shell (`running`) but those handed over. LoadState
applies the clean-up window to tabs and sessions by their own `LastActive`, which is `new`
or `old` (`DaysPass`). Adopt gives the handed PTYs to the sessions that were loaded and
closes the others. What a scrollback file holds is RingBuffer's. `cut`, `missed`, `late`,
`aged` and `gone` are history.

### Screen and Terminal
A terminal is a record: two screens of rows of cells, scrollback, cursor with its pending
wrap, region, saved cursor, pen, modes, charsets. Every operation of `term.go` is an
operator of `Screen` from a terminal to a terminal: printing with wide characters, combining
marks and wrapping, line feeds and scrolling regions, erasing, inserting and deleting,
tabs, the alternate screen, and the resize of either screen. `Terminal` dispatches
sequences to them as `dispatch.go` does, and translates `Snapshot`: the sequences an
attaching client is sent, which `Feed` reads into a new terminal of the same size with
the same operators. A character is one of a few, of width 1, 2 or 0; a rendition is plain,
ink (dropped by an erase) or paper (kept). The snapshot is judged by the emulator's own
rules, which is what its comment promises; how another terminal (the page's) differs from
them is not modelled. `ok` is FALSE when the code would panic with an index out of range,
which TypeOK allows only on a one-column screen. A stream is a sequence of `Tokens`; the
parameters of most functions are counts, which `param` makes 1 when they are 0 or absent.
`TerminalsOf(w, h)` is the set of well-formed terminals of a size, the Go structs with what
the code relies on: cursors and saved cursors on the screen, margins in order, every row of
`w` cells, a scrollback no longer than its limit and none behind the alternate screen.

### TunnelPool
`tunnel[<<a, s>>]` is where the goroutine of process `a`'s slot `s` is: waiting out its
backoff, dialling, answered, up, ended; `why` is what is on its way to it. The tunnels of a
process share a context whose first cause (`cause`) ends them all. The rendezvous is not in
the repository; `Refuse`, `Pass`, `Admit`, `Reap` and `Revoke` are modelled from
`src/docs/rc-protocol.md` section 8 and from what `tunnel.go` expects of it. It checks a
handshake (`Refuse`, or `Pass`, after which it is in `passed`) and registers it (`Admit`) in
two steps, so that two handshakes may pass together and the later displace the other, as
the last paragraph of section 8.1 describes. A request whose sender has gone still
registers; the network loses connections in any place; a process may be signalled or
killed. A restarted agent is another process, with another instance id. `admitted`,
`crossed` and `collided` are history.

## 3. Runs

| Run | Instance | Shows |
|---|---|---|
| `ring_buffer` | 4 slots, writes up to 6, files up to 6, 14 bytes | all branches of Write and LoadFrom at every `pos`; the ring is read back in order, and forgets only by an exact fill |
| `session_stream` | 2 clients, 3 chunks, backlog 2 | inductive invariant, no hole while running, no lost wake-up, implements OutputFeed |
| `session_stream_live` | 1 client, 5 chunks, backlog 2 | a client catches up or is disconnected; exit is announced |
| `tab_ownership` | 2 pages, 3 tab connections, the deletion | inductive invariant, one owner unless raced, the displaced are being closed, rightful revocation |
| `tab_ownership_panes` | 2 pages with a tab connection each, 1 pane, fairness | a takeover closes the old owner's attached pane; ownership is released, the displaced are closed |
| `session_registry` | 2 handlers, 1 tab, 3 shells, every operation | inductive invariant, no dangling pane; without overlap no orphan and no unreachable shell; the file current unless saves raced |
| `layout_sync` | 2 connections, of one page or two; 4 commands, 3 sessions | the page's tree is the server's; an accepted layout takes nothing back |
| `terminal` | 3x3, 3x2, 1x3 and 1x2 screens, 11 preludes, 2 writes, 2 resizes | inductive type, the snapshot rebuilds the terminal, prints keep wide characters whole, a change of height loses no line |
| `terminal_alt_paint` | a 3x2 screen, 8 writes | finding: the alternate screen is repainted from the main cursor's column |
| `persistence` | 1 tab, 2 sessions, saves that fail or overlap, crashes, restarts, clean-up, fairness | inductive invariant; what the disk and the PTYs bring back, also of panes changed between a save's capture and its marshalling; a new tab is saved |
| `persistence_update` | 1 tab, 1 session, the same | finding: an update ends the shell of a tab beyond the clean-up window |
| `tunnel_pool` | 2 agents with 2 tunnels each, 1 trouble, fairness | inductive invariant; only rivals end an agent, one survives, every agent settles |

**Bounds.** Two clients of one session are enough for their interplay, which is only
through `outMu` and the list; three chunks with a backlog of two reach overflow while a
snapshot is queued. Three tab connections let a page lose its connection and return while
another page opens the tab, the smallest instance with resume and takeover together. Two
handlers give every overlap of two operations; three shells let a tab be split and closed
again, a one-pane tab be replaced whole and a two-pane one be replaced half-way and rolled
back. Two connections are a page and its resumption, or two pages with one tab; three sessions
and four commands reach a tree of three panes, the promotion of a subtree while other
commands are under way, and a layout of as many panes as the tree has but not the same ones;
what more sessions and commands do is proved (section 4). Every split has the same direction
there, since nothing depends on it.
Three columns are the narrowest screen on which a wide character can be first, middle and
last; the preludes put the run behind what takes many writes (scrollback, wrapped and wide
rows, the alternate screen, a region in origin mode, a full scrollback, insert mode), two
writes combine every operation with every other after that, and two resizes bring back on
one size what was put away on another. One tab is enough for Persistence, where tabs meet
only in state.json, which is read and written whole; two stamps are all LoadState tells
apart. An id is used once, so that one session of the tab comes and goes, and a second is a
pane split, closed or replaced while a save is under way. The constraint `Bounds` of
MCPersistence lets two of the three goroutines save at a time before there is a second
session, which is what it takes to overlap, and one with it, which is what it takes to read
a layout late; the clean-up window passes only before. States beyond are not explored, so that
`TabIsSaved` is checked of the behaviours within. Nothing of this bounds the proofs.
Two agents are a rivalry, two tunnels a pool of which one passes while the other is refused,
and one trouble (a connection lost, a process signalled or killed) a redial while the
rendezvous still holds the dead tunnel. A tunnel has at most one request on its way or one
that has passed: it dials again only when the latter is over.
`MaxShells`, `MaxChunks`, `MaxTotal`, `MaxReplace`, `MaxSessions`, `MaxCommands`,
`MaxWrites`, `MaxResizes` and `MaxTroubles` are the only caps on counters, each in one guard.
Deadlock is checked for the ring; the other systems may stop (no more requests, connections
used up, every agent ended), and their cfgs say `CHECK_DEADLOCK FALSE`.

**Fairness.** `SessionStream`: a goroutine that can run does (WF); a join waiting for
`outMu` gets it (SF), as Go's mutexes hand over to a long waiter; a blocked write ends
because the pump is the only one that pings, so the read deadline cuts the connection.
`TabOwnership`: handlers go on (WF); a connection its page gave up stops answering pings
and the deadline ends it; nothing is assumed of users or the network. `Persistence`: the
ticker ticks, a save under way goes on, and the main goroutine finishes a stop or a restart
it began (WF); nothing makes the server start, stop or crash. A write that fails is a step
of a save too: that a new tab is saved (`TabIsSaved`) is claimed where writes do not fail for
ever, which is the premise of the property. `TunnelPool`: the tunnels'
goroutines run, requests and answers arrive, and either end notices a dead connection,
which the keepalive sees to within 30 s (WF). Requests, exits and output may never come.
The other modules have no liveness property and no fairness.

**Violation runs** state what a comment or a document of the repository says and the code
does not do; each is a finding in PROJECT.json with the quoted line: the alternate screen
in a snapshot, and the clean-up at an update.

**Known races.** Several promises hold only as long as two steps do not overlap, because
the code checks under a lock and acts after it. Such a promise is stated with the overlap
named in a history variable, so that the property says exactly how far it goes:

| Property | Holds unless | Since |
|---|---|---|
| `OneOwnerUnlessRaced` | two handshakes are between the check and the registration together (`raced`): then two windows own the tab | the prompt is answered without the lock |
| `NoHoleWhileRunning` | the shell exited (`exited`): the pump may then drop a queued snapshot and send a later chunk | `select` chooses between the queue and `done` |
| `TakeoverClosesPanes` | the pane was authorised and not attached (`missed`; `manager.go:704`), or its token was replaced by a resume | only attached panes of the evicted tokens are closed |
| `NoOrphanUnlessOverlapped`, `ShellIsReachable` | two operations on one tab overlapped (`overlapped`): a split that inserts into a deleted tab, or two revivals of one session, of which the second replaces the first's live shell (`manager.go:546`) | lookups are not repeated after the slow work |
| `PageShowsLayout` | a broadcast was lost, came twice or out of order (`stale`), a ratio was rejected or not sent (`unsynced`), or it came before the greeting, after which the page is deaf (`handler.go:365`) | a page that reconnects ignores the layout it is sent; rejections are not reported |
| `DiskIsCurrentUnlessRaced` | two saves overlapped (`saveRaced`): the older may be written last | the file is written without the lock |
| `ReadableUnlessCut`, `DeletedStaysDeletedUnlessCut` | the process ended within a write, a write failed (`manager.go:301`), or two writes overlapped (`cut`): LoadState finds no JSON, or an old one | state.json is truncated and written in place, and an error is only logged |
| `PanesHaveSessionsUnlessMissed` | the clean-up dropped a session whose tab was used since (`aged`); or the session was begun between a save's capture and its marshalling, and no later save ended well (`missed`): the tab comes back with a pane that cannot be attached | LoadState judges a tab and its session by their own times; SaveState reads the layouts after it released the lock |
| `RestartKeepsShells` | the session was begun or deleted after HandoffFiles' save (`late`), or is `aged`, or the file was `cut` | HandoffFiles lists the PTYs after it saved |
| `OneSurvivesUnlessRaced` | two agents have `-rc-takeover`, which is sent on every redial (`tunnel.go:397`), so that each can end the other; or two handshakes passed the check together and the later displaced the other's pool (`collided`); or a dead tunnel left the pool while a refusal, or another dial of the process refused, was on its way (`crossed`) | one refused tunnel ends the whole agent (`tunnel.go:352`), another of its tunnels may be registered meanwhile |

**Other behaviour a reader of the code may not expect**, met while modelling:

- The comment at `manager.go:267` says that SaveState persists all session metadata and tab
  data. A pane split while another goroutine's save is between the lock and MarshalIndent is
  in that file without its session, until the next save (`missed`).
- `rc-protocol.md` says at the end of section 8.1 that any collision of two agents converges
  to exactly one. When agents `a` and `b` have both passed the check with one tunnel, `b`
  registers, a second tunnel of `a` is refused for it, and then `a`'s first registers and
  displaces `b`'s pool: `b` ends as superseded, and `a` on the refusal (`collided`).
- A write that ends exactly at the ring's end leaves `pos` 0 and `full` unset, so that the
  ring reports nothing until more is written (`session.go:67`); `ShrinksOnlyByExactFill`
  says that nothing else ever makes it shrink.
- The joining goroutine may attach a client after the handler's deferred DetachClient
  (`handler.go:525`): it stays in the list until the session ends.
- Stop's comment says that it saves and kills (`manager.go:324`); it kills first, and
  SaveState writes the scrollback of sessions alive only, so that what was printed since
  the last save is not kept by a clean stop.
- A wide character printed on a one-column screen panics (`ok` in TypeOK).
- A screen made narrower and then higher takes lines back from the scrollback cut to its
  new width (`fitted`, `term.go:285`): what was beyond it is lost, also when the screen gets
  wide again. HeightChangeKeepsLines names this case.
- `Snapshot` does not reproduce every state; `Reproducible` names the exceptions: a pending
  wrap after a wide character or a blank; half of a wide character, which erasing, inserting
  and deleting cells leave; a row continued by a blank one; scrollback rows wider than the
  screen, or trimmed and continued; a background at the margin of a row when rows scroll in
  behind it; the alternate screen when the main cursor is not in the first column (the
  finding); origin mode with the cursor outside the region. Tab stops, the character REP
  repeats, the saved cursor's charset and origin mode, and the main screen's saved cursor
  under the alternate one are not in the stream at all, and not in `Visible`.
- In the Android app a check reads the table of machines, asks the network, and writes the
  table back whole (`CheckRunner.kt:50`, `:80`), so that a machine muted or forgotten
  meanwhile is as before; this is read off the code and not modelled.

## 4. Proofs

Every theorem holds for all values of the constants; the assumptions are the named ones on
the constants, which TLC evaluates on every run. Each rests on an inductive invariant, which
a run checks too, except where it speaks of all sequences, functions or histories
(RingInv, and LayoutSync's).

`SessionStreamProofs` proves of the ring, for every capacity and bounds, that the slots hold
the newest bytes in order (`RingInvariant`): slot `i` before `pos` holds the byte `pos - i`
from the end, slot `i` after it, when full, the byte `pos + Cap - i` from the end. Type
correctness and `ReadsNewestRun` follow; `RingShrinks` is the action property `ShrinksOnlyByExactFill`.

Of the session and its watchers it proves `IInv`, from which the checked invariants follow:
`LockInv` (reader and joins exclude each other; the terminal lags the PTY by the chunk the
reader holds), `JoinInv` (nothing is queued before the join), `FrameInv` (bounds),
`RunInv` (screen, frames in flight and queue form one run of chunks, ending with what the
terminal has, for a client that is linked and has not overflowed) and `WakeInv`. `RunInv`
is the heart: NoHoleWhileRunning says nothing about what is queued and is not inductive.
`StreamImplementsFeed` maps every step to a step of OutputFeed or a stutter.

`TabOwnershipProofs` proves `IInv`: `OwnerInv` (a registered owner has a handler; without
a race at most one connection owns or is about to), `TokenInv` (a token unused so far is
held by nobody; a revoked one is never accepted again) and `PaneInv`. From it: exclusive
ownership unless raced, no zombie owner, unique tokens, panes closed by a takeover, and the
action property `TokenRevocation`.

`SessionRegistryProofs` proves `IInv` and from it `NoDanglingPane`, which is not inductive:
a handler holds ids between its critical sections. `FreshInv` says that what it made is in
no layout and in no other hand until it puts it into one; `HomeInv` that a session belongs
to one tab; `DoomInv` that what is to be deleted has left every layout, or was asked for by
hand; `TabInv` that a tab is created once; `IdInv` and `PlaceInv` keep ids and places in
order. Nothing is assumed of how handlers overlap.

The same module continues to `FullInv`. `ShellInv`: a session id is registered
over nothing, or over the shell it revives. `SoleInv`: a handler that overlapped nobody has
its tab to itself, the tab is live, its layout is what the handler saw, and the shell it
revives is dead. Then no running shell gets out of reach (`ShellIsReachable`), and every
registered session is in a tab or in the hand of a handler about to insert or delete it
(`KeptInv`), so that none is left when all are through (`NoOrphanUnlessOverlapped`).
`DiskInv`: while state.json lacks something, a worker is on its way to a save, and a save
under way has no deleted tab unless another follows; hence `DiskIsCurrentUnlessRaced`.

`PersistenceProofs` proves `IInv`: `StageInv` (what is idle in which phase, and what a
request has done so far: its new sessions are in no layout before it puts them there, those
it deletes in none any more), `UsedInv` (ids are not generated twice), `PaneInv` (panes and
sessions agree in memory, in what every save under way writes or will read, and on the disk,
but for the `Excused`: a save that is captured lacks of the sessions only those begun since),
`SaveInv` (a save that met no other finds the file as it left it), `GoneInv` (a deleted tab
is in no such save, and not on the disk unless a write was cut, failed or overlapped),
`AliveInv`, and from HandoffFiles' save to Adopt `LateInv`, `HandoffInv` and `HandedInv` (the
sessions are in every save that met no other and on the disk, and the PTYs handed over are
theirs, but for the late). The layouts are read late in all of it: `ToWrite` is what a save
will find. All safety properties of the runs follow, the two action properties among them,
for any number of tabs and sessions, with and without the clean-up.

`LayoutTreeProofs` proves what the functions of LayoutTree compute, for every tree. A split
is described by its *joint*: its direction, its ratio and the sessions on either side.
SplitLayoutNode adds a session beside the one that is split, and one joint between them
(`SplitGrows`); ClosePaneInLayout leaves of every joint what the remaining sessions need of
it (`CloseRests`); trees of distinct sessions with the same joints, or with the same
sessions in joints of one history, have the same shape. The page's own splice, promotion of
a sibling and change of a ratio, on nodes with positions, are shown to do the same
(`PageSplits`, `CloseAtSides`, `SetRatioSides`), so that the page edited in place is the page
of the edited tree; and `SerializeTree` gives back the tree that was reconstructed. Trees are
taken apart by induction on their levels (`TreeRecursion` for the recursive functions).

`LayoutSyncProofs` proves from it that pages and server agree. The invariant is `TypeInv`
(the types, with what every message and handler may hold), `ControlInv` (where pages and
handlers can be together) and `Story(H)`: there is a history `H` of joints, those that
all splits so far would have made had no pane been closed, and the server's tree is what is
left of `H` in the sessions that have a pane. So is every page's tree, in the sessions it
shows, and every message on its way tells of a split in `H` or of a close; they come in the
order of their changes (`PageOk`, `QueueOk`, `After`). A split and a close are both steps in
the same direction, which is why the order in which several pages' edits arrive does not
matter. `Exact` says of a page that owes no update that its ratios become the server's.
When everything has arrived, page and server show the same sessions and so the same tree:
`Synchronised` is `PageShowsLayout`. An update on its way fits `H` too, or shows a session
twice or one that is gone, and then UpdateTab's comparison of the sessions refuses it:
`UpdatesKeepShape` is the action property `UpdateKeepsShape`. A page that missed a change
(`stale`) is followed only as far as its updates go; once all pages are stale nothing is
claimed of them (`Calm`). `TypeCorrect` needs none of the history: it holds always.

`TunnelPoolProofs` proves `IInv`: the pool is one process's, which was admitted
(`PoolInv`); a refusal or a supersession has a rival behind it (`RivalInv`); an agent that
alone takes over is told neither (`TakerInv`); without takeovers nobody is superseded
(`PeaceInv`), the holder of the pool was refused nothing, and when the pool runs empty no
refusal is on its way (`HolderInv`), so that somebody is always left. The last three say
nothing once handshakes collided (`collided`), the first two hold through it.
`OnlyRivalsEndIt` and `OneSurvivesUnlessRaced` follow, for any number of agents, tunnels and
troubles.

`TerminalProofs` proves that `TypeOK` is inductive (`TypeCorrect`), for any set of
characters, any sizes, any limit of the scrollback and streams of any length: one lemma per
operation of `Screen` says that it takes a well-formed terminal to a well-formed one of the
same size (`Stays`), and which registers and rows it leaves alone. From it,
`PrintingIsWhole`: `Overwrite` blanks the other half of every wide character it overwrites in
part, and a row that scrolls or wraps stays whole. `HeightChangeKeepsText` is the action
property `HeightChangeKeepsLines`: line by line, `RebuiltLines` says which line of the old
screen or scrollback each line of the new one is, and `RebuiltText` that only lines without
visible text are added or dropped at the end. `Feed` and `PushRows` are functions computed
step by step over the stream and the rows. What they compute follows by induction on the
number of steps, from the fact that a set of naturals has a least element
(`LeastNatural`, by WFMin of the library): `StepsExist` and `StepsAgree` say that such a
function exists and is the only one. `Max` over columns is bounded the same way.

**Only model-checked.** Liveness under fairness (CatchesUp, OverflowDisconnects,
ExitIsAnnounced, OwnerIsReleased, DisplacedIsClosed, TabIsSaved, Settles), which the prover
does not do; and SnapshotRestores, which says of every reachable terminal what a stream of
its own making does to another one: a simulation of the snapshot's reader over each of its
parts. The violation runs are counterexamples.

## 5. Not modelled

- Of the emulator: `parser.go`'s byte parser (UTF-8 and escape sequences cut into tokens),
  titles, links, underline colours and palettes, which no property tells apart.
- Of the tunnel agent: backoff times, the streams inside a tunnel and their splices, flags,
  pairing and key files.
- Of the page: the timers of its pane connections, pings, rendering. Time as such: the read
  deadline appears as the end of a connection that no longer answers.
- Of the session: ReadReplay's trimming of the dump, the race of two resizes of one session
  (`session.go:739`), input, file drops, the polled working directory, the shell's
  environment.
- The Android app: a client of its own in Kotlin, which shares no state with the rest but
  the rendezvous server's API. Its screens are presentation; the one race in it is described
  in section 3.
- Of the registry: a save that fails. `DiskIsCurrentUnlessRaced` assumes that os.WriteFile
  succeeds; what a failed one leaves behind is Persistence's (`WriteFails`).
- Configuration, installer, static pages and the updater library: straight-line I/O, or
  code that is not in the repository.

What would come next is the race of two resizes together with a client that joins, and
Terminal's parser.
