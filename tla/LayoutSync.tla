----------------------------- MODULE LayoutSync -----------------------------
(***************************************************************************)
(* A tab's layout is kept twice, by the server and by the page that shows  *)
(* it.  The page sends commands over its tab connection (split, close_pane,*)
(* update_layout: app.js) and edits its tree when the server confirms; the *)
(* connection's handler (handler.go, handleTabWS) edits the server's tree  *)
(* and broadcasts to the registered connections.  Connections break and    *)
(* are resumed, another page may take the tab over, and a handler whose    *)
(* connection is gone finishes what it is doing.                           *)
(*                                                                         *)
(* Ownership has its own module (TabOwnership); its check and registration *)
(* are one step here.  The sessions behind the panes are SessionRegistry's.*)
(***************************************************************************)
EXTENDS LayoutTree

CONSTANTS
  Conns,       \* tab connections, each used once
  Pages,       \* browser pages that show the tab
  None,        \* no connection
  MaxCommands  \* bound: splits, closes and drags

ASSUME LayoutAssumption == None \notin Conns \cup Pages /\ MaxCommands \in Nat

VARIABLES
  tree,     \* Tab.Layout
  made,     \* sessions made so far; session n is the n-th
  hs,       \* where the handler of each connection is
  job,      \* the command it is working on
  clients,  \* m.tabClients of the tab
  token,    \* the token of each connection: the one asked to resume, then its own
  up,       \* commands from the page, in order
  down,     \* messages to the page, in order
  pageOf,   \* the page of each connection
  conn,     \* the page's current connection
  phase,    \* what the page does with the messages it gets
  boot,     \* the connection the page was loaded with
  known,    \* ownerToken
  view,     \* the page's tree
  \* history
  stale,    \* a change was lost for the page, came twice or out of order
  sent,     \* splits, closes and drags so far
  unsynced  \* a ratio was changed on one side and the other may not know

server == <<tree, made>>
handlers == <<hs, job, clients, token>>
channels == <<up, down>>
pages == <<pageOf, conn, phase, boot, known, view>>
history == <<stale, unsynced, sent>>
vars == <<tree, made, hs, job, clients, token, up, down, pageOf, conn, phase, boot, known, view, stale, unsynced, sent>>

NoJob == [at |-> "none"]

Init ==
  /\ tree = Pane(1) /\ made = 1
  /\ hs = [c \in Conns |-> "idle"] /\ job = [c \in Conns |-> NoJob]
  /\ clients = {} /\ token = [c \in Conns |-> None]
  /\ up = [c \in Conns |-> <<>>] /\ down = [c \in Conns |-> <<>>]
  /\ pageOf = [c \in Conns |-> None] /\ conn = [p \in Pages |-> None]
  /\ phase = [p \in Pages |-> "new"]
  /\ boot = [p \in Pages |-> None] /\ known = [p \in Pages |-> None]
  /\ view = [p \in Pages |-> Blank]
  /\ stale = [p \in Pages |-> FALSE] /\ unsynced = [p \in Pages |-> FALSE]
  /\ sent = 0

\* The page reads what is sent on c.
Listens(c) == pageOf[c] # None /\ conn[pageOf[c]] = c

IsEdit(m) == m.type \in {"session_created", "pane_closed"}
HasUpdate(c) == \E i \in DOMAIN up[c] : up[c][i].type = "update_layout"
HasEdit(c) == \E i \in DOMAIN down[c] : IsEdit(down[c][i])

\* The page has, or is being sent, a layout.
Informed(p) ==
  view[p] # Blank \/ (conn[p] # None /\ conn[p] = boot[p] /\ hs[conn[p]] \in {"serving", "ended"})

\* Pages that a change is lost on become stale.
Lost(ps) == stale' = [p \in Pages |-> stale[p] \/ p \in ps]

-----------------------------------------------------------------------------
(* The page. *)

\* connectTabWS: on load, and when the reconnect timer fires.
OpenTab(p, c) ==
  /\ conn[p] = None /\ phase[p] \in {"new", "off"}
  /\ hs[c] = "idle"
  /\ pageOf' = [pageOf EXCEPT ![c] = p]
  /\ conn' = [conn EXCEPT ![p] = c]
  /\ phase' = [phase EXCEPT ![p] = "first"]
  /\ boot' = [boot EXCEPT ![p] = IF @ = None THEN c ELSE @]
  /\ hs' = [hs EXCEPT ![c] = "arrived"]
  /\ token' = [token EXCEPT ![c] = known[p]]
  /\ UNCHANGED <<server, job, clients, channels, known, view, history>>

\* ws.onclose, or a ping without answer.  A page whose first connection ends
\* before its first message gives up (init).
LoseTab(p) ==
  LET c == conn[p] IN
  /\ c # None
  /\ conn' = [conn EXCEPT ![p] = None]
  /\ phase' = [phase EXCEPT ![p] = IF @ = "first" /\ c = boot[p] THEN "gone" ELSE "off"]
  /\ down' = [down EXCEPT ![c] = <<>>]
  /\ Lost(IF HasEdit(c) THEN {p} ELSE {})
  /\ unsynced' = [unsynced EXCEPT ![p] = @ \/ HasUpdate(c)]
  /\ UNCHANGED <<server, handlers, up, pageOf, boot, known, view, sent>>

\* The commands go out whenever the socket is open; the conflict modal is in
\* the way while it is shown.
CanSend(p) == phase[p] \in {"first", "live", "deaf"}

Command == sent < MaxCommands /\ sent' = sent + 1

Send(p, m) == up' = [up EXCEPT ![conn[p]] = Append(@, m)]

SplitPane(p, s, d) ==
  /\ CanSend(p) /\ PanesOf(view[p], s) # {} /\ Command
  /\ Send(p, [type |-> "split", session |-> s, direction |-> d])
  /\ UNCHANGED <<server, handlers, down, pages, stale, unsynced>>

RequestClosePane(p, s) ==
  /\ CanSend(p) /\ PanesOf(view[p], s) # {} /\ Command
  /\ Send(p, [type |-> "close_pane", session |-> s])
  /\ UNCHANGED <<server, handlers, down, pages, stale, unsynced>>

\* The end of a drag (onMouseUp): syncLayout, if the connection is open.
DragHandle(p, x, r) ==
  LET layout == SerializeTree(SetRatio(view[p], x, r)) IN
  /\ phase[p] # "gone" /\ x \in Splits(view[p]) /\ LabelAt(view[p], x).ratio # r
  /\ layout \in Layouts \* bound: a stale page may show a session twice
  /\ Command
  /\ view' = [view EXCEPT ![p] = SetRatio(@, x, r)]
  /\ IF conn[p] # None
     THEN CanSend(p) /\ Send(p, [type |-> "update_layout", layout |-> layout]) /\ UNCHANGED unsynced
     ELSE unsynced' = [unsynced EXCEPT ![p] = TRUE] /\ UNCHANGED up
  /\ UNCHANGED <<server, handlers, down, pageOf, conn, phase, boot, known, stale>>

\* handleTabWSMessage.
View(p, m) ==
  CASE m.type = "session_created" -> ApplySplit(view[p], m.target, m.session, m.direction)
    [] m.type = "pane_closed"     -> ApplyClosePane(view[p], m.session, m.layout)
    [] OTHER                      -> view[p]

\* The first message must be connected (or conflict, for which see below);
\* the page is deaf after any other.  A page that reconnects keeps its tree.
Receive(p) ==
  LET c == conn[p]
      m == Head(down[c]) IN
  /\ c # None /\ down[c] # <<>>
  /\ \/ /\ phase[p] \in {"first", "prompted"} /\ m.type = "connected"
        /\ phase' = [phase EXCEPT ![p] = "live"]
        /\ known' = [known EXCEPT ![p] = m.token]
        /\ view' = [view EXCEPT ![p] = IF c = boot[p] THEN ReconstructLayout(m.layout) ELSE @]
        /\ UNCHANGED <<conn, stale>>
     \/ /\ phase[p] \in {"first", "prompted", "deaf"} /\ (m.type # "connected" \/ phase[p] = "deaf")
        /\ phase' = [phase EXCEPT ![p] = IF @ = "first" THEN "deaf" ELSE @]
        /\ Lost(IF IsEdit(m) THEN {p} ELSE {})
        /\ UNCHANGED <<conn, known, view>>
     \/ /\ phase[p] = "live" /\ m.type # "disconnected"
        /\ view' = [view EXCEPT ![p] = View(p, m)]
        /\ UNCHANGED <<conn, phase, known, stale>>
     \/ /\ phase[p] = "live" /\ m.type = "disconnected"
        /\ conn' = [conn EXCEPT ![p] = None]
        /\ phase' = [phase EXCEPT ![p] = "gone"]
        /\ UNCHANGED <<known, view, stale>>
  /\ down' = [down EXCEPT ![c] = IF conn'[p] = None THEN <<>> ELSE Tail(@)]
  /\ UNCHANGED <<server, handlers, up, pageOf, boot, unsynced, sent>>

-----------------------------------------------------------------------------
(* The handshake of a connection's handler. *)

Owner(c) == {o \in clients : token[c] # None /\ token[o] = token[c]}

\* ResumeTabClient: the connection takes the place of the one with its token,
\* which is closed.
Resume(c) ==
  /\ hs[c] = "arrived" /\ Owner(c) # {}
  /\ clients' = (clients \ Owner(c)) \cup {c}
  /\ hs' = [hs EXCEPT ![c] = "registered"]
  /\ UNCHANGED <<server, job, token, channels, pages, history>>

\* RegisterTabClient: the tab was free, or has been freed.
Register(c) ==
  /\ hs[c] = "register" \/ (hs[c] = "arrived" /\ clients = {})
  /\ clients' = clients \cup {c}
  /\ token' = [token EXCEPT ![c] = c]
  /\ hs' = [hs EXCEPT ![c] = "registered"]
  /\ UNCHANGED <<server, job, channels, pages, history>>

Conflict(c) == hs[c] = "arrived" /\ clients # {} /\ Owner(c) = {}

Prompt(c) == phase' = [phase EXCEPT ![pageOf[c]] = "prompted"]

ChooseTakeover(c) ==
  /\ Conflict(c) /\ Listens(c) /\ up[c] = <<>>
  /\ Prompt(c)
  /\ hs' = [hs EXCEPT ![c] = "evict"]
  /\ UNCHANGED <<server, job, clients, token, channels, pageOf, conn, boot, known, view, history>>

\* ReplaceTabSessions copies the layout, ...
ChooseNew(c) ==
  /\ Conflict(c) /\ Listens(c) /\ up[c] = <<>>
  /\ Prompt(c)
  /\ hs' = [hs EXCEPT ![c] = "replacing"]
  /\ job' = [job EXCEPT ![c] = [at |-> "replace", layout |-> tree]]
  /\ UNCHANGED <<server, clients, token, channels, pageOf, conn, boot, known, view, history>>

\* No answer in time, or what the handler reads is a ping or a command.
NoChoice(c) ==
  /\ Conflict(c)
  /\ hs' = [hs EXCEPT ![c] = "ended"]
  /\ UNCHANGED <<server, job, clients, token, channels, pages, history>>

\* ... and puts one with new sessions in its place, without an event.
Replace(c) ==
  LET ids == SessionIDs(job[c].layout) IN
  /\ hs[c] = "replacing" /\ made + Len(ids) <= MaxSessions
  /\ tree' = ReplaceAllSessions(job[c].layout,
                               [s \in ToSet(ids) |-> made + CHOOSE i \in DOMAIN ids : ids[i] = s])
  /\ made' = made + Len(ids)
  /\ hs' = [hs EXCEPT ![c] = "evict"]
  /\ job' = [job EXCEPT ![c] = NoJob]
  /\ Lost({p \in Pages : Informed(p)})
  /\ UNCHANGED <<clients, token, channels, pages, unsynced, sent>>

\* A shell does not start: the handler reports it and returns.
ReplaceFails(c) ==
  /\ hs[c] = "replacing"
  /\ hs' = [hs EXCEPT ![c] = "ended"]
  /\ job' = [job EXCEPT ![c] = NoJob]
  /\ UNCHANGED <<server, clients, token, channels, pages, history>>

Deliver(ds, m) ==
  down' = [d \in Conns |-> IF d \in ds /\ Listens(d) THEN Append(down[d], m) ELSE down[d]]

\* DisconnectTabOwner.
Evict(c) ==
  /\ hs[c] = "evict"
  /\ Deliver(clients, [type |-> "disconnected"])
  /\ clients' = {}
  /\ hs' = [hs EXCEPT ![c] = "register"]
  /\ UNCHANGED <<server, job, token, up, pages, history>>

\* The connected message.  A split that is in the layout by now and still to
\* be broadcast will come twice.
Greet(c) ==
  /\ hs[c] = "registered"
  /\ Deliver({c}, [type |-> "connected", token |-> token[c], layout |-> tree])
  /\ hs' = [hs EXCEPT ![c] = "serving"]
  /\ Lost({p \in {pageOf[c]} : boot[p] = c /\ \E d \in Conns : job[d].at = "tell"})
  /\ UNCHANGED <<server, job, clients, token, up, pages, unsynced, sent>>

-----------------------------------------------------------------------------
(* The commands. *)

\* The handler reads the next command; what its page sent before the
\* connection broke may still be read.
ReadCommand(c) ==
  LET m == Head(up[c]) IN
  /\ hs[c] = "serving" /\ job[c] = NoJob /\ up[c] # <<>> /\ m.type # "update_layout"
  /\ up' = [up EXCEPT ![c] = Tail(@)]
  /\ job' = [job EXCEPT ![c] =
       CASE ~HasSession(tree, m.session) -> NoJob
         [] HasSession(tree, m.session) /\ m.type = "split" ->
              [at |-> "split", session |-> m.session, direction |-> m.direction]
         [] HasSession(tree, m.session) /\ m.type = "close_pane" ->
              [at |-> IF tree = Pane(m.session) THEN "closeLast" ELSE "close", session |-> m.session]]
  /\ UNCHANGED <<server, hs, clients, token, down, pages, history>>

\* UpdateTab.  Nobody is told.
UpdateLayout(c) ==
  LET m == Head(up[c])
      ok == LayoutMatchesSessionSet(m.layout, SessionIDs(tree)) IN
  /\ hs[c] = "serving" /\ job[c] = NoJob /\ up[c] # <<>> /\ m.type = "update_layout"
  /\ up' = [up EXCEPT ![c] = Tail(@)]
  /\ tree' = IF ok THEN m.layout ELSE tree
  /\ unsynced' = [p \in Pages |-> unsynced[p] \/ IF ok THEN p # pageOf[c] /\ Informed(p) ELSE p = pageOf[c]]
  /\ UNCHANGED <<made, handlers, down, pages, stale, sent>>

\* While another handler still has to broadcast what it did, the order of the
\* broadcasts need not be that of the changes.
Overlaps(c) == IF \E d \in Conns \ {c} : job[d].at = "tell" THEN Pages ELSE {}

Tell(c, m) == job' = [job EXCEPT ![c] = [at |-> "tell", message |-> m]]

\* SplitPane, with a new session, if the pane is still there.
InsertPane(c) ==
  LET s == job[c].session
      d == job[c].direction IN
  /\ job[c].at = "split" /\ made < MaxSessions
  /\ made' = made + 1
  /\ tree' = SplitLayoutNode(tree, s, made', d)
  /\ IF HasSession(tree, s)
     THEN Tell(c, [type |-> "session_created", session |-> made', target |-> s, direction |-> d])
     ELSE job' = [job EXCEPT ![c] = NoJob]
  /\ Lost(Overlaps(c))
  /\ UNCHANGED <<hs, clients, token, channels, pages, unsynced, sent>>

\* ClosePane, when it was not the last pane: it may be by now.
RemovePane(c) ==
  LET s == job[c].session IN
  /\ job[c].at = "close"
  /\ tree' = ClosePaneInLayout(tree, s)
  /\ IF tree' # tree THEN Tell(c, [type |-> "pane_closed", session |-> s, layout |-> tree'])
                     ELSE job' = [job EXCEPT ![c] = NoJob]
  /\ Lost(Overlaps(c))
  /\ UNCHANGED <<made, hs, clients, token, channels, pages, unsynced, sent>>

\* ClosePane of the last pane: a new one takes the place of whatever there is.
ReplacePane(c) ==
  /\ job[c].at = "closeLast" /\ made < MaxSessions
  /\ made' = made + 1
  /\ tree' = Pane(made')
  /\ Tell(c, [type |-> "pane_closed", session |-> job[c].session, layout |-> tree'])
  /\ Lost(IF tree = Pane(job[c].session) THEN Overlaps(c) ELSE Pages)
  /\ UNCHANGED <<hs, clients, token, channels, pages, unsynced, sent>>

\* The new session's shell does not start.
CommandFails(c) ==
  /\ job[c].at \in {"split", "closeLast"}
  /\ job' = [job EXCEPT ![c] = NoJob]
  /\ UNCHANGED <<server, hs, clients, token, channels, pages, history>>

\* Mutant: only the connection the command came from is told.
Broadcast_Sender(c) ==
  /\ job[c].at = "tell"
  /\ Deliver({c}, job[c].message)
  /\ job' = [job EXCEPT ![c] = NoJob]
  /\ Lost({p \in Pages : Informed(p) /\ ~(conn[p] \in clients)})
  /\ UNCHANGED <<server, hs, clients, token, up, pages, unsynced, sent>>

\* BroadcastTabEvent, to the connections registered by now.  The layout a
\* pane_closed message carries is looked at only if it is a single pane.
Broadcast(c) ==
  /\ job[c].at = "tell"
  /\ Deliver(clients, job[c].message)
  /\ job' = [job EXCEPT ![c] = NoJob]
  /\ Lost({p \in Pages : Informed(p) /\ ~(conn[p] \in clients)})
  /\ UNCHANGED <<server, hs, clients, token, up, pages, unsynced, sent>>

\* The read fails once the page, a takeover or a resume closed the connection.
EndReadLoop(c) ==
  /\ hs[c] = "serving" /\ job[c] = NoJob
  /\ ~Listens(c) \/ c \notin clients
  /\ hs' = [hs EXCEPT ![c] = "ended"]
  /\ clients' = clients \ {c}
  /\ up' = [up EXCEPT ![c] = <<>>]
  /\ unsynced' = [unsynced EXCEPT ![pageOf[c]] = @ \/ HasUpdate(c)]
  /\ UNCHANGED <<server, job, token, down, pages, stale, sent>>

-----------------------------------------------------------------------------
PageStep(p) ==
  \/ \E c \in Conns : OpenTab(p, c)
  \/ LoseTab(p) \/ Receive(p)
  \/ \E s \in 1 .. MaxSessions : RequestClosePane(p, s) \/ \E d \in Directions : SplitPane(p, s, d)
  \/ \E x \in Splits(view[p]), r \in Ratios : DragHandle(p, x, r)

HandlerStep(c) ==
  \/ Resume(c) \/ Register(c) \/ ChooseTakeover(c) \/ ChooseNew(c) \/ NoChoice(c)
  \/ Replace(c) \/ ReplaceFails(c) \/ Evict(c) \/ Greet(c)
  \/ ReadCommand(c) \/ UpdateLayout(c) \/ InsertPane(c) \/ RemovePane(c) \/ ReplacePane(c)
  \/ CommandFails(c) \/ Broadcast(c) \/ EndReadLoop(c)

Next == (\E p \in Pages : PageStep(p)) \/ (\E c \in Conns : HandlerStep(c))

Spec == Init /\ [][Next]_vars

-----------------------------------------------------------------------------
\* The type of every variable; the server's tree shows existing sessions, each
\* in one pane.
TypeOK ==
  /\ made \in Sessions
  /\ LET ids == SessionIDs(tree) IN ToSet(ids) \subseteq 1 .. made /\ Len(ids) = Cardinality(ToSet(ids))
  /\ hs \in [Conns -> {"idle", "arrived", "replacing", "evict", "register", "registered",
                        "serving", "ended"}]
  /\ \A c \in Conns : job[c].at \in {"none", "replace", "split", "close", "closeLast", "tell"}
  /\ clients \subseteq Conns /\ token \in [Conns -> Conns \cup {None}]
  /\ pageOf \in [Conns -> Pages \cup {None}]
  /\ conn \in [Pages -> Conns \cup {None}] /\ boot \in [Pages -> Conns \cup {None}]
  /\ known \in [Pages -> Conns \cup {None}]
  /\ phase \in [Pages -> {"new", "first", "prompted", "live", "deaf", "off", "gone"}]
  /\ \A p \in Pages : \A x \in Panes(view[p]) : x.label.session \in 1 .. made
  /\ stale \in [Pages -> BOOLEAN] /\ unsynced \in [Pages -> BOOLEAN]

\* Nothing is under way between the page and the server.
Settled(p) ==
  /\ phase[p] = "live" /\ conn[p] \in clients /\ boot[p] # None /\ view[p] # Blank
  /\ up[conn[p]] = <<>> /\ down[conn[p]] = <<>>
  /\ \A c \in Conns : job[c] = NoJob

\* Once its commands are done, a page shows the panes the server has, in the
\* same places, whatever commands it sent without waiting for the answers,
\* and although it reconnected: unless a change was lost, came twice or came
\* out of order (applySplit and applyClosePane redo what splitLayoutNode and
\* closePaneInLayout did); and with the same ratios, unless the server rejected
\* a layout or the page could not send it (syncLayout, UpdateTab).
PageShowsLayout ==
  \A p \in Pages : Settled(p) /\ ~stale[p] =>
    /\ Shape(view[p]) = Shape(ReconstructLayout(tree))
    /\ unsynced[p] \/ view[p] = ReconstructLayout(tree)

\* A layout the server accepts from a page that missed nothing changes ratios
\* only: it cannot undo a split or a close the page does not know of yet.
UpdateKeepsShape ==
  [][\A c \in Conns : UpdateLayout(c) /\ ~stale[pageOf[c]] =>
       Shape(ReconstructLayout(tree')) = Shape(ReconstructLayout(tree))]_vars
=============================================================================
