---------------------------- MODULE TabOwnership ----------------------------
(***************************************************************************)
(* Who owns one tab: the tab WebSocket handshake (handleTabWS), the owner  *)
(* registry of the SessionManager (tabClients), takeover, resume and       *)
(* deletion, and the pane WebSockets an owner's token opens.               *)
(*                                                                         *)
(* Each connection is served by its own handler goroutine; every method of *)
(* the manager is a critical section of m.mu, what lies between two of     *)
(* them is not.  A token is named after the connection it was made for.    *)
(* The tab has one pane; `session' counts the sessions ReplaceTabSessions  *)
(* has put in it.                                                          *)
(***************************************************************************)
EXTENDS Integers, FiniteSets

CONSTANTS
  Pages,        \* the loads of the tab's page, each in some browser window
  Conns,        \* the tab WebSockets they open
  Panes,        \* the pane WebSockets they open
  PageOf,       \* the page of each of them
  Deleter,      \* the handler of DELETE /api/tabs/{id}
  None,         \* no token, no connection
  MaxReplace    \* bound: how often "new" replaces the sessions

ASSUME PageAssumption ==
  /\ \A x \in Conns \cup Panes : PageOf[x] \in Pages
  /\ Deleter \notin Conns /\ None \notin Conns
  /\ MaxReplace \in Nat

VARIABLES
  tab,       \* the tab is in m.tabs
  session,   \* the session in the tab's layout
  owners,    \* m.tabClients[tabID]
  hs,        \* where each handler is
  up,        \* the server's side of each tab connection is open
  token,     \* the token a connection presents, then the one it holds
  toClose,   \* tab connections the handler still has to close
  revoked,   \* tokens the handler's DisconnectTabOwner took away
  told,      \* "disconnected" was sent on the connection
  ps,        \* where each pane connection's handler is
  pup,       \* the pane connection is open
  ptoken,    \* wsClient.ownerToken
  psession,  \* the session of the pane connection
  current,   \* the tab connection each page uses
  known,     \* the page's ownerToken
  takenOver, \* the page shows the takeover banner
  \* history
  raced,     \* two handshakes were between their check and their registration
  swept,     \* tokens whose pane connections DisconnectClients has closed
  missed     \* pane connections that were authorised but not attached then

serverVars == <<tab, session, owners>>
handlerVars == <<hs, up, token, toClose, revoked, told>>
paneVars == <<ps, pup, ptoken, psession>>
pageVars == <<current, known, takenOver>>
history == <<raced, swept, missed>>
vars == <<serverVars, handlerVars, paneVars, pageVars, history>>

Handlers == Conns \cup {Deleter}

\* Tokens accepted by CanAttachSession and ResumeTabClient.
Accepted == {token[c] : c \in owners}

\* Handlers that found or made the tab ownerless and will register.
Window == {c \in Conns : hs[c] \in {"closing", "registering"}}

Init ==
  /\ tab = TRUE /\ session = 0 /\ owners = {}
  /\ hs = [c \in Handlers |-> "idle"]
  /\ up = [c \in Conns |-> FALSE]
  /\ token = [c \in Conns |-> None]
  /\ toClose = [c \in Handlers |-> {}] /\ revoked = [c \in Handlers |-> {}]
  /\ told = [c \in Conns |-> FALSE]
  /\ ps = [q \in Panes |-> "idle"] /\ pup = [q \in Panes |-> FALSE]
  /\ ptoken = [q \in Panes |-> None] /\ psession = [q \in Panes |-> 0]
  /\ current = [p \in Pages |-> None] /\ known = [p \in Pages |-> None]
  /\ takenOver = [p \in Pages |-> FALSE]
  /\ raced = FALSE /\ swept = {} /\ missed = {}

Goto(c, stage) == hs' = [hs EXCEPT ![c] = stage]

-----------------------------------------------------------------------------
(* The page (app.js) *)

\* connectTabWS, with the token the page last held; GetTab finds the tab and
\* the upgrade succeeds.
Open(c) ==
  LET p == PageOf[c] IN
  /\ hs[c] = "idle" /\ tab
  /\ current[p] = None /\ ~takenOver[p]
  /\ current' = [current EXCEPT ![p] = c]
  /\ token' = [token EXCEPT ![c] = known[p]]
  /\ up' = [up EXCEPT ![c] = TRUE]
  /\ Goto(c, "resuming")
  /\ UNCHANGED <<serverVars, toClose, revoked, told, paneVars, known, takenOver, history>>

\* The page's socket closes, or the page closes it for a missing pong.  The
\* server may learn of it much later.
PageDrops(p) ==
  /\ current[p] # None
  /\ current' = [current EXCEPT ![p] = None]
  /\ UNCHANGED <<serverVars, handlerVars, paneVars, known, takenOver, history>>

\* showTakeoverBanner: the page disposes its panes and gives up its token.
PageTold(p) ==
  /\ current[p] # None /\ told[current[p]]
  /\ current' = [current EXCEPT ![p] = None]
  /\ known' = [known EXCEPT ![p] = None]
  /\ takenOver' = [takenOver EXCEPT ![p] = TRUE]
  /\ pup' = [q \in Panes |-> pup[q] /\ PageOf[q] # p]
  /\ UNCHANGED <<serverVars, handlerVars, ps, ptoken, psession, history>>

\* A tab connection ends for the server: closed by its peer, broken, or its
\* read deadline passed.
LoseConn(c) ==
  /\ up[c]
  /\ up' = [up EXCEPT ![c] = FALSE]
  /\ UNCHANGED <<serverVars, hs, token, toClose, revoked, told, paneVars, pageVars, history>>

-----------------------------------------------------------------------------
(* handleTabWS *)

\* Mutant: the replaced connection is not closed.
Resume_LeavesOld(c) ==
  /\ hs[c] = "resuming"
  /\ \/ \E old \in owners :
          /\ token[c] # None /\ token[old] = token[c]
          /\ owners' = (owners \ {old}) \cup {c}
          /\ Goto(c, "dropping")
     \/ /\ token[c] = None \/ token[c] \notin Accepted
        /\ Goto(c, "checking")
        /\ UNCHANGED owners
  /\ UNCHANGED <<toClose, tab, session, up, token, revoked, told, paneVars, pageVars, history>>

\* ResumeTabClient: the registered client with the page's token is replaced
\* by one on this connection with the same token ...
Resume(c) ==
  /\ hs[c] = "resuming"
  /\ \/ \E old \in owners :
          /\ token[c] # None /\ token[old] = token[c]
          /\ owners' = (owners \ {old}) \cup {c}
          /\ toClose' = [toClose EXCEPT ![c] = {old}]
          /\ Goto(c, "dropping")
     \/ /\ token[c] = None \/ token[c] \notin Accepted
        /\ Goto(c, "checking")
        /\ UNCHANGED <<owners, toClose>>
  /\ UNCHANGED <<tab, session, up, token, revoked, told, paneVars, pageVars, history>>

\* ... and, outside the lock, the old connection is closed.
DropOld(c) ==
  /\ hs[c] = "dropping"
  /\ up' = [d \in Conns |-> up[d] /\ d \notin toClose[c]]
  /\ toClose' = [toClose EXCEPT ![c] = {}]
  /\ Goto(c, "greeting")
  /\ UNCHANGED <<serverVars, token, revoked, told, paneVars, pageVars, history>>

\* IsTabActive: the conflict prompt, or straight on to the registration.
CheckActive(c) ==
  /\ hs[c] = "checking"
  /\ Goto(c, IF owners # {} THEN "conflict" ELSE "registering")
  /\ raced' = (raced \/ (owners = {} /\ Window # {}))
  /\ UNCHANGED <<serverVars, up, token, toClose, revoked, told, paneVars, pageVars, swept, missed>>

\* The user's answer to the prompt.
ChooseTakeover(c) ==
  /\ hs[c] = "conflict" /\ up[c]
  /\ Goto(c, "evicting")
  /\ UNCHANGED <<serverVars, up, token, toClose, revoked, told, paneVars, pageVars, history>>

ChooseNew(c) ==
  /\ hs[c] = "conflict" /\ up[c]
  /\ Goto(c, "replacing")
  /\ UNCHANGED <<serverVars, up, token, toClose, revoked, told, paneVars, pageVars, history>>

Close(c) ==
  /\ Goto(c, "closed")
  /\ up' = [up EXCEPT ![c] = FALSE]

\* No answer, or any other message: the page's own ping counts as one.
NoChoice(c) ==
  /\ hs[c] = "conflict"
  /\ Close(c)
  /\ UNCHANGED <<serverVars, token, toClose, revoked, told, paneVars, pageVars, history>>

\* ReplaceTabSessions: fresh sessions in the same layout, the old ones
\* deleted; it fails without the tab or a shell to spawn.
Replace(c) ==
  /\ hs[c] = "replacing"
  /\ \/ /\ tab /\ session < MaxReplace
        /\ session' = session + 1
        /\ Goto(c, "evicting")
        /\ UNCHANGED up
     \/ Close(c) /\ UNCHANGED session
  /\ UNCHANGED <<tab, owners, token, toClose, revoked, told, paneVars, pageVars, history>>

\* Mutant: the owners are copied and left in the registry.
Evict_KeepsOwners(e) ==
  /\ hs[e] = "evicting"
  /\ toClose' = [toClose EXCEPT ![e] = owners]
  /\ revoked' = [revoked EXCEPT ![e] = Accepted]
  /\ Goto(e, "closing")
  /\ raced' = (raced \/ (e \in Conns /\ Window # {}))
  /\ UNCHANGED <<tab, session, owners, up, token, told, paneVars, pageVars, swept, missed>>

\* DisconnectTabOwner, under the lock: the owners are copied and removed, ...
Evict(e) ==
  /\ hs[e] = "evicting"
  /\ owners' = {}
  /\ toClose' = [toClose EXCEPT ![e] = owners]
  /\ revoked' = [revoked EXCEPT ![e] = Accepted]
  /\ Goto(e, "closing")
  /\ raced' = (raced \/ (e \in Conns /\ Window # {}))
  /\ UNCHANGED <<tab, session, up, token, told, paneVars, pageVars, swept, missed>>

\* Mutant: the old owner is told but its connection stays open.
CloseVictim_OnlyTells(e, v) ==
  /\ hs[e] = "closing" /\ v \in toClose[e]
  /\ toClose' = [toClose EXCEPT ![e] = @ \ {v}]
  /\ told' = [told EXCEPT ![v] = up[v] /\ hs[v] \in {"reading", "ending"}]
  /\ UNCHANGED <<up, serverVars, hs, token, revoked, paneVars, pageVars, history>>

\* ... then each is told and closed (a page that has not been greeted ignores
\* the message), ...
CloseVictim(e, v) ==
  /\ hs[e] = "closing" /\ v \in toClose[e]
  /\ toClose' = [toClose EXCEPT ![e] = @ \ {v}]
  /\ told' = [told EXCEPT ![v] = up[v] /\ hs[v] \in {"reading", "ending"}]
  /\ up' = [up EXCEPT ![v] = FALSE]
  /\ UNCHANGED <<serverVars, hs, token, revoked, paneVars, pageVars, history>>

\* ... then the attached pane connections that hold their tokens.
SweptPanes(e) ==
  {q \in Panes : ps[q] = "attached" /\ psession[q] = session /\ ptoken[q] \in revoked[e]}

\* Mutant: whoever disconnected the owner registers, the deletion too.
Sweep_AlwaysRegisters(e) ==
  /\ hs[e] = "closing" /\ toClose[e] = {}
  /\ pup' = [q \in Panes |-> pup[q] /\ q \notin SweptPanes(e)]
  /\ Goto(e, "registering")
  /\ swept' = swept \cup revoked[e]
  /\ missed' = missed \cup {q \in Panes : ps[q] = "authorised"}
  /\ UNCHANGED <<serverVars, up, token, toClose, revoked, told, ps, ptoken, psession, pageVars, raced>>

Sweep(e) ==
  /\ hs[e] = "closing" /\ toClose[e] = {}
  /\ pup' = [q \in Panes |-> pup[q] /\ q \notin SweptPanes(e)]
  /\ Goto(e, IF e = Deleter THEN "closed" ELSE "registering")
  /\ swept' = swept \cup revoked[e]
  /\ missed' = missed \cup {q \in Panes : ps[q] = "authorised"}
  /\ UNCHANGED <<serverVars, up, token, toClose, revoked, told, ps, ptoken, psession, pageVars, raced>>

\* RegisterTabClient, with a fresh token.
Register(c) ==
  /\ hs[c] = "registering"
  /\ owners' = owners \cup {c}
  /\ token' = [token EXCEPT ![c] = c]
  /\ Goto(c, "greeting")
  /\ UNCHANGED <<tab, session, up, toClose, revoked, told, paneVars, pageVars, history>>

\* Mutant: the failed greeting returns before the deferred unregistration.
Greet_ReturnsEarly(c) ==
  LET p == PageOf[c] IN
  /\ hs[c] = "greeting"
  /\ IF tab /\ up[c]
     THEN /\ Goto(c, "reading")
          /\ \/ current[p] = c /\ known' = [known EXCEPT ![p] = token[c]]
             \/ UNCHANGED known
     ELSE Goto(c, "closed") /\ UNCHANGED known
  /\ UNCHANGED <<serverVars, up, token, toClose, revoked, told, paneVars, current, takenOver, history>>

\* GetTab again (a deleted tab is a nil dereference: the deferred calls run)
\* and the "connected" message, which may be lost on its way.
Greet(c) ==
  LET p == PageOf[c] IN
  /\ hs[c] = "greeting"
  /\ IF tab /\ up[c]
     THEN /\ Goto(c, "reading")
          /\ \/ current[p] = c /\ known' = [known EXCEPT ![p] = token[c]]
             \/ UNCHANGED known
     ELSE Goto(c, "ending") /\ UNCHANGED known
  /\ UNCHANGED <<serverVars, up, token, toClose, revoked, told, paneVars, current, takenOver, history>>

EndReadLoop(c) ==
  /\ hs[c] = "reading" /\ ~up[c]
  /\ Goto(c, "ending")
  /\ UNCHANGED <<serverVars, up, token, toClose, revoked, told, paneVars, pageVars, history>>

\* Mutant: clients are compared by their token.
Unregister_ByToken(c) ==
  /\ hs[c] = "ending"
  /\ owners' = {d \in owners : token[d] # token[c]}
  /\ Close(c)
  /\ UNCHANGED <<tab, session, token, toClose, revoked, told, paneVars, pageVars, history>>

\* The deferred UnregisterTabClient, which compares pointers, and Close.
Unregister(c) ==
  /\ hs[c] = "ending"
  /\ owners' = owners \ {c}
  /\ Close(c)
  /\ UNCHANGED <<tab, session, token, toClose, revoked, told, paneVars, pageVars, history>>

\* DeleteTab removes the tab and then disconnects its owner.
DeleteTab ==
  /\ hs[Deleter] = "idle" /\ tab
  /\ tab' = FALSE
  /\ Goto(Deleter, "evicting")
  /\ UNCHANGED <<session, owners, up, token, toClose, revoked, told, paneVars, pageVars, history>>

-----------------------------------------------------------------------------
(* handleSessionWS *)

\* Mutant: the token is not compared with the owners' tokens.
Authorise_AnyToken(q) ==
  LET p == PageOf[q] IN
  /\ ps[q] = "idle" /\ current[p] # None
  /\ tab /\ known[p] # None /\ owners # {}
  /\ ps' = [ps EXCEPT ![q] = "authorised"]
  /\ pup' = [pup EXCEPT ![q] = TRUE]
  /\ ptoken' = [ptoken EXCEPT ![q] = known[p]]
  /\ psession' = [psession EXCEPT ![q] = session]
  /\ UNCHANGED <<serverVars, handlerVars, pageVars, history>>

\* CanAttachSession, under the lock.
Authorise(q) ==
  LET p == PageOf[q] IN
  /\ ps[q] = "idle" /\ current[p] # None
  /\ tab /\ known[p] \in Accepted
  /\ ps' = [ps EXCEPT ![q] = "authorised"]
  /\ pup' = [pup EXCEPT ![q] = TRUE]
  /\ ptoken' = [ptoken EXCEPT ![q] = known[p]]
  /\ psession' = [psession EXCEPT ![q] = session]
  /\ UNCHANGED <<serverVars, handlerVars, pageVars, history>>

\* The upgrade, the wait for the first resize, and AttachClient's append.
Attach(q) ==
  /\ ps[q] = "authorised" /\ pup[q]
  /\ ps' = [ps EXCEPT ![q] = "attached"]
  /\ UNCHANGED <<serverVars, handlerVars, pup, ptoken, psession, pageVars, history>>

LosePane(q) ==
  /\ pup[q]
  /\ pup' = [pup EXCEPT ![q] = FALSE]
  /\ UNCHANGED <<serverVars, handlerVars, ps, ptoken, psession, pageVars, history>>

EndPane(q) ==
  /\ ps[q] \in {"authorised", "attached"} /\ ~pup[q]
  /\ ps' = [ps EXCEPT ![q] = "closed"]
  /\ UNCHANGED <<serverVars, handlerVars, pup, ptoken, psession, pageVars, history>>

-----------------------------------------------------------------------------
PageStep == \E p \in Pages : PageDrops(p) \/ PageTold(p)

HandlerStep(c) ==
  \/ Resume(c) \/ DropOld(c) \/ CheckActive(c) \/ NoChoice(c) \/ Replace(c)
  \/ Register(c) \/ Greet(c) \/ EndReadLoop(c) \/ Unregister(c)

EvictStep(e) == Evict(e) \/ Sweep(e) \/ \E v \in Conns : CloseVictim(e, v)

Next ==
  \/ PageStep
  \/ \E c \in Conns : \/ Open(c) \/ LoseConn(c) \/ ChooseTakeover(c) \/ ChooseNew(c)
                      \/ HandlerStep(c)
  \/ \E e \in Handlers : EvictStep(e)
  \/ DeleteTab
  \/ \E q \in Panes : Authorise(q) \/ Attach(q) \/ LosePane(q) \/ EndPane(q)

Spec == Init /\ [][Next]_vars

(* Fairness: a handler goroutine that can go on does; an unanswered conflict
   prompt ends with the read deadline (no pings are sent meanwhile); and a
   connection its page has given up stops answering pings, so the deadline
   ends it.  Nothing else about pages, users and the network is assumed. *)
Abandoned(c) == current[PageOf[c]] # c /\ LoseConn(c)

Fairness ==
  /\ \A c \in Conns : WF_vars(HandlerStep(c)) /\ WF_vars(Abandoned(c))
  /\ \A e \in Handlers : WF_vars(EvictStep(e))

FairSpec == Spec /\ Fairness

-----------------------------------------------------------------------------
Stages == {"idle", "resuming", "dropping", "checking", "conflict", "replacing", "evicting",
           "closing", "registering", "greeting", "reading", "ending", "closed"}

\* The type of every variable.
TypeOK ==
  /\ tab \in BOOLEAN /\ session \in 0 .. MaxReplace /\ owners \subseteq Conns
  /\ hs \in [Handlers -> Stages]
  /\ hs[Deleter] \in {"idle", "evicting", "closing", "closed"}
  /\ up \in [Conns -> BOOLEAN] /\ told \in [Conns -> BOOLEAN]
  /\ token \in [Conns -> Conns \cup {None}]
  /\ toClose \in [Handlers -> SUBSET Conns]
  /\ revoked \in [Handlers -> SUBSET (Conns \cup {None})]
  /\ ps \in [Panes -> {"idle", "authorised", "attached", "closed"}]
  /\ pup \in [Panes -> BOOLEAN]
  /\ ptoken \in [Panes -> Conns \cup {None}] /\ psession \in [Panes -> Nat]
  /\ current \in [Pages -> Conns \cup {None}] /\ known \in [Pages -> Conns \cup {None}]
  /\ takenOver \in [Pages -> BOOLEAN]
  /\ raced \in BOOLEAN /\ swept \subseteq Conns \cup {None} /\ missed \subseteq Panes

\* Two windows own a tab only if two handshakes were between IsTabActive (or
\* DisconnectTabOwner) and RegisterTabClient at the same time: resumes,
\* takeovers, deferred unregistrations and deletions by themselves never
\* leave a second owner (SessionManager.RegisterTabClient).
OneOwnerUnlessRaced == ~raced => \A c, d \in owners : c = d

\* A window that still acts as the owner without being registered is about to
\* be closed by the handler that removed it (DisconnectTabOwner and
\* ResumeTabClient close connections after they released the lock).
DisplacedIsBeingClosed ==
  \A c \in Conns : hs[c] = "reading" /\ up[c] /\ c \notin owners =>
    \E e \in Handlers : c \in toClose[e]

\* Every registered owner has a handler that will unregister it: the tab is
\* never stuck "active in another window" (the deferred UnregisterTabClient).
OwnerHasHandler ==
  \A c \in owners : hs[c] \in {"dropping", "greeting", "reading", "ending"}

\* No two registered owners hold the same token, so a resume replaces the
\* client it means to (ResumeTabClient stops at the first match).
TokensAreUnique == \A c, d \in owners : token[c] = token[d] => c = d

\* A token stops being accepted because DisconnectTabOwner took it, or because
\* the connection registered with it ends.
RevokedRightly ==
  \A t \in Accepted \ Accepted' :
    \/ owners' = {} /\ \E e \in Handlers : t \in revoked'[e]
    \/ \E c \in owners : token[c] = t /\ hs[c] = "ending"

\* A token is taken from its page only by DisconnectTabOwner or when the
\* connection now registered with it ends: the old handler of a resumed page,
\* which unregisters later, does not (ResumeTabClient: "the pane connections
\* the page reopens with its old token are still accepted").
TokenRevocation == [][RevokedRightly]_vars

\* DisconnectTabOwner takes the tokens away before it closes the pane
\* connections, so a pane it did not close had passed CanAttachSession before.
\* (Panes of a replaced session hang on a dead shell.)
TakeoverClosesPanes ==
  \A q \in Panes : ps[q] = "attached" /\ pup[q] /\ psession[q] = session /\ ptoken[q] \in swept =>
    q \in missed

(* The inductive invariant behind them. *)

\* A token that is not in use yet: its connection has not registered.
Fresh(c) == hs[c] \in {"idle", "resuming", "checking", "conflict", "replacing", "evicting",
                       "closing", "registering"}

\* Owners and connections to close, by the stage of their handlers; without a
\* race at most one connection owns the tab or is about to.
OwnerInv ==
  /\ OwnerHasHandler
  /\ \A e \in Handlers : toClose[e] # {} => hs[e] \in {"dropping", "closing"}
  /\ \A c \in Conns : hs[c] \in {"dropping", "greeting", "reading"} /\ up[c] /\ c \notin owners =>
       \E e \in Handlers : c \in toClose[e]
  /\ ~raced => \A c, d \in owners \cup Window : c = d

\* A token belongs to one owner; a fresh one is held by nobody, and one taken
\* away is never accepted again.
TokenInv ==
  /\ TokensAreUnique
  /\ \A c \in Conns : Fresh(c) =>
       /\ \A d \in Conns : token[d] # c
       /\ \A p \in Pages : known[p] # c
       /\ \A e \in Handlers : c \notin revoked[e]
  /\ \A e \in Handlers, c \in owners : token[c] \notin revoked[e]
  /\ \A e \in Handlers : revoked[e] # {} =>
       hs[e] \notin {"idle", "resuming", "checking", "conflict", "replacing", "evicting"}
  /\ \A t \in swept : \E e \in Handlers : t \in revoked[e]

\* Pane connections that passed CanAttachSession before a sweep of their token.
PaneInv ==
  \A q \in Panes :
    /\ psession[q] <= session
    /\ ps[q] = "authorised" /\ ptoken[q] \in swept => q \in missed
    /\ ps[q] = "attached" /\ pup[q] /\ psession[q] = session /\ ptoken[q] \in swept => q \in missed

IInv == TypeOK /\ OwnerInv /\ TokenInv /\ PaneInv

\* A registration whose connection is gone is removed (handleTabWS, the read
\* deadline and the deferred UnregisterTabClient): ownership is not kept by
\* zombies (handler.go:27-29).
OwnerIsReleased == \A c \in Conns : (c \in owners /\ ~up[c]) ~> c \notin owners

\* A displaced window's connection ends, whatever the window does.
DisplacedIsClosed ==
  \A c \in Conns : (hs[c] = "reading" /\ c \notin owners) ~> hs[c] = "closed"
=============================================================================
