-------------------------- MODULE LayoutSyncProofs --------------------------
(***************************************************************************)
(* Proofs about the synchronisation of a tab's layout, for any directions, *)
(* ratios, pages, connections, number of sessions and number of commands.  *)
(*                                                                         *)
(* That a settled page shows the server's tree is not inductive: it        *)
(* depends on every message still on its way, on edits of other pages that *)
(* the page has not heard of yet and on updates the server has not read.   *)
(* The invariant tells all of that from one history, H: the joints that    *)
(* the splits made so far would have if no pane had ever been closed.  The *)
(* server's tree is what is left of H in the sessions that have a pane,    *)
(* but for the ratios, and so is what a page shows in the sessions it      *)
(* shows (Sound); every message on its way tells of a split in H, or of a  *)
(* close, in the order in which they were made (QueueOk).  A page that has *)
(* applied all its messages shows the same sessions as the server, hence   *)
(* the same joints, hence the same tree.  Exact says the same of the       *)
(* ratios, for a page whose updates were all taken.                        *)
(*                                                                         *)
(* A page that missed an event (stale) may show a session twice or one     *)
(* that is gone (Twisted): the server then rejects what it sends, which is *)
(* why it does no harm.  When every page is stale (not Calm) nothing is    *)
(* said of the pages any more; stale is never taken back.                  *)
(***************************************************************************)
EXTENDS LayoutSync, LayoutTreeProofs

-----------------------------------------------------------------------------
(* The inductive invariant *)

\* The message that gives a page its layout.
Connected(m) == m.type = "connected"

\* A session made after all of K.
Below(K, x) == \A k \in K : k < x

\* A tree the server can have.
Proper(t, n) == t \in Layouts /\ Distinct(t) /\ Leaves(t) \subseteq 1 .. n

\* The tree t is what is left of the joints H, but for the ratios.
Sound(H, n, t) == Proper(t, n) /\ Plain(Joints(t)) = Rest(H, Leaves(t))

\* A split that the joints H know, of sessions made.
CreatedFits(H, n, m) ==
  m.session \in 1 .. n /\ m.target \in 1 .. m.session - 1 /\ m.direction \in Directions /\ Born(H, m)

\* A closed pane that the server has not any more, and a tree it had then.
ClosedFits(H, n, L, m) == m.session \in 1 .. n /\ m.session \notin L /\ Sound(H, n, m.layout)

\* A message to a page.
Fits(H, n, L, m) ==
  /\ Created(m) => CreatedFits(H, n, m)
  /\ Closed(m) => ClosedFits(H, n, L, m)
  /\ Connected(m) => Sound(H, n, m.layout)

\* The order of the messages a and b.
Earlier(a, b) ==
  /\ Created(b) => /\ Created(a) => a.session < b.session
                   /\ Closed(a) => Below(Leaves(a.layout), b.session)
  /\ Closed(b) /\ Closed(a) => a.session # b.session

\* All messages on their way fit, and come in the order of their changes.
QueueOk(H, n, L, q) ==
  /\ \A i \in DOMAIN q : Fits(H, n, L, q[i])
  /\ \A j \in DOMAIN q : \A i \in 1 .. j - 1 : Earlier(q[i], q[j])

\* The tree u shows a session that has no pane, or shows it twice: the server rejects it.
Wrong(L, u, k) == k \in Leaves(u) /\ (k \notin L \/ Twice(u, k))

\* A split that is in the tree u already may come again to a stale page.
Again(st, u, m) == st /\ Distinct(u) /\ (m.session \in Leaves(u) \/ \A k \in Leaves(u) : k > m.session)

\* The splits that come after the i-th message, by when the page shows u.
After(st, u, q, i) ==
  \A j \in DOMAIN q : j > i /\ Created(q[j]) =>
    Below(Leaves(u), q[j].session) \/ (Again(st, u, q[j]) /\ \A k \in i + 1 .. j - 1 : ~IsEdit(q[k]))

\* No message closes the pane of k.
NoClose(q, k) == \A i \in DOMAIN q : Closed(q[i]) => q[i].session # k

\* A stale page may show a session twice.
Twisted(n, L, st, u, q) ==
  /\ st /\ Leaves(u) \subseteq 1 .. n
  /\ Size(u) <= Cardinality(Leaves(u)) + 1
  /\ \E k \in 1 .. n : Wrong(L, u, k) /\ (Twice(u, k) \/ NoClose(q, k))

ViewOk(H, n, L, st, u, q) == (Sound(H, n, u) \/ Twisted(n, L, st, u, q)) /\ After(st, u, q, 0)

\* A page with the view v and the messages q on their way; b: the connection
\* is the one it was loaded with.
PageOk(H, n, L, st, v, b, q) ==
  /\ QueueOk(H, n, L, q)
  /\ v # Blank => \E u \in Layouts : v = ReconstructLayout(u) /\ ViewOk(H, n, L, st, u, q)
  /\ b /\ v = Blank => \A i \in DOMAIN q : Connected(q[i]) => After(st, q[i].layout, q, i)

-----------------------------------------------------------------------------
\* The sessions shown after a message.
Shows(K, m) ==
  CASE Created(m) -> IF m.target \in K THEN K \cup {m.session} ELSE K
    [] Closed(m) -> IF K = {m.session} THEN Leaves(m.layout) ELSE K \ {m.session}
    [] Connected(m) -> IF K = {} THEN Leaves(m.layout) ELSE K
    [] OTHER -> K

\* The last pane gives way to a single one.
LastOne(K, m) == Closed(m) /\ K = {m.session} => IsPaneTree(m.layout)

\* ks[i]: the sessions shown after i messages, L in the end
Follows(ks, q, K, L) ==
  /\ ks \in [0 .. Len(q) -> SUBSET Sessions]
  /\ ks[0] = K /\ ks[Len(q)] = L
  /\ \A i \in DOMAIN q : ks[i] = Shows(ks[i - 1], q[i]) /\ LastOne(ks[i - 1], q[i])
  /\ \A i \in 0 .. Len(q) : \A j \in i .. Len(q) : ks[i] # {} => ks[j] # {}

\* The message from which a page that shows nothing gets its layout.
GreetAt(q, i) == Connected(q[i]) /\ \A j \in 1 .. i - 1 : q[j].type = "disconnected"

IsUpdate(m) == m.type = "update_layout"
LastUpdate(w, i) == IsUpdate(w[i]) /\ \A j \in i + 1 .. Len(w) : ~IsUpdate(w[j])

\* The tree t with its ratios is what is left of the joints G.
Left(G, t) == Joints(t) = Rest(G, Leaves(t))

\* The joints G have the ratios too, as the page knows them; w: its commands.
Exact(H, G, t, v, q, w) ==
  /\ G \in SUBSET AllJoints /\ Plain(G) = H
  /\ \A u \in Layouts : v = ReconstructLayout(u) => Left(G, u)
  /\ v = Blank => \A i \in DOMAIN q : GreetAt(q, i) => Left(G, q[i].layout)
  /\ \A i \in DOMAIN q : Created(q[i]) => Born(G, q[i])
  /\ (\A i \in DOMAIN w : ~IsUpdate(w[i])) => Left(G, t)
  /\ \A i \in DOMAIN w : LastUpdate(w, i) => Left(G, w[i].layout)

\* The sessions a page shows.
ShownIn(v) == {x.label.session : x \in Panes(v)}

\* What a page shows, or will be given, becomes the server's tree, ratios
\* included if it owes no update.
TrackOk(H, t, v, q, w, un) ==
  /\ \E ks : Follows(ks, q, ShownIn(v), Leaves(t))
  /\ ~un => \E G : Exact(H, G, t, v, q, w)

\* Updates on their way to the server.
UpdatesOk(H, n, L, v, w) ==
  \A i \in DOMAIN w : IsUpdate(w[i]) =>
    /\ v # Blank /\ Leaves(w[i].layout) \subseteq 1 .. n
    /\ Sound(H, n, w[i].layout) \/ \E k \in 1 .. n : Wrong(L, w[i].layout, k)

-----------------------------------------------------------------------------
Telling == {c \in Conns : job[c].at = "tell"}

\* What is still to be broadcast.
Pending == IF Telling = {} THEN <<>> ELSE <<job[CHOOSE c \in Telling : TRUE].message>>

\* What the page is still to get, and what the server is to get from it.
Incoming(p) == IF conn[p] = None THEN <<>> ELSE down[conn[p]]
Coming(p) == Incoming(p) \o Pending
Commands(p) == IF conn[p] = None THEN <<>> ELSE up[conn[p]]

\* The page has the connection it was loaded with.
IsBoot(p) == conn[p] # None /\ conn[p] = boot[p]

\* The page missed nothing and has, or will have, a layout.
Tracked(p) ==
  /\ ~stale[p] /\ phase[p] # "gone"
  /\ \/ view[p] # Blank
     \/ IsBoot(p) /\ phase[p] \in {"first", "prompted"} /\ \E i \in DOMAIN Coming(p) : GreetAt(Coming(p), i)

\* What holds of a page, of its messages and of its commands.
PageStory(H, p) ==
  /\ PageOk(H, made, Leaves(tree), stale[p], view[p], IsBoot(p), Coming(p))
  /\ Tracked(p) => TrackOk(H, tree, view[p], Coming(p), Commands(p), unsynced[p])

\* H are the joints of all splits so far: the server's tree and every page's
\* are what is left of them.
Story(H) ==
  /\ \A c, d \in Telling : c = d
  /\ Grown(H, made) /\ Sound(H, made, tree)
  /\ \A c \in Telling : Created(job[c].message) =>
       job[c].message.session \in Leaves(tree) \/ \A k \in Leaves(tree) : k > job[c].message.session
  /\ \A c \in Conns : UpdatesOk(H, made, Leaves(tree), view[pageOf[c]], up[c])
  /\ \A p \in Pages : PageStory(H, p)

\* Where a page is, and whether it has a connection.
PageControl(p) ==
  /\ conn[p] # None => pageOf[conn[p]] = p /\ boot[p] # None /\ hs[conn[p]] # "idle"
  /\ conn[p] # None <=> phase[p] \in {"first", "prompted", "live", "deaf"}
  /\ boot[p] = None => view[p] = Blank
  /\ boot[p] # None => hs[boot[p]] # "idle"
  /\ IsBoot(p) /\ phase[p] # "live" => view[p] = Blank

\* Where a connection is, and what it may have in its queues.
ConnControl(c) ==
  /\ hs[c] # "idle" => pageOf[c] # None
  /\ c \in clients => hs[c] \in {"registered", "serving"}
  /\ hs[c] = "replacing" <=> job[c].at = "replace"
  /\ job[c].at \notin {"none", "replace"} => hs[c] = "serving"
  /\ hs[c] = "idle" => up[c] = <<>>
  /\ hs[c] \in {"idle", "arrived", "replacing", "evict", "register"} => down[c] = <<>>
  /\ Listens(c) /\ hs[c] = "arrived" => phase[pageOf[c]] = "first"
  /\ hs[c] \notin {"serving", "ended"} => \A i \in DOMAIN down[c] : ~Connected(down[c][i])
  /\ HasUpdate(c) /\ ~unsynced[pageOf[c]] => conn[pageOf[c]] = c \/ phase[pageOf[c]] = "gone"

\* Where the pages and the handlers of their connections can be.
ControlInv == (\A p \in Pages : PageControl(p)) /\ (\A c \in Conns : ConnControl(c))

\* What the server, the messages and the handlers may hold, when n sessions
\* were made.
ServerTrees(n) == {t \in Layouts : Proper(t, n)}
Edits(n) ==
  [type : {"session_created"}, session : 1 .. n, target : 1 .. n, direction : Directions]
    \cup [type : {"pane_closed"}, session : Sessions, layout : ServerTrees(n)]
DownMessages(n) ==
  Edits(n) \cup [type : {"connected"}, token : Conns \cup {None}, layout : ServerTrees(n)] \cup [type : {"disconnected"}]
UpMessages ==
  [type : {"split"}, session : Sessions, direction : Directions]
    \cup [type : {"close_pane"}, session : Sessions] \cup [type : {"update_layout"}, layout : Layouts]
Jobs(n) ==
  {NoJob} \cup [at : {"replace"}, layout : ServerTrees(n)] \cup [at : {"split"}, session : Sessions, direction : Directions]
    \cup [at : {"close", "closeLast"}, session : Sessions] \cup [at : {"tell"}, message : Edits(n)]

\* A node of a page that shows sessions made.
GoodNode(n, x) == x = Node(x.path, x.label) /\ x.label \in Labels /\ (IsPane(x) => x.label.session \in 1 .. n)

\* Every variable's type, as narrow as the proof needs it.
TypeInv ==
  /\ made \in Sessions /\ Proper(tree, made)
  /\ hs \in [Conns -> {"idle", "arrived", "replacing", "evict", "register", "registered",
                        "serving", "ended"}]
  /\ job \in [Conns -> Jobs(made)]
  /\ clients \subseteq Conns /\ token \in [Conns -> Conns \cup {None}]
  /\ up \in [Conns -> Seq(UpMessages)] /\ down \in [Conns -> Seq(DownMessages(made))]
  /\ pageOf \in [Conns -> Pages \cup {None}]
  /\ conn \in [Pages -> Conns \cup {None}] /\ boot \in [Pages -> Conns \cup {None}]
  /\ known \in [Pages -> Conns \cup {None}]
  /\ phase \in [Pages -> {"new", "first", "prompted", "live", "deaf", "off", "gone"}]
  /\ view = [p \in Pages |-> view[p]] /\ \A p \in Pages : \A x \in view[p] : GoodNode(made, x)
  /\ stale \in [Pages -> BOOLEAN] /\ unsynced \in [Pages -> BOOLEAN]

Calm == \E p \in Pages : ~stale[p]

-----------------------------------------------------------------------------
(* Messages received *)

\* A sequence, by its domain.
IsSeq(q) == Len(q) \in Nat /\ DOMAIN q = 1 .. Len(q)

\* q2 is a part of q, from the place after a.
Slice(q2, q, a) ==
  /\ IsSeq(q2) /\ IsSeq(q) /\ a \in Nat /\ Len(q2) + a <= Len(q)
  /\ \A i \in 1 .. Len(q2) : q2[i] = q[i + a]

\* q2 is q with m put in after the place a.
Inserted(q2, q, a, m) ==
  /\ IsSeq(q2) /\ IsSeq(q) /\ a \in 0 .. Len(q) /\ Len(q2) = Len(q) + 1
  /\ q2[a + 1] = m
  /\ \A i \in 1 .. a : q2[i] = q[i]
  /\ \A i \in a + 1 .. Len(q) : q2[i + 1] = q[i]

\* A part of the queue fits too.
LEMMA SliceQueue ==
  ASSUME NEW H, NEW n, NEW L, NEW q, NEW q2, NEW a, Slice(q2, q, a), QueueOk(H, n, L, q)
  PROVE QueueOk(H, n, L, q2)
<1>1. /\ Len(q2) \in Nat /\ DOMAIN q2 = 1 .. Len(q2) /\ Len(q) \in Nat /\ DOMAIN q = 1 .. Len(q)
      /\ a \in Nat /\ Len(q2) + a <= Len(q)
      /\ \A i \in 1 .. Len(q2) : q2[i] = q[i + a]
  BY DEF Slice, IsSeq
<1>2. \A i \in 1 .. Len(q2) : i + a \in DOMAIN q
  BY <1>1
<1>3. ASSUME NEW i \in DOMAIN q2 PROVE Fits(H, n, L, q2[i])
  <2>1. i + a \in DOMAIN q /\ q2[i] = q[i + a]
    BY <1>1, <1>2
  <2>2. Fits(H, n, L, q[i + a])
    BY <2>1 DEF QueueOk
  <2>3. QED
    BY <2>1, <2>2
<1>4. ASSUME NEW j \in DOMAIN q2, NEW i \in 1 .. j - 1 PROVE Earlier(q2[i], q2[j])
  <2>1. i \in 1 .. Len(q2) /\ j \in 1 .. Len(q2) /\ i + a \in 1 .. (j + a) - 1
    BY <1>1
  <2>2. j + a \in DOMAIN q /\ q2[j] = q[j + a] /\ q2[i] = q[i + a]
    BY <1>1, <1>2, <2>1
  <2>3. Earlier(q[i + a], q[j + a])
    BY <2>1, <2>2 DEF QueueOk
  <2>4. QED
    BY <2>2, <2>3
<1>5. QED
  BY <1>3, <1>4 DEF QueueOk

\* What comes after a message of the part.
LEMMA SliceAfter ==
  ASSUME NEW st, NEW u, NEW q, NEW q2, NEW a, Slice(q2, q, a), NEW i \in Nat, After(st, u, q, i + a)
  PROVE After(st, u, q2, i)
<1>1. /\ Len(q2) \in Nat /\ DOMAIN q2 = 1 .. Len(q2) /\ Len(q) \in Nat /\ DOMAIN q = 1 .. Len(q)
      /\ a \in Nat /\ Len(q2) + a <= Len(q)
      /\ \A k \in 1 .. Len(q2) : q2[k] = q[k + a]
  BY DEF Slice, IsSeq
<1>2. ASSUME NEW j \in DOMAIN q2, j > i, Created(q2[j])
      PROVE Below(Leaves(u), q2[j].session) \/ (Again(st, u, q2[j]) /\ \A k \in i + 1 .. j - 1 : ~IsEdit(q2[k]))
  <2>1. j + a \in DOMAIN q /\ j + a > i + a /\ q2[j] = q[j + a]
    BY <1>1, <1>2
  <2>2. Below(Leaves(u), q[j + a].session)
          \/ (Again(st, u, q[j + a]) /\ \A k \in (i + a) + 1 .. (j + a) - 1 : ~IsEdit(q[k]))
    BY <1>2, <2>1 DEF After
  <2>3. \A k \in i + 1 .. j - 1 : q2[k] = q[k + a] /\ k + a \in (i + a) + 1 .. (j + a) - 1
    BY <1>1
  <2>4. QED
    BY <2>1, <2>2, <2>3
<1>3. QED
  BY <1>2 DEF After

\* Later messages are fewer.
LEMMA AfterLater ==
  ASSUME NEW st, NEW u, NEW q, IsSeq(q), NEW i \in Nat, NEW k \in Nat, i <= k, After(st, u, q, i) PROVE After(st, u, q, k)
<1>1. ASSUME NEW j \in DOMAIN q, j > k, Created(q[j])
      PROVE Below(Leaves(u), q[j].session) \/ (Again(st, u, q[j]) /\ \A l \in k + 1 .. j - 1 : ~IsEdit(q[l]))
  <2>1. j > i /\ k + 1 .. j - 1 \subseteq i + 1 .. j - 1
    BY <1>1 DEF IsSeq
  <2>2. QED
    BY <1>1, <2>1 DEF After
<1>2. QED
  BY <1>1 DEF After

\* What the whole does not close, no part closes.
LEMMA SliceNoClose ==
  ASSUME NEW q, NEW q2, NEW a, Slice(q2, q, a), NEW k, NoClose(q, k) PROVE NoClose(q2, k)
<1>1. \A i \in DOMAIN q2 : i + a \in DOMAIN q /\ q2[i] = q[i + a]
  BY DEF Slice, IsSeq
<1>2. QED
  BY <1>1 DEF NoClose

\* What fits the queue fits a part of it.
LEMMA SliceView ==
  ASSUME NEW H, NEW n, NEW L, NEW st, NEW u, NEW q, NEW q2, NEW a, Slice(q2, q, a), ViewOk(H, n, L, st, u, q)
  PROVE ViewOk(H, n, L, st, u, q2)
<1>1. Twisted(n, L, st, u, q) => Twisted(n, L, st, u, q2)
  BY SliceNoClose DEF Twisted
<1>2. After(st, u, q, 0 + a)
  <2>1. IsSeq(q) /\ a \in Nat /\ 0 \in Nat /\ 0 <= a /\ 0 + a = a
    BY DEF Slice
  <2>2. After(st, u, q, 0)
    BY DEF ViewOk
  <2>3. After(st, u, q, a)
    BY <2>1, <2>2, AfterLater
  <2>4. QED
    BY <2>1, <2>3
<1>3. After(st, u, q2, 0)
  BY <1>2, SliceAfter
<1>4. QED
  BY <1>1, <1>3 DEF ViewOk

\* Messages that are received, lost or told to nobody leave the rest of them as it was.
LEMMA SlicePage ==
  ASSUME NEW H, NEW n, NEW L, NEW st, NEW v, NEW b, NEW q, NEW q2, NEW a, Slice(q2, q, a), PageOk(H, n, L, st, v, b, q)
  PROVE PageOk(H, n, L, st, v, b, q2)
<1>1. QueueOk(H, n, L, q2)
  BY SliceQueue DEF PageOk
<1>2. v # Blank => \E u \in Layouts : v = ReconstructLayout(u) /\ ViewOk(H, n, L, st, u, q2)
  BY SliceView DEF PageOk
<1>3. ASSUME b, v = Blank, NEW i \in DOMAIN q2, Connected(q2[i]) PROVE After(st, q2[i].layout, q2, i)
  <2>1. i \in Nat /\ i + a \in DOMAIN q /\ q2[i] = q[i + a]
    BY DEF Slice, IsSeq
  <2>2. After(st, q[i + a].layout, q, i + a)
    BY <1>3, <2>1 DEF PageOk
  <2>3. After(st, q2[i].layout, q, i + a)
    BY <2>1, <2>2
  <2>4. QED
    BY <2>1, <2>3, SliceAfter
<1>4. QED
  BY <1>1, <1>2, <1>3 DEF PageOk

-----------------------------------------------------------------------------
\* A tree stays sound when sessions are made and panes closed.
LEMMA SoundEvolves ==
  ASSUME NEW H, NEW n, NEW L, NEW H2, NEW n2, NEW L2, Evolves(H, n, L, H2, n2, L2), NEW t, Sound(H, n, t)
  PROVE Sound(H2, n2, t)
<1>1. Leaves(t) \in SUBSET (1 .. n) /\ 1 .. n \subseteq 1 .. n2
  BY DEF Sound, Proper, Evolves
<1>2. Rest(H2, Leaves(t)) = Rest(H, Leaves(t))
  BY <1>1 DEF Evolves
<1>3. QED
  BY <1>1, <1>2 DEF Sound, Proper

\* So does a message.
LEMMA FitsEvolves ==
  ASSUME NEW H, NEW n, NEW L, NEW H2, NEW n2, NEW L2, Evolves(H, n, L, H2, n2, L2), NEW m, Fits(H, n, L, m)
  PROVE Fits(H2, n2, L2, m)
<1>1. 1 .. n \subseteq 1 .. n2 /\ L2 \cap (1 .. n) \subseteq L
  BY DEF Evolves
<1>2. Created(m) => CreatedFits(H2, n2, m)
  BY <1>1, BornEvolves DEF Fits, CreatedFits
<1>3. Closed(m) => ClosedFits(H2, n2, L2, m)
  <2> SUFFICES ASSUME Closed(m) PROVE ClosedFits(H2, n2, L2, m)
    OBVIOUS
  <2>1. ClosedFits(H, n, L, m)
    BY DEF Fits
  <2>2. Sound(H2, n2, m.layout)
    BY <2>1, SoundEvolves DEF ClosedFits
  <2>3. QED
    BY <1>1, <2>1, <2>2 DEF ClosedFits
<1>4. Connected(m) => Sound(H2, n2, m.layout)
  BY SoundEvolves DEF Fits
<1>5. QED
  BY <1>2, <1>3, <1>4 DEF Fits

\* A session that has no pane gets none later.
LEMMA WrongEvolves ==
  ASSUME NEW H, NEW n, NEW L, NEW H2, NEW n2, NEW L2, Evolves(H, n, L, H2, n2, L2), NEW u, NEW k \in 1 .. n, Wrong(L, u, k)
  PROVE Wrong(L2, u, k) /\ k \in 1 .. n2
BY DEF Evolves, Wrong

\* A stale page allows more.
LEMMA AfterStale ==
  ASSUME NEW st \in BOOLEAN, NEW st2 \in BOOLEAN, st => st2, NEW u, NEW q, NEW i, After(st, u, q, i)
  PROVE After(st2, u, q, i)
<1>1. \A m : Again(st, u, m) => Again(st2, u, m)
  BY DEF Again
<1>2. QED
  BY <1>1 DEF After

\* What a page shows still fits when the server goes on.
LEMMA ViewEvolves ==
  ASSUME NEW H, NEW n, NEW L, NEW H2, NEW n2, NEW L2, Evolves(H, n, L, H2, n2, L2),
         NEW st \in BOOLEAN, NEW st2 \in BOOLEAN, st => st2, NEW u, NEW q, ViewOk(H, n, L, st, u, q)
  PROVE ViewOk(H2, n2, L2, st2, u, q)
<1>1. Sound(H, n, u) => Sound(H2, n2, u)
  BY SoundEvolves
<1>2. ASSUME Twisted(n, L, st, u, q) PROVE Twisted(n2, L2, st2, u, q)
  <2>1. 1 .. n \subseteq 1 .. n2
    BY DEF Evolves
  <2>2. PICK k \in 1 .. n : Wrong(L, u, k) /\ (Twice(u, k) \/ NoClose(q, k))
    BY <1>2 DEF Twisted
  <2>3. Wrong(L2, u, k) /\ k \in 1 .. n2
    BY <2>2, WrongEvolves
  <2>4. QED
    BY <1>2, <2>1, <2>2, <2>3 DEF Twisted
<1>3. After(st2, u, q, 0)
  BY AfterStale DEF ViewOk
<1>4. QED
  BY <1>1, <1>2, <1>3 DEF ViewOk

\* What is known of a page stays true when the server's tree changes.
LEMMA PageEvolves ==
  ASSUME NEW H, NEW n, NEW L, NEW H2, NEW n2, NEW L2, Evolves(H, n, L, H2, n2, L2),
         NEW st \in BOOLEAN, NEW st2 \in BOOLEAN, st => st2, NEW b \in BOOLEAN, NEW b2 \in BOOLEAN, b2 => b,
         NEW v, NEW q, PageOk(H, n, L, st, v, b, q)
  PROVE PageOk(H2, n2, L2, st2, v, b2, q)
<1>1. QueueOk(H2, n2, L2, q)
  BY FitsEvolves DEF PageOk, QueueOk
<1>2. v # Blank => \E u \in Layouts : v = ReconstructLayout(u) /\ ViewOk(H2, n2, L2, st2, u, q)
  BY ViewEvolves DEF PageOk
<1>3. ASSUME b2, v = Blank, NEW i \in DOMAIN q, Connected(q[i]) PROVE After(st2, q[i].layout, q, i)
  BY <1>3, AfterStale DEF PageOk
<1>4. QED
  BY <1>1, <1>2, <1>3 DEF PageOk

-----------------------------------------------------------------------------
(* Messages sent *)

\* The places of a sequence in which one element was put.
LEMMA InsertedIndex ==
  ASSUME NEW q2, NEW q, NEW a, NEW m, Inserted(q2, q, a, m)
  PROVE /\ Len(q2) \in Nat /\ Len(q) \in Nat /\ DOMAIN q2 = 1 .. Len(q2) /\ DOMAIN q = 1 .. Len(q)
        /\ Len(q2) = Len(q) + 1 /\ a \in Nat /\ a <= Len(q) /\ a + 1 \in DOMAIN q2 /\ q2[a + 1] = m
        /\ \A i \in DOMAIN q2 : /\ i <= a => i \in DOMAIN q /\ q2[i] = q[i]
                                /\ i > a + 1 => i - 1 \in DOMAIN q /\ q2[i] = q[i - 1]
<1>1. /\ Len(q2) \in Nat /\ Len(q) \in Nat /\ DOMAIN q2 = 1 .. Len(q2) /\ DOMAIN q = 1 .. Len(q)
      /\ Len(q2) = Len(q) + 1 /\ a \in Nat /\ a <= Len(q) /\ q2[a + 1] = m
      /\ \A i \in 1 .. a : q2[i] = q[i]
      /\ \A i \in a + 1 .. Len(q) : q2[i + 1] = q[i]
  BY DEF Inserted, IsSeq
<1>2. \A i \in DOMAIN q2 : i <= a => i \in DOMAIN q /\ q2[i] = q[i]
  BY <1>1
<1>3. \A i \in DOMAIN q2 : i > a + 1 => i - 1 \in DOMAIN q /\ q2[i] = q[i - 1]
  <2> SUFFICES ASSUME NEW i \in DOMAIN q2, i > a + 1 PROVE i - 1 \in DOMAIN q /\ q2[i] = q[i - 1]
    OBVIOUS
  <2>1. i - 1 \in a + 1 .. Len(q) /\ (i - 1) + 1 = i /\ i - 1 \in DOMAIN q
    BY <1>1
  <2>2. q2[(i - 1) + 1] = q[i - 1]
    BY <1>1, <2>1
  <2>3. QED
    BY <2>1, <2>2
<1>4. QED
  BY <1>1, <1>2, <1>3

\* A message that edits nothing comes between.
LEMMA InsertAfter ==
  ASSUME NEW q2, NEW q, NEW a, NEW m, Inserted(q2, q, a, m), ~IsEdit(m), NEW st, NEW u, NEW i \in Nat, After(st, u, q, i)
  PROVE /\ i <= a => After(st, u, q2, i)
        /\ i >= a + 1 => After(st, u, q2, i + 1)
<1>1. /\ Len(q2) \in Nat /\ Len(q) \in Nat /\ DOMAIN q2 = 1 .. Len(q2) /\ DOMAIN q = 1 .. Len(q)
      /\ Len(q2) = Len(q) + 1 /\ a \in Nat /\ a <= Len(q) /\ a + 1 \in DOMAIN q2 /\ q2[a + 1] = m
      /\ \A k \in DOMAIN q2 : /\ k <= a => k \in DOMAIN q /\ q2[k] = q[k]
                              /\ k > a + 1 => k - 1 \in DOMAIN q /\ q2[k] = q[k - 1]
  BY InsertedIndex
<1>2. ~Created(m)
  BY DEF IsEdit, Created
<1>3. ASSUME i <= a, NEW j \in DOMAIN q2, j > i, Created(q2[j])
      PROVE Below(Leaves(u), q2[j].session) \/ (Again(st, u, q2[j]) /\ \A k \in i + 1 .. j - 1 : ~IsEdit(q2[k]))
  <2>1. CASE j <= a
    <3>1. j \in DOMAIN q /\ q2[j] = q[j]
      BY <1>1, <2>1
    <3>2. Below(Leaves(u), q[j].session) \/ (Again(st, u, q[j]) /\ \A k \in i + 1 .. j - 1 : ~IsEdit(q[k]))
      BY <1>3, <3>1 DEF After
    <3>3. \A k \in i + 1 .. j - 1 : k \in DOMAIN q2 /\ k <= a
      BY <1>1, <2>1
    <3>4. QED
      BY <1>1, <3>1, <3>2, <3>3
  <2>2. CASE j > a + 1
    <3>1. j - 1 \in DOMAIN q /\ q2[j] = q[j - 1] /\ j - 1 > i
      BY <1>1, <1>3, <2>2
    <3>2. Below(Leaves(u), q[j - 1].session) \/ (Again(st, u, q[j - 1]) /\ \A k \in i + 1 .. (j - 1) - 1 : ~IsEdit(q[k]))
      BY <1>3, <3>1 DEF After
    <3>3. ASSUME \A k \in i + 1 .. (j - 1) - 1 : ~IsEdit(q[k]), NEW k \in i + 1 .. j - 1 PROVE ~IsEdit(q2[k])
      <4>0. k \in DOMAIN q2 /\ k \in Nat
        BY <1>1
      <4>1. CASE k <= a
        <5>1. k \in i + 1 .. (j - 1) - 1
          BY <1>1, <2>2, <4>1
        <5>2. QED
          BY <1>1, <3>3, <4>0, <4>1, <5>1
      <4>2. CASE k = a + 1
        BY <1>1, <4>2
      <4>3. CASE k > a + 1
        <5>1. k - 1 \in i + 1 .. (j - 1) - 1
          BY <1>1, <1>3, <4>3
        <5>2. QED
          BY <1>1, <3>3, <4>0, <4>3, <5>1
      <4>4. QED
        BY <1>1, <4>0, <4>1, <4>2, <4>3
    <3>4. QED
      BY <3>1, <3>2, <3>3
  <2>3. j # a + 1
    BY <1>1, <1>2, <1>3
  <2>4. QED
    BY <1>1, <2>1, <2>2, <2>3
<1>4. ASSUME i >= a + 1, NEW j \in DOMAIN q2, j > i + 1, Created(q2[j])
      PROVE Below(Leaves(u), q2[j].session) \/ (Again(st, u, q2[j]) /\ \A k \in (i + 1) + 1 .. j - 1 : ~IsEdit(q2[k]))
  <2>1. j - 1 \in DOMAIN q /\ q2[j] = q[j - 1] /\ j - 1 > i
    BY <1>1, <1>4
  <2>2. Below(Leaves(u), q[j - 1].session) \/ (Again(st, u, q[j - 1]) /\ \A k \in i + 1 .. (j - 1) - 1 : ~IsEdit(q[k]))
    BY <1>4, <2>1 DEF After
  <2>3. \A k \in (i + 1) + 1 .. j - 1 : k \in DOMAIN q2 /\ k > a + 1 /\ k - 1 \in i + 1 .. (j - 1) - 1
    BY <1>1, <1>4
  <2>4. QED
    BY <1>1, <2>1, <2>2, <2>3
<1>5. QED
  BY <1>3, <1>4 DEF After

\* A message put where it belongs keeps the queue in order.
LEMMA InsertQueue ==
  ASSUME NEW H, NEW n, NEW L, NEW q, NEW q2, NEW a, NEW m, Inserted(q2, q, a, m), QueueOk(H, n, L, q), Fits(H, n, L, m),
         \A i \in 1 .. a : Earlier(q[i], m), \A i \in a + 1 .. Len(q) : Earlier(m, q[i])
  PROVE QueueOk(H, n, L, q2)
<1>1. /\ Len(q2) \in Nat /\ Len(q) \in Nat /\ DOMAIN q2 = 1 .. Len(q2) /\ DOMAIN q = 1 .. Len(q)
      /\ Len(q2) = Len(q) + 1 /\ a \in Nat /\ a <= Len(q) /\ a + 1 \in DOMAIN q2 /\ q2[a + 1] = m
      /\ \A k \in DOMAIN q2 : /\ k <= a => k \in DOMAIN q /\ q2[k] = q[k]
                              /\ k > a + 1 => k - 1 \in DOMAIN q /\ q2[k] = q[k - 1]
  BY InsertedIndex
<1>2. \A k \in DOMAIN q2 : k <= a \/ k = a + 1 \/ k > a + 1
  BY <1>1
<1>3. \A k \in DOMAIN q2 : Fits(H, n, L, q2[k])
  BY <1>1, <1>2 DEF QueueOk
<1>4. ASSUME NEW j \in DOMAIN q2, NEW i \in 1 .. j - 1 PROVE Earlier(q2[i], q2[j])
  <2>0. i \in DOMAIN q2 /\ i < j /\ i \in Nat /\ j \in Nat
    BY <1>1
  <2>1. CASE j <= a
    BY <1>1, <2>0, <2>1 DEF QueueOk
  <2>2. CASE j = a + 1
    <3>1. i \in 1 .. a /\ q2[i] = q[i] /\ q2[j] = m
      BY <1>1, <2>0, <2>2
    <3>2. QED
      BY <3>1
  <2>3. CASE j > a + 1
    <3>1. j - 1 \in DOMAIN q /\ q2[j] = q[j - 1] /\ j - 1 \in a + 1 .. Len(q)
      BY <1>1, <2>3
    <3>2. CASE i <= a
      <4>1. q2[i] = q[i] /\ i \in 1 .. (j - 1) - 1
        BY <1>1, <2>0, <2>3, <3>2
      <4>2. QED
        BY <3>1, <4>1 DEF QueueOk
    <3>3. CASE i = a + 1
      BY <1>1, <3>1, <3>3
    <3>4. CASE i > a + 1
      <4>1. q2[i] = q[i - 1] /\ i - 1 \in 1 .. (j - 1) - 1
        BY <1>1, <2>0, <3>4
      <4>2. QED
        BY <3>1, <4>1 DEF QueueOk
    <3>5. QED
      BY <1>1, <2>0, <3>2, <3>3, <3>4
  <2>4. QED
    BY <1>2, <2>1, <2>2, <2>3
<1>5. QED
  BY <1>3, <1>4 DEF QueueOk

\* A message that does not close k may be put in.
LEMMA InsertNoClose ==
  ASSUME NEW q2, NEW q, NEW a, NEW m, Inserted(q2, q, a, m), NEW k, NoClose(q, k), Closed(m) => m.session # k
  PROVE NoClose(q2, k)
<1>1. /\ Len(q2) \in Nat /\ Len(q) \in Nat /\ DOMAIN q2 = 1 .. Len(q2) /\ DOMAIN q = 1 .. Len(q)
      /\ a \in Nat /\ q2[a + 1] = m
      /\ \A i \in DOMAIN q2 : /\ i <= a => i \in DOMAIN q /\ q2[i] = q[i]
                              /\ i > a + 1 => i - 1 \in DOMAIN q /\ q2[i] = q[i - 1]
  BY InsertedIndex
<1>2. \A i \in DOMAIN q2 : i <= a \/ i = a + 1 \/ i > a + 1
  BY <1>1
<1>3. QED
  BY <1>1, <1>2 DEF NoClose

\* connected and disconnected: an edit's place among the others stays.
LEMMA QuietPage ==
  ASSUME NEW H, NEW n, NEW L, NEW st, NEW v, NEW b, NEW q, NEW q2, NEW a, NEW m, Inserted(q2, q, a, m), ~IsEdit(m),
         Fits(H, n, L, m), PageOk(H, n, L, st, v, b, q),
         b /\ v = Blank /\ Connected(m) => After(st, m.layout, q2, a + 1)
  PROVE PageOk(H, n, L, st, v, b, q2)
<1>0. /\ Len(q2) \in Nat /\ Len(q) \in Nat /\ DOMAIN q2 = 1 .. Len(q2) /\ DOMAIN q = 1 .. Len(q)
      /\ a \in Nat /\ a <= Len(q) /\ q2[a + 1] = m
      /\ \A i \in DOMAIN q2 : /\ i <= a => i \in DOMAIN q /\ q2[i] = q[i]
                              /\ i > a + 1 => i - 1 \in DOMAIN q /\ q2[i] = q[i - 1]
  BY InsertedIndex
<1>1. ~Created(m) /\ ~Closed(m)
  BY DEF IsEdit, Created, Closed
<1>2. QueueOk(H, n, L, q2)
  BY <1>1, InsertQueue DEF Earlier, PageOk
<1>3. ASSUME NEW u, ViewOk(H, n, L, st, u, q) PROVE ViewOk(H, n, L, st, u, q2)
  <2>1. Twisted(n, L, st, u, q) => Twisted(n, L, st, u, q2)
    BY <1>1, InsertNoClose DEF Twisted
  <2>2. After(st, u, q2, 0)
    <3>1. After(st, u, q, 0) /\ 0 \in Nat /\ 0 <= a
      BY <1>0, <1>3 DEF ViewOk
    <3>2. QED
      BY <3>1, InsertAfter
  <2>3. QED
    BY <1>3, <2>1, <2>2 DEF ViewOk
<1>4. v # Blank => \E u \in Layouts : v = ReconstructLayout(u) /\ ViewOk(H, n, L, st, u, q2)
  BY <1>3 DEF PageOk
<1>5. ASSUME b, v = Blank, NEW i \in DOMAIN q2, Connected(q2[i]) PROVE After(st, q2[i].layout, q2, i)
  <2>1. CASE i <= a
    <3>1. i \in Nat /\ i \in DOMAIN q /\ q2[i] = q[i]
      BY <1>0, <2>1
    <3>2. After(st, q[i].layout, q, i)
      BY <1>5, <3>1 DEF PageOk
    <3>3. After(st, q[i].layout, q2, i)
      BY <2>1, <3>1, <3>2, InsertAfter
    <3>4. QED
      BY <3>1, <3>3
  <2>2. CASE i = a + 1
    BY <1>0, <1>5, <2>2
  <2>3. CASE i > a + 1
    <3>1. i - 1 \in Nat /\ i - 1 \in DOMAIN q /\ q2[i] = q[i - 1] /\ i - 1 >= a + 1 /\ (i - 1) + 1 = i
      BY <1>0, <2>3
    <3>2. After(st, q[i - 1].layout, q, i - 1)
      BY <1>5, <3>1 DEF PageOk
    <3>3. After(st, q[i - 1].layout, q2, (i - 1) + 1)
      <4> DEFINE k == i - 1
      <4>1. k \in Nat /\ k >= a + 1 /\ After(st, q[k].layout, q, k)
        BY <3>1, <3>2
      <4> HIDE DEF k
      <4>2. After(st, q[k].layout, q2, k + 1)
        BY <4>1, InsertAfter
      <4>3. QED
        BY <4>2 DEF k
    <3>4. QED
      BY <3>1, <3>3
  <2>4. QED
    BY <1>0, <2>1, <2>2, <2>3
<1>6. QED
  BY <1>2, <1>4, <1>5 DEF PageOk

-----------------------------------------------------------------------------
\* A message put last comes after all the others.
LEMMA AppendAfter ==
  ASSUME NEW q2, NEW q, NEW m, Inserted(q2, q, Len(q), m), NEW st, NEW u, NEW i \in Nat, After(st, u, q, i),
         Created(m) => Below(Leaves(u), m.session)
  PROVE After(st, u, q2, i)
<1>1. /\ Len(q2) \in Nat /\ Len(q) \in Nat /\ DOMAIN q2 = 1 .. Len(q2) /\ DOMAIN q = 1 .. Len(q)
      /\ Len(q2) = Len(q) + 1 /\ q2[Len(q) + 1] = m
      /\ \A k \in DOMAIN q2 : k <= Len(q) => k \in DOMAIN q /\ q2[k] = q[k]
  BY InsertedIndex
<1>2. ASSUME NEW j \in DOMAIN q2, j > i, Created(q2[j])
      PROVE Below(Leaves(u), q2[j].session) \/ (Again(st, u, q2[j]) /\ \A k \in i + 1 .. j - 1 : ~IsEdit(q2[k]))
  <2>1. CASE j = Len(q) + 1
    BY <1>1, <1>2, <2>1
  <2>2. CASE j <= Len(q)
    <3>1. j \in DOMAIN q /\ q2[j] = q[j]
      BY <1>1, <2>2
    <3>2. Below(Leaves(u), q[j].session) \/ (Again(st, u, q[j]) /\ \A k \in i + 1 .. j - 1 : ~IsEdit(q[k]))
      BY <1>2, <3>1 DEF After
    <3>3. \A k \in i + 1 .. j - 1 : k \in DOMAIN q2 /\ k <= Len(q)
      BY <1>1, <2>2
    <3>4. QED
      BY <1>1, <3>1, <3>2, <3>3
  <2>3. QED
    BY <1>1, <2>1, <2>2
<1>3. QED
  BY <1>2 DEF After

\* The next edit is to be told.
LEMMA EditPage ==
  ASSUME NEW H, NEW n, NEW L, NEW H2, NEW n2, NEW L2, Evolves(H, n, L, H2, n2, L2), NEW st \in BOOLEAN, NEW b \in BOOLEAN,
         NEW v, NEW q, NEW q2, NEW m, Inserted(q2, q, Len(q), m), PageOk(H, n, L, st, v, b, q),
         Fits(H2, n2, L2, m), ~Connected(m), Created(m) => m.session = n + 1, Closed(m) => m.session \in L
  PROVE PageOk(H2, n2, L2, st, v, b, q2)
<1>0. /\ Len(q2) \in Nat /\ Len(q) \in Nat /\ DOMAIN q2 = 1 .. Len(q2) /\ DOMAIN q = 1 .. Len(q)
      /\ Len(q2) = Len(q) + 1 /\ q2[Len(q) + 1] = m
      /\ \A k \in DOMAIN q2 : k <= Len(q) => k \in DOMAIN q /\ q2[k] = q[k]
  BY InsertedIndex
<1>1. \A K : K \subseteq 1 .. n => (Created(m) => Below(K, m.session))
  BY DEF Below, Evolves
<1>2. ASSUME NEW i \in 1 .. Len(q) PROVE Earlier(q[i], m)
  <2>1. Fits(H, n, L, q[i])
    BY <1>0 DEF PageOk, QueueOk
  <2>2. Created(m) /\ Created(q[i]) => q[i].session < m.session
    BY <2>1 DEF Fits, CreatedFits, Evolves
  <2>3. Created(m) /\ Closed(q[i]) => Below(Leaves(q[i].layout), m.session)
    BY <1>1, <2>1 DEF Fits, ClosedFits, Sound, Proper
  <2>4. Closed(m) /\ Closed(q[i]) => q[i].session # m.session
    BY <2>1 DEF Fits, ClosedFits
  <2>5. QED
    BY <2>2, <2>3, <2>4 DEF Earlier
<1>3. PageOk(H2, n2, L2, st, v, b, q)
  BY PageEvolves
<1>4. QueueOk(H2, n2, L2, q2)
  <2>1. QueueOk(H2, n2, L2, q)
    BY <1>3 DEF PageOk
  <2>2. \A i \in Len(q) + 1 .. Len(q) : Earlier(m, q[i])
    BY <1>0
  <2>3. QED
    BY <2>1, <2>2, <1>2, InsertQueue
<1>5. ASSUME NEW u, ViewOk(H, n, L, st, u, q) PROVE ViewOk(H2, n2, L2, st, u, q2)
  <2>1. Leaves(u) \subseteq 1 .. n
    BY <1>5 DEF ViewOk, Sound, Proper, Twisted
  <2>2. After(st, u, q2, 0)
    BY <1>1, <1>5, <2>1, AppendAfter DEF ViewOk
  <2>3. Sound(H, n, u) => Sound(H2, n2, u)
    BY SoundEvolves
  <2>4. ASSUME Twisted(n, L, st, u, q) PROVE Twisted(n2, L2, st, u, q2)
    <3>1. PICK k \in 1 .. n : Wrong(L, u, k) /\ (Twice(u, k) \/ NoClose(q, k))
      BY <2>4 DEF Twisted
    <3>2. Wrong(L2, u, k) /\ k \in 1 .. n2
      BY <3>1, WrongEvolves
    <3>3. Twice(u, k) \/ NoClose(q2, k)
      <4>1. ~Twice(u, k) => NoClose(q, k) /\ k \notin L
        BY <3>1 DEF Wrong
      <4>2. QED
        BY <4>1, InsertNoClose
    <3>4. Leaves(u) \subseteq 1 .. n2
      BY <2>1 DEF Evolves
    <3>5. QED
      BY <2>4, <3>2, <3>3, <3>4 DEF Twisted
  <2>5. QED
    BY <1>5, <2>2, <2>3, <2>4 DEF ViewOk
<1>6. v # Blank => \E u \in Layouts : v = ReconstructLayout(u) /\ ViewOk(H2, n2, L2, st, u, q2)
  BY <1>5 DEF PageOk
<1>7. ASSUME b, v = Blank, NEW i \in DOMAIN q2, Connected(q2[i]) PROVE After(st, q2[i].layout, q2, i)
  <2>1. i \in DOMAIN q /\ q2[i] = q[i] /\ i \in Nat
    BY <1>0, <1>7
  <2>2. Fits(H, n, L, q[i]) /\ After(st, q[i].layout, q, i)
    BY <1>7, <2>1 DEF PageOk, QueueOk
  <2>3. Leaves(q[i].layout) \subseteq 1 .. n
    BY <1>7, <2>1, <2>2 DEF Fits, Sound, Proper
  <2>4. After(st, q[i].layout, q2, i)
    BY <1>1, <2>1, <2>2, <2>3, AppendAfter
  <2>5. QED
    BY <2>1, <2>4
<1>8. QED
  BY <1>4, <1>6, <1>7 DEF PageOk

\* A split tells of itself to whatever joints it was made in.
LEMMA SplitSound ==
  ASSUME NEW t \in Layouts, Distinct(t), NEW m, m.session \in Sessions, m.direction \in Directions,
         Leaves(t) \subseteq 1 .. m.session - 1, m.target \in Leaves(t),
         NEW w, w = SplitLayoutNode(t, m.target, m.session, m.direction)
  PROVE /\ w \in Layouts /\ Distinct(w) /\ Leaves(w) = Leaves(t) \cup {m.session}
        /\ Joints(w) = Grow(Joints(t), m.target, m.session, m.direction)
        /\ \A G : Left(G, t) /\ Born(G, m) => Left(G, w)
        /\ \A H : Plain(Joints(t)) = Rest(H, Leaves(t)) /\ Born(H, m) => Plain(Joints(w)) = Rest(H, Leaves(w))
<1> DEFINE k == MaxSessions - 1
           s == m.target
           n == m.session
           d == m.direction
<1>1. MaxSessions \in Nat /\ n \in Nat /\ n # 0 /\ n <= MaxSessions /\ n \in Sessions /\ d \in Directions
  BY MaxSessionsNat DEF Sessions
<1>2. k \in Nat /\ k + 1 <= MaxSessions /\ k + 1 = MaxSessions
  BY <1>1
<1>3. s \in Sessions /\ s \in Leaves(t) /\ n \notin Leaves(t) /\ Leaves(t) \in SUBSET (1 .. n - 1)
  BY <1>1, LeavesType
<1>4. Size(t) = Cardinality(Leaves(t)) /\ Cardinality(Leaves(t)) <= n - 1 /\ Cardinality(Leaves(t)) \in Nat
  <2>1. n - 1 \in Nat
    BY <1>1
  <2>2. QED
    BY <1>3, <2>1, SmallCardinality, LeavesType
<1>5. t \in Level[k]
  <2>1. Size(t) <= k + 1
    BY <1>1, <1>2, <1>4
  <2>2. QED
    BY <1>2, <2>1, SmallTree
<1> HIDE DEF k
<1>6. w \in Level[k + 1] /\ IsGrown(w, t, s, n, d)
  BY <1>1, <1>2, <1>3, <1>5, SplitGrows
<1>7. w \in Layouts
  BY <1>2, <1>6 DEF Layouts
<1>8. ASSUME NEW G, Born(G, m) PROVE Rest(G, Leaves(t) \cup {n}) = Grow(Rest(G, Leaves(t)), s, n, d)
  BY <1>1, <1>3, <1>8, BornGrows
<1>9. \A G : Left(G, t) /\ Born(G, m) => Left(G, w)
  BY <1>6, <1>8 DEF Left, IsGrown
<1>10. ASSUME NEW H, Plain(Joints(t)) = Rest(H, Leaves(t)), Born(H, m) PROVE Plain(Joints(w)) = Rest(H, Leaves(w))
  <2>1. Plain(Joints(w)) = Grow(Plain(Joints(t)), s, n, d)
    BY <1>6, PlainGrow DEF IsGrown
  <2>2. QED
    BY <1>6, <1>8, <1>10, <2>1 DEF IsGrown
<1>11. QED
  BY <1>6, <1>7, <1>9, <1>10 DEF IsGrown

\* What a close leaves is the rest of whatever joints the tree was made of.
LEMMA CloseSound ==
  ASSUME NEW t \in Layouts, Distinct(t), NEW s \in Leaves(t), t # Pane(s), NEW w, w = ClosePaneInLayout(t, s)
  PROVE /\ w \in Layouts /\ Distinct(w) /\ Leaves(w) = Leaves(t) \ {s}
        /\ \A G : Left(G, t) => Left(G, w)
        /\ \A H : Plain(Joints(t)) = Rest(H, Leaves(t)) => Plain(Joints(w)) = Rest(H, Leaves(w))
<1>1. s \in Sessions
  BY LeavesType
<1>2. MaxSessions \in Nat /\ MaxSessions <= MaxSessions /\ t \in Level[MaxSessions]
  BY MaxSessionsNat DEF Layouts
<1>3. w \in Level[MaxSessions] /\ IsClosed(w, t, s)
  BY <1>1, <1>2, CloseRests
<1>4. Leaves(w) = Leaves(t) \ {s} /\ Joints(w) = Rest(Joints(t), Leaves(w)) /\ Leaves(t) \cap Leaves(w) = Leaves(w)
  BY <1>3 DEF IsClosed
<1>5. ASSUME NEW G, Left(G, t) PROVE Left(G, w)
  <2>1. Joints(w) = Rest(Rest(G, Leaves(t)), Leaves(w))
    BY <1>4, <1>5 DEF Left
  <2>2. Rest(Rest(G, Leaves(t)), Leaves(w)) = Rest(G, Leaves(t) \cap Leaves(w))
    BY RestRest
  <2>3. QED
    BY <1>4, <2>1, <2>2 DEF Left
<1>6. ASSUME NEW H, Plain(Joints(t)) = Rest(H, Leaves(t)) PROVE Plain(Joints(w)) = Rest(H, Leaves(w))
  <2>1. Plain(Joints(w)) = Rest(Plain(Joints(t)), Leaves(w))
    BY <1>4, PlainRest
  <2>2. Rest(Rest(H, Leaves(t)), Leaves(w)) = Rest(H, Leaves(t) \cap Leaves(w))
    BY RestRest
  <2>3. QED
    BY <1>4, <1>6, <2>1, <2>2
<1>7. QED
  BY <1>3, <1>5, <1>6 DEF IsClosed, Layouts

-----------------------------------------------------------------------------
\* View, of a page that shows v.
EditOf(v, m) ==
  CASE Created(m) -> ApplySplit(v, m.target, m.session, m.direction)
    [] Closed(m)  -> ApplyClosePane(v, m.session, m.layout)
    [] OTHER      -> v

\* The page that shows u shows w after the message m.
Applied(H, n, L, st, u, w, m, q2) ==
  /\ EditOf(ReconstructLayout(u), m) = ReconstructLayout(w)
  /\ ViewOk(H, n, L, st, w, q2)
  /\ ~st => /\ Leaves(w) = Shows(Leaves(u), m)
            /\ \A G : Plain(G) = H /\ Left(G, u) /\ (Created(m) => Born(G, m)) /\ LastOne(Leaves(u), m) => Left(G, w)

\* What comes after an edit.
LEMMA AfterEdit ==
  ASSUME NEW H, NEW n, NEW L, NEW st, NEW u, NEW q, NEW q2, Slice(q2, q, 1), IsEdit(q[1]),
         QueueOk(H, n, L, q), After(st, u, q, 0)
  PROVE \A j \in DOMAIN q2 : Earlier(q[1], q2[j]) /\ (Created(q2[j]) => Below(Leaves(u), q2[j].session))
<1> SUFFICES ASSUME NEW j \in DOMAIN q2
             PROVE Earlier(q[1], q2[j]) /\ (Created(q2[j]) => Below(Leaves(u), q2[j].session))
  OBVIOUS
<1>1. j \in Nat /\ j + 1 \in DOMAIN q /\ q2[j] = q[j + 1] /\ 1 \in 1 .. (j + 1) - 1 /\ 1 \in 0 + 1 .. (j + 1) - 1 /\ j + 1 > 0
  BY DEF Slice, IsSeq
<1>2. Earlier(q[1], q[j + 1])
  BY <1>1 DEF QueueOk
<1>3. Created(q[j + 1]) => Below(Leaves(u), q[j + 1].session)
  BY <1>1 DEF After
<1>4. QED
  BY <1>1, <1>2, <1>3

\* Splits of sessions made after all those shown may still come.
LEMMA BelowAfter ==
  ASSUME NEW st, NEW w, NEW q2, \A j \in DOMAIN q2 : Created(q2[j]) => Below(Leaves(w), q2[j].session)
  PROVE After(st, w, q2, 0)
BY DEF After

\* applySplit, on a page that shows a sound tree or a stale one.
LEMMA LiveCreated ==
  ASSUME NEW H, NEW n \in Nat, n <= MaxSessions, NEW L, NEW st \in BOOLEAN, NEW u \in Layouts, NEW q, NEW q2, NEW m,
         Slice(q2, q, 1), m = q[1], Created(m), QueueOk(H, n, L, q), ViewOk(H, n, L, st, u, q)
  PROVE \E w \in Layouts : Applied(H, n, L, st, u, w, m, q2)
<1> DEFINE k == m.session
           s == m.target
           d == m.direction
<1>1. IsSeq(q) /\ 1 \in DOMAIN q /\ After(st, u, q, 0)
  BY DEF Slice, IsSeq, ViewOk
<1>2. k \in 1 .. n /\ s \in 1 .. k - 1 /\ d \in Directions /\ Born(H, m) /\ k \in Nat /\ s \in Nat /\ k \in Sessions /\ s < k
  <2>1. CreatedFits(H, n, m)
    BY <1>1 DEF QueueOk, Fits
  <2>2. QED
    BY <2>1, MaxSessionsNat DEF CreatedFits, Sessions
<1>3. IsEdit(q[1])
  BY DEF IsEdit, Created
<1>4. \A j \in DOMAIN q2 : Earlier(m, q2[j]) /\ (Created(q2[j]) => Below(Leaves(u), q2[j].session))
  BY <1>1, <1>3, AfterEdit
<1>5. Below(Leaves(u), k) \/ Again(st, u, m)
  BY <1>1 DEF After
<1>6. EditOf(ReconstructLayout(u), m) = ApplySplit(ReconstructLayout(u), s, k, d)
  BY DEF EditOf, Created, Closed
<1>7. ~Closed(m) /\ Shows(Leaves(u), m) = IF s \in Leaves(u) THEN Leaves(u) \cup {k} ELSE Leaves(u)
  BY DEF Created, Closed, Connected, Shows
<1>8. CASE s \notin Leaves(u)
  <2>1. ApplySplit(ReconstructLayout(u), s, k, d) = ReconstructLayout(u)
    BY <1>8, ApplySplitNothing
  <2>2. ViewOk(H, n, L, st, u, q2)
    BY SliceView
  <2>3. QED
    BY <1>6, <1>7, <1>8, <2>1, <2>2 DEF Applied
<1>9. CASE s \in Leaves(u)
  <2>1. Leaves(u) \subseteq 1 .. n
    BY DEF ViewOk, Sound, Proper, Twisted
  <2>2. IsFiniteSet(Leaves(u)) /\ Cardinality(Leaves(u)) \in Nat /\ Cardinality(Leaves(u)) <= n /\ Size(u) \in Nat
    BY <2>1, SmallCardinality, LeavesType
  <2>3. Distinct(u) <=> Size(u) = Cardinality(Leaves(u))
    BY LeavesType
  <2>4. Below(Leaves(u), k) => k \notin Leaves(u)
    BY <1>2 DEF Below
  <2>5. k \notin Leaves(u) => Cardinality(Leaves(u) \cup {k}) = Cardinality(Leaves(u)) + 1
    BY <2>2, FS_AddElement
  <2>6. k \notin Leaves(u) => Cardinality(Leaves(u)) + 1 <= n
    <3>1. Leaves(u) \cup {k} \in SUBSET (1 .. n)
      BY <1>2, <2>1
    <3>2. Cardinality(Leaves(u) \cup {k}) <= n
      BY <3>1, SmallCardinality
    <3>3. QED
      BY <2>2, <2>5, <3>2
  <2>7. Again(st, u, m) => st /\ Distinct(u) /\ k \in Leaves(u)
    BY <1>2, <1>9 DEF Again
  <2>8. Size(u) <= MaxSessions
    <3>1. CASE Distinct(u)
      BY <2>2, <2>3, <3>1, MaxSessionsNat
    <3>2. CASE Twisted(n, L, st, u, q) /\ ~Distinct(u)
      <4>1. k \notin Leaves(u) /\ Size(u) <= Cardinality(Leaves(u)) + 1
        BY <1>5, <2>4, <2>7, <3>2 DEF Twisted
      <4>2. QED
        BY <2>2, <2>6, <4>1, MaxSessionsNat
    <3>3. QED
      BY <3>1, <3>2 DEF ViewOk, Sound, Proper
  <2>9. PICK w \in Layouts : ApplySplit(ReconstructLayout(u), s, k, d) = ReconstructLayout(w) /\ MakesSplit(w, u, s, k, d)
    BY <1>2, <1>9, <2>8, ApplySplitMakes
  <2>10. Size(w) = Size(u) + 1 /\ Leaves(w) = Leaves(u) \cup {k} /\ (\A x : Twice(u, x) => Twice(w, x))
         /\ (k \in Leaves(u) => Twice(w, k)) /\ (Distinct(u) => w = SplitLayoutNode(u, s, k, d))
    BY <2>9 DEF MakesSplit
  <2>11. After(st, w, q2, 0)
    <3>1. \A j \in DOMAIN q2 : Created(q2[j]) => Below(Leaves(w), q2[j].session)
      BY <1>4, <2>10 DEF Earlier, Below
    <3>2. QED
      BY <3>1, BelowAfter
  <2>12. Leaves(w) \subseteq 1 .. n
    BY <1>2, <2>1, <2>10
  <2>13. ASSUME Sound(H, n, u), Below(Leaves(u), k)
         PROVE Sound(H, n, w) /\ \A G : Left(G, u) /\ Born(G, m) => Left(G, w)
    <3>1. Distinct(u) /\ Plain(Joints(u)) = Rest(H, Leaves(u))
      BY <2>13 DEF Sound, Proper
    <3>2. Leaves(u) \subseteq 1 .. k - 1
      BY <1>2, <2>1, <2>13 DEF Below
    <3>3. w = SplitLayoutNode(u, s, k, d)
      BY <2>10, <3>1
    <3>4. /\ Distinct(w)
          /\ \A G : Left(G, u) /\ Born(G, m) => Left(G, w)
          /\ \A I : Plain(Joints(u)) = Rest(I, Leaves(u)) /\ Born(I, m) => Plain(Joints(w)) = Rest(I, Leaves(w))
      BY <1>2, <1>9, <3>1, <3>2, <3>3, SplitSound
    <3>5. QED
      BY <1>2, <2>12, <3>1, <3>4 DEF Sound, Proper
  <2>14. ASSUME ~(Sound(H, n, u) /\ Below(Leaves(u), k)) PROVE Twisted(n, L, st, w, q2)
    <3>1. st
      BY <1>5, <2>7, <2>14 DEF ViewOk, Twisted
    <3>2. CASE k \in Leaves(u)
      <4>1. Distinct(u) /\ Leaves(w) = Leaves(u) /\ Wrong(L, w, k) /\ Twice(w, k)
        BY <1>5, <2>4, <2>7, <2>10, <3>2 DEF Wrong
      <4>2. Size(w) <= Cardinality(Leaves(w)) + 1
        BY <2>2, <2>3, <2>10, <4>1
      <4>3. QED
        BY <1>2, <2>12, <3>1, <4>1, <4>2 DEF Twisted
    <3>3. CASE k \notin Leaves(u)
      <4>1. Below(Leaves(u), k)
        BY <1>5, <2>7, <3>3
      <4>2. Twisted(n, L, st, u, q)
        BY <2>14, <4>1 DEF ViewOk
      <4>3. PICK x \in 1 .. n : Wrong(L, u, x) /\ (Twice(u, x) \/ NoClose(q, x))
        BY <4>2 DEF Twisted
      <4>4. Wrong(L, w, x) /\ (Twice(w, x) \/ NoClose(q2, x))
        BY <2>10, <4>3, SliceNoClose DEF Wrong
      <4>5. Size(w) <= Cardinality(Leaves(w)) + 1
        BY <2>2, <2>5, <2>10, <3>3, <4>2 DEF Twisted
      <4>6. QED
        BY <2>12, <3>1, <4>4, <4>5 DEF Twisted
    <3>4. QED
      BY <3>2, <3>3
  <2>15. ViewOk(H, n, L, st, w, q2)
    BY <2>11, <2>13, <2>14 DEF ViewOk
  <2>16. ~st => Sound(H, n, u) /\ Below(Leaves(u), k)
    BY <1>5, <2>7 DEF ViewOk, Twisted
  <2>17. QED
    BY <1>6, <1>7, <1>9, <2>9, <2>10, <2>13, <2>15, <2>16 DEF Applied
<1>10. QED
  BY <1>8, <1>9

\* Without ratios there are as many joints.
LEMMA PlainNothing ==
  ASSUME NEW J, Plain(J) = {} PROVE J = {}
BY DEF Plain

\* A single pane is what is left of any joints for its session.
LEMMA LeftOne ==
  ASSUME NEW H, NEW n, NEW t, Sound(H, n, t), IsPaneTree(t), NEW G, Plain(G) = H PROVE Left(G, t)
<1>1. t \in Layouts /\ Plain(Joints(t)) = Rest(H, Leaves(t))
  BY DEF Sound, Proper
<1>2. Joints(t) = {}
  BY <1>1, PaneJoints DEF IsPaneTree
<1>3. Plain(Rest(G, Leaves(t))) = Rest(H, Leaves(t))
  BY PlainRest
<1>4. Plain(Joints(t)) = {}
  BY <1>2 DEF Plain
<1>5. Plain(Rest(G, Leaves(t))) = {}
  BY <1>1, <1>3, <1>4
<1>6. Rest(G, Leaves(t)) = {}
  BY <1>5, PlainNothing
<1>7. QED
  BY <1>2, <1>6 DEF Left

\* applyClosePane, on a page that shows a sound tree or a stale one.
LEMMA LiveClosed ==
  ASSUME NEW H, NEW n \in Nat, n <= MaxSessions, NEW L, NEW st \in BOOLEAN, NEW u \in Layouts, NEW q, NEW q2, NEW m,
         Slice(q2, q, 1), m = q[1], Closed(m), QueueOk(H, n, L, q), ViewOk(H, n, L, st, u, q)
  PROVE \E w \in Layouts : Applied(H, n, L, st, u, w, m, q2)
<1> DEFINE s == m.session
           lay == m.layout
<1>1. IsSeq(q) /\ 1 \in DOMAIN q /\ After(st, u, q, 0)
  BY DEF Slice, IsSeq, ViewOk
<1>2. s \in 1 .. n /\ s \notin L /\ Sound(H, n, lay) /\ lay \in Layouts
  <2>1. ClosedFits(H, n, L, m)
    BY <1>1 DEF QueueOk, Fits
  <2>2. QED
    BY <2>1 DEF ClosedFits, Sound, Proper
<1>3. IsEdit(q[1])
  BY DEF IsEdit, Closed
<1>4. \A j \in DOMAIN q2 : Earlier(m, q2[j]) /\ (Created(q2[j]) => Below(Leaves(u), q2[j].session))
  BY <1>1, <1>3, AfterEdit
<1>5. ~Created(m)
  BY DEF Created, Closed
<1>6. EditOf(ReconstructLayout(u), m) = ApplyClosePane(ReconstructLayout(u), s, lay)
  BY DEF EditOf, Created, Closed
<1>7. Shows(Leaves(u), m) = IF Leaves(u) = {s} THEN Leaves(lay) ELSE Leaves(u) \ {s}
  BY DEF Created, Closed, Connected, Shows
<1>8. CASE s \notin Leaves(u)
  <2>1. ApplyClosePane(ReconstructLayout(u), s, lay) = ReconstructLayout(u)
    BY <1>8, ApplyCloseElse
  <2>2. ViewOk(H, n, L, st, u, q2)
    BY SliceView
  <2>3. Shows(Leaves(u), m) = Leaves(u)
    BY <1>7, <1>8
  <2>4. QED
    BY <1>6, <2>1, <2>2, <2>3 DEF Applied
<1>9. CASE u = Pane(s)
  <2>1. ApplyClosePane(ReconstructLayout(u), s, lay) = ReconstructLayout(lay)
    BY <1>9, ApplyCloseElse
  <2>2. \A j \in DOMAIN q2 : Created(q2[j]) => Below(Leaves(lay), q2[j].session)
    BY <1>4 DEF Earlier
  <2>3. ViewOk(H, n, L, st, lay, q2)
    BY <1>2, <2>2, BelowAfter DEF ViewOk
  <2>4. Leaves(u) = {s}
    <3>1. s \in Sessions
      BY <1>2, MaxSessionsNat DEF Sessions
    <3>2. QED
      BY <1>9, <3>1, PaneLeaves
  <2>5. \A G : Plain(G) = H /\ LastOne(Leaves(u), m) => Left(G, lay)
    <3> SUFFICES ASSUME NEW G, Plain(G) = H, LastOne(Leaves(u), m) PROVE Left(G, lay)
      OBVIOUS
    <3>1. IsPaneTree(lay)
      BY <2>4 DEF LastOne
    <3>2. QED
      BY <1>2, <3>1, LeftOne
  <2>6. QED
    BY <1>2, <1>5, <1>6, <1>7, <2>1, <2>3, <2>4, <2>5 DEF Applied
<1>10. CASE s \in Leaves(u) /\ u # Pane(s)
  <2>1. Leaves(u) \subseteq 1 .. n
    BY DEF ViewOk, Sound, Proper, Twisted
  <2>2. PICK w \in Layouts : ApplyClosePane(ReconstructLayout(u), s, lay) = ReconstructLayout(w) /\ MakesClose(w, u, s)
    BY <1>10, ApplyCloseMakes
  <2>3. Size(w) + 1 = Size(u) /\ Leaves(w) \cup {s} = Leaves(u) /\ (s \in Leaves(w) <=> Twice(u, s))
        /\ (\A x : x # s => (Twice(w, x) <=> Twice(u, x))) /\ (Distinct(u) => w = ClosePaneInLayout(u, s))
    BY <2>2 DEF MakesClose
  <2>4. After(st, w, q2, 0)
    <3>1. \A j \in DOMAIN q2 : Created(q2[j]) => Below(Leaves(w), q2[j].session)
      BY <1>4, <2>3 DEF Below
    <3>2. QED
      BY <3>1, BelowAfter
  <2>5. Leaves(w) \subseteq 1 .. n
    BY <2>1, <2>3
  <2>6. ASSUME Sound(H, n, u)
        PROVE Sound(H, n, w) /\ Leaves(w) = Leaves(u) \ {s} /\ \A G : Left(G, u) => Left(G, w)
    <3>1. Distinct(u) /\ Plain(Joints(u)) = Rest(H, Leaves(u))
      BY <2>6 DEF Sound, Proper
    <3>2. w = ClosePaneInLayout(u, s)
      BY <2>3, <3>1
    <3>3. /\ Distinct(w) /\ Leaves(w) = Leaves(u) \ {s}
          /\ \A G : Left(G, u) => Left(G, w)
          /\ \A I : Plain(Joints(u)) = Rest(I, Leaves(u)) => Plain(Joints(w)) = Rest(I, Leaves(w))
      BY <1>10, <3>1, <3>2, CloseSound
    <3>4. QED
      BY <2>5, <3>1, <3>3 DEF Sound, Proper
  <2>7. ASSUME Twisted(n, L, st, u, q) PROVE Twisted(n, L, st, w, q2)
    <3>1. st /\ Size(u) <= Cardinality(Leaves(u)) + 1
      BY <2>7 DEF Twisted
    <3>2. Size(w) \in Nat /\ Cardinality(Leaves(w)) \in Nat /\ IsFiniteSet(Leaves(w)) /\ Size(u) \in Nat
          /\ Cardinality(Leaves(u)) \in Nat
      BY LeavesType
    <3>3. Cardinality(Leaves(w) \cup {s}) <= Cardinality(Leaves(w)) + 1
      <4>1. Cardinality(Leaves(w) \cup {s}) =
              IF s \in Leaves(w) THEN Cardinality(Leaves(w)) ELSE Cardinality(Leaves(w)) + 1
        BY <3>2, FS_AddElement
      <4>2. QED
        BY <3>2, <4>1
    <3>4. Size(w) <= Cardinality(Leaves(w)) + 1
      BY <2>3, <3>1, <3>2, <3>3
    <3>5. PICK x \in 1 .. n : Wrong(L, u, x) /\ (Twice(u, x) \/ NoClose(q, x))
      BY <2>7 DEF Twisted
    <3>6. CASE x = s
      <4>1. ~NoClose(q, s)
        BY <1>1 DEF NoClose
      <4>2. s \in Leaves(w)
        BY <2>3, <3>5, <3>6, <4>1
      <4>3. Wrong(L, w, s)
        BY <1>2, <4>2 DEF Wrong
      <4>4. NoClose(q2, s)
        BY <1>4 DEF NoClose, Earlier
      <4>5. QED
        BY <1>2, <2>5, <3>1, <3>4, <4>3, <4>4 DEF Twisted
    <3>7. CASE x # s
      <4>1. Wrong(L, w, x)
        BY <2>3, <3>5, <3>7 DEF Wrong
      <4>2. Twice(w, x) \/ NoClose(q2, x)
        BY <2>3, <3>5, <3>7, SliceNoClose
      <4>3. QED
        BY <2>5, <3>1, <3>4, <4>1, <4>2 DEF Twisted
    <3>8. QED
      BY <3>6, <3>7
  <2>8. ViewOk(H, n, L, st, w, q2)
    BY <2>4, <2>6, <2>7 DEF ViewOk
  <2>9. ASSUME ~st PROVE /\ Leaves(w) = Shows(Leaves(u), m)
                         /\ \A G : Left(G, u) => Left(G, w)
    <3>1. Sound(H, n, u)
      BY <2>9 DEF ViewOk, Twisted
    <3>2. Leaves(u) # {s}
      BY <1>10, <3>1, OneLeaf DEF Sound, Proper
    <3>3. QED
      BY <1>7, <2>6, <3>1, <3>2
  <2>10. QED
    BY <1>6, <2>2, <2>8, <2>9 DEF Applied
<1>11. QED
  BY <1>8, <1>9, <1>10

\* A message comes to a page that has a layout.
LEMMA LiveMessage ==
  ASSUME NEW H, NEW n \in Nat, n <= MaxSessions, NEW L, NEW st \in BOOLEAN, NEW u \in Layouts, NEW q, NEW q2, NEW m,
         Slice(q2, q, 1), m = q[1], QueueOk(H, n, L, q), ViewOk(H, n, L, st, u, q)
  PROVE \E w \in Layouts : Applied(H, n, L, st, u, w, m, q2)
<1>1. CASE Created(m)
  BY <1>1, LiveCreated
<1>2. CASE Closed(m)
  BY <1>2, LiveClosed
<1>3. CASE ~Created(m) /\ ~Closed(m)
  <2>1. EditOf(ReconstructLayout(u), m) = ReconstructLayout(u)
    BY <1>3 DEF EditOf
  <2>2. ViewOk(H, n, L, st, u, q2)
    BY SliceView
  <2>3. Leaves(u) # {}
    BY LeavesType
  <2>4. Shows(Leaves(u), m) = Leaves(u)
    <3>1. CASE Connected(m)
      BY <1>3, <2>3, <3>1 DEF Shows
    <3>2. CASE ~Connected(m)
      BY <1>3, <3>2 DEF Shows
    <3>3. QED
      BY <3>1, <3>2
  <2>5. QED
    BY <2>1, <2>2, <2>4 DEF Applied
<1>4. QED
  BY <1>1, <1>2, <1>3

-----------------------------------------------------------------------------
(* Exactness: the ratios *)

\* The parts of Follows.
LEMMA FollowsParts ==
  ASSUME NEW ks, NEW q, NEW K, NEW L, Follows(ks, q, K, L), IsSeq(q)
  PROVE /\ Len(q) \in Nat /\ DOMAIN q = 1 .. Len(q) /\ DOMAIN ks = 0 .. Len(q)
        /\ \A i \in 0 .. Len(q) : ks[i] \in SUBSET Sessions
        /\ ks[0] = K /\ ks[Len(q)] = L
        /\ \A i \in 1 .. Len(q) : ks[i] = Shows(ks[i - 1], q[i]) /\ LastOne(ks[i - 1], q[i])
        /\ \A i \in 0 .. Len(q) : \A j \in i .. Len(q) : ks[i] # {} => ks[j] # {}
BY DEF Follows, IsSeq

\* The first messages are received.
LEMMA FollowsRest ==
  ASSUME NEW ks, NEW q, NEW K, NEW L, Follows(ks, q, K, L), NEW q2, NEW a, Slice(q2, q, a), Len(q2) + a = Len(q)
  PROVE \E ls : Follows(ls, q2, ks[a], L)
<1> DEFINE ls == [i \in 0 .. Len(q2) |-> ks[i + a]]
<1>1. /\ IsSeq(q) /\ Len(q2) \in Nat /\ DOMAIN q2 = 1 .. Len(q2) /\ a \in Nat
      /\ \A i \in 1 .. Len(q2) : q2[i] = q[i + a]
  BY DEF Slice, IsSeq
<1>2. /\ Len(q) \in Nat
      /\ \A i \in 0 .. Len(q) : ks[i] \in SUBSET Sessions
      /\ ks[Len(q)] = L
      /\ \A i \in 1 .. Len(q) : ks[i] = Shows(ks[i - 1], q[i]) /\ LastOne(ks[i - 1], q[i])
      /\ \A i \in 0 .. Len(q) : \A j \in i .. Len(q) : ks[i] # {} => ks[j] # {}
  BY <1>1, FollowsParts, ZenonT(60)
<1>3. \A i \in 0 .. Len(q2) : ls[i] = ks[i + a] /\ i + a \in 0 .. Len(q)
  BY <1>1, <1>2
<1>4. ls \in [0 .. Len(q2) -> SUBSET Sessions]
  BY <1>2, <1>3
<1>5. ls[0] = ks[a] /\ ls[Len(q2)] = L
  <2>1. 0 \in 0 .. Len(q2) /\ Len(q2) \in 0 .. Len(q2) /\ 0 + a = a
    BY <1>1
  <2>2. ls[0] = ks[0 + a] /\ ls[Len(q2)] = ks[Len(q2) + a]
    BY <1>3, <2>1
  <2>3. QED
    BY <1>2, <2>1, <2>2
<1>6. ASSUME NEW i \in DOMAIN q2 PROVE ls[i] = Shows(ls[i - 1], q2[i]) /\ LastOne(ls[i - 1], q2[i])
  <2>1. i + a \in 1 .. Len(q) /\ i \in 0 .. Len(q2) /\ i - 1 \in 0 .. Len(q2) /\ (i + a) - 1 = (i - 1) + a
    BY <1>1, <1>2
  <2>2. ls[i] = ks[i + a] /\ ls[i - 1] = ks[(i + a) - 1] /\ q2[i] = q[i + a]
    BY <1>1, <1>3, <2>1
  <2>3. ks[i + a] = Shows(ks[(i + a) - 1], q[i + a]) /\ LastOne(ks[(i + a) - 1], q[i + a])
    BY <1>2, <2>1
  <2>4. QED
    BY <2>2, <2>3
<1>7. ASSUME NEW i \in 0 .. Len(q2), NEW j \in i .. Len(q2), ls[i] # {} PROVE ls[j] # {}
  <2>1. j \in 0 .. Len(q2) /\ i + a \in 0 .. Len(q) /\ j + a \in i + a .. Len(q)
    BY <1>1, <1>2
  <2>2. ls[i] = ks[i + a] /\ ls[j] = ks[j + a]
    BY <1>3, <2>1
  <2>3. QED
    BY <1>2, <1>7, <2>1, <2>2
<1> HIDE DEF ls
<1>8. QED
  BY <1>4, <1>5, <1>6, <1>7 DEF Follows

\* One more edit.
LEMMA FollowsEdit ==
  ASSUME NEW ks, NEW q, NEW K, NEW L, Follows(ks, q, K, L), NEW q2, NEW m, Inserted(q2, q, Len(q), m),
         Shows(L, m) \in SUBSET Sessions, Shows(L, m) # {}, LastOne(L, m)
  PROVE \E ls : Follows(ls, q2, K, Shows(L, m))
<1> DEFINE n == Len(q)
           ls == [i \in 0 .. n + 1 |-> IF i <= n THEN ks[i] ELSE Shows(L, m)]
<1>1. /\ Len(q2) \in Nat /\ n \in Nat /\ DOMAIN q2 = 1 .. n + 1 /\ Len(q2) = n + 1 /\ q2[n + 1] = m
      /\ \A i \in DOMAIN q2 : i <= n => i \in DOMAIN q /\ q2[i] = q[i]
  BY InsertedIndex
<1>2. /\ \A i \in 0 .. n : ks[i] \in SUBSET Sessions
      /\ ks[0] = K /\ ks[n] = L
      /\ \A i \in 1 .. n : ks[i] = Shows(ks[i - 1], q[i]) /\ LastOne(ks[i - 1], q[i])
      /\ \A i \in 0 .. n : \A j \in i .. n : ks[i] # {} => ks[j] # {}
  <2>1. IsSeq(q)
    BY DEF Inserted
  <2>2. QED
    BY <2>1, FollowsParts
<1> HIDE DEF n
<1>3. (\A i \in 0 .. n : ls[i] = ks[i]) /\ ls[n + 1] = Shows(L, m) /\ ls \in [0 .. n + 1 -> SUBSET Sessions]
  BY <1>1, <1>2
<1> HIDE DEF ls
<1>4. ls[0] = K /\ ls[Len(q2)] = Shows(L, m)
  BY <1>1, <1>2, <1>3
<1>5. ASSUME NEW i \in DOMAIN q2 PROVE ls[i] = Shows(ls[i - 1], q2[i]) /\ LastOne(ls[i - 1], q2[i])
  <2>1. CASE i <= n
    <3>1. i \in 1 .. n /\ i - 1 \in 0 .. n /\ i \in 0 .. n
      BY <1>1, <2>1
    <3>2. ls[i] = ks[i] /\ ls[i - 1] = ks[i - 1] /\ q2[i] = q[i]
      BY <1>1, <1>3, <3>1
    <3>3. QED
      BY <1>2, <3>1, <3>2
  <2>2. CASE i = n + 1
    <3>1. i - 1 = n /\ ls[i - 1] = L /\ q2[i] = m /\ ls[i] = Shows(L, m)
      BY <1>1, <1>2, <1>3, <2>2
    <3>2. QED
      BY <3>1
  <2>3. QED
    BY <1>1, <2>1, <2>2
<1>6. ASSUME NEW i \in 0 .. Len(q2), NEW j \in i .. Len(q2), ls[i] # {} PROVE ls[j] # {}
  <2>1. CASE j <= n
    <3>1. i \in 0 .. n /\ j \in i .. n /\ j \in 0 .. n
      BY <1>1, <2>1
    <3>2. QED
      BY <1>2, <1>3, <1>6, <3>1
  <2>2. CASE j = n + 1
    BY <1>3, <2>2
  <2>3. QED
    BY <1>1, <2>1, <2>2
<1>7. Follows(ls, q2, K, Shows(L, m))
  BY <1>1, <1>3, <1>4, <1>5, <1>6 DEF Follows
<1>8. QED
  BY <1>7

\* A message that changes nothing comes between.
LEMMA FollowsQuiet ==
  ASSUME NEW ks, NEW q, NEW K, NEW L, Follows(ks, q, K, L), NEW q2, NEW a, NEW m, Inserted(q2, q, a, m),
         ~Closed(m), Shows(ks[a], m) = ks[a]
  PROVE \E ls : Follows(ls, q2, K, L)
<1> DEFINE n == Len(q)
           ls == [i \in 0 .. n + 1 |-> IF i <= a THEN ks[i] ELSE ks[i - 1]]
<1>1. /\ n \in Nat /\ DOMAIN q2 = 1 .. n + 1 /\ Len(q2) = n + 1 /\ a \in Nat /\ a <= n /\ q2[a + 1] = m
      /\ \A i \in DOMAIN q2 : /\ i <= a => i \in DOMAIN q /\ q2[i] = q[i]
                              /\ i > a + 1 => i - 1 \in DOMAIN q /\ q2[i] = q[i - 1]
  BY InsertedIndex
<1>2. /\ \A i \in 0 .. n : ks[i] \in SUBSET Sessions
      /\ ks[0] = K /\ ks[n] = L
      /\ \A i \in 1 .. n : ks[i] = Shows(ks[i - 1], q[i]) /\ LastOne(ks[i - 1], q[i])
      /\ \A i \in 0 .. n : \A j \in i .. n : ks[i] # {} => ks[j] # {}
  <2>1. IsSeq(q)
    BY DEF Inserted
  <2>2. QED
    BY <2>1, FollowsParts
<1> HIDE DEF n
<1>3. /\ \A i \in 0 .. n + 1 : /\ i <= a => ls[i] = ks[i]
                               /\ i > a => ls[i] = ks[i - 1] /\ i - 1 \in 0 .. n
      /\ ls \in [0 .. n + 1 -> SUBSET Sessions]
  <2>1. \A i \in 0 .. n + 1 : /\ i <= a => i \in 0 .. n
                              /\ i > a => i - 1 \in 0 .. n
    BY <1>1
  <2>2. QED
    BY <1>1, <1>2, <2>1
<1> HIDE DEF ls
<1>4. ls[0] = K /\ ls[n + 1] = L
  BY <1>1, <1>2, <1>3, SMTT(30)
<1>5. ASSUME NEW i \in DOMAIN q2 PROVE ls[i] = Shows(ls[i - 1], q2[i]) /\ LastOne(ls[i - 1], q2[i])
  <2>0. i \in 1 .. n + 1 /\ i \in 0 .. n + 1 /\ i - 1 \in 0 .. n + 1
    BY <1>1
  <2>1. CASE i <= a
    <3>1. i \in 1 .. n /\ i - 1 <= a
      BY <1>1, <2>0, <2>1
    <3>2. ls[i] = ks[i] /\ ls[i - 1] = ks[i - 1] /\ q2[i] = q[i]
      BY <1>1, <1>3, <2>0, <2>1, <3>1
    <3>3. QED
      BY <1>2, <3>1, <3>2
  <2>2. CASE i = a + 1
    <3>1. i - 1 = a /\ i > a
      BY <1>1, <2>0, <2>2
    <3>2. ls[i] = ks[a] /\ ls[i - 1] = ks[a] /\ q2[i] = m
      BY <1>1, <1>3, <2>0, <2>2, <3>1
    <3>3. QED
      BY <3>2 DEF LastOne
  <2>3. CASE i > a + 1
    <3>1. i - 1 \in 1 .. n /\ i > a /\ i - 1 > a
      BY <1>1, <2>0, <2>3
    <3>2. ls[i] = ks[i - 1] /\ ls[i - 1] = ks[(i - 1) - 1] /\ q2[i] = q[i - 1]
      BY <1>1, <1>3, <2>0, <2>3, <3>1
    <3>3. QED
      BY <1>2, <3>1, <3>2
  <2>4. QED
    BY <1>1, <2>0, <2>1, <2>2, <2>3
<1>6. ASSUME NEW i \in 0 .. n + 1, NEW j \in i .. n + 1, ls[i] # {} PROVE ls[j] # {}
  <2>0. i \in Nat /\ j \in Nat /\ i <= j /\ j \in 0 .. n + 1
    BY <1>1
  <2>1. CASE j <= a
    <3>1. i \in 0 .. n /\ j \in i .. n /\ i <= a
      BY <1>1, <2>0, <2>1
    <3>2. ls[i] = ks[i] /\ ls[j] = ks[j]
      BY <1>3, <2>0, <2>1, <3>1
    <3>3. QED
      BY <1>2, <1>6, <3>1, <3>2
  <2>2. CASE i > a
    <3>1. j > a /\ j - 1 \in i - 1 .. n
      BY <1>1, <2>0, <2>2
    <3>2. ls[i] = ks[i - 1] /\ ls[j] = ks[j - 1] /\ i - 1 \in 0 .. n
      BY <1>3, <2>0, <2>2, <3>1
    <3>3. QED
      BY <1>2, <1>6, <3>1, <3>2
  <2>3. CASE i <= a /\ j > a
    <3>1. i \in 0 .. n /\ j - 1 \in i .. n
      BY <1>1, <2>0, <2>3
    <3>2. ls[i] = ks[i] /\ ls[j] = ks[j - 1]
      BY <1>3, <2>0, <2>3
    <3>3. QED
      BY <1>2, <1>6, <3>1, <3>2
  <2>4. QED
    BY <1>1, <2>0, <2>1, <2>2, <2>3
<1>7. Follows(ls, q2, K, L)
  BY <1>1, <1>3, <1>4, <1>5, <1>6 DEF Follows
<1>8. QED
  BY <1>7

\* What a page shows that is told of no edits.
LEMMA FollowsNothing ==
  ASSUME NEW ks, NEW q, NEW K, NEW L, Follows(ks, q, K, L), IsSeq(q), K # {}, NEW a \in 0 .. Len(q),
         \A i \in 1 .. a : ~IsEdit(q[i])
  PROVE ks[a] = K
<1> DEFINE T == {i \in Nat : i <= a => ks[i] = K}
<1>1. /\ Len(q) \in Nat /\ ks[0] = K
      /\ \A i \in 1 .. Len(q) : ks[i] = Shows(ks[i - 1], q[i])
  BY FollowsParts
<1>2. 0 \in T
  BY <1>1
<1>3. ASSUME NEW i \in Nat, i \in T PROVE i + 1 \in T
  <2> SUFFICES ASSUME i + 1 <= a PROVE ks[i + 1] = K
    OBVIOUS
  <2>1. i <= a /\ ks[i] = K /\ i + 1 \in 1 .. a /\ i + 1 \in 1 .. Len(q) /\ (i + 1) - 1 = i
    BY <1>1, <1>3
  <2>2. ks[i + 1] = Shows(K, q[i + 1]) /\ ~IsEdit(q[i + 1])
    BY <1>1, <2>1
  <2>3. Shows(K, q[i + 1]) = K
    <3>1. ~Created(q[i + 1]) /\ ~Closed(q[i + 1])
      BY <2>2 DEF IsEdit, Created, Closed
    <3>2. CASE Connected(q[i + 1])
      BY <3>1, <3>2 DEF Shows
    <3>3. CASE ~Connected(q[i + 1])
      BY <3>1, <3>3 DEF Shows
    <3>4. QED
      BY <3>2, <3>3
  <2>4. QED
    BY <2>2, <2>3
<1> HIDE DEF T
<1>4. Nat \subseteq T
  BY <1>2, <1>3, Induction
<1>5. QED
  BY <1>1, <1>4 DEF T

\* The messages to a page that is to get its layout with the last one.
LEMMA FollowsGreet ==
  ASSUME NEW q, IsSeq(q), Len(q) # 0, NEW L \in SUBSET Sessions, L # {}, Connected(q[Len(q)]), Leaves(q[Len(q)].layout) = L,
         \A i \in 1 .. Len(q) - 1 : q[i].type = "disconnected"
  PROVE \E ks : Follows(ks, q, {}, L)
<1> DEFINE n == Len(q)
           ks == [i \in 0 .. n |-> IF i < n THEN {} ELSE L]
<1>1. n \in Nat /\ n # 0 /\ DOMAIN q = 1 .. n
  BY DEF IsSeq
<1>2. (\A i \in 0 .. n : i < n => ks[i] = {}) /\ ks[n] = L /\ ks \in [0 .. n -> SUBSET Sessions]
  BY <1>1
<1> HIDE DEF ks
<1>3. ASSUME NEW i \in 1 .. n PROVE ks[i] = Shows(ks[i - 1], q[i]) /\ LastOne(ks[i - 1], q[i])
  <2>1. ks[i - 1] = {}
    BY <1>1, <1>2
  <2>2. CASE i = n
    <3>1. Shows({}, q[n]) = L /\ ~Closed(q[n])
      BY DEF Shows, Connected, Created, Closed
    <3>2. QED
      BY <1>2, <2>1, <2>2, <3>1 DEF LastOne
  <2>3. CASE i # n
    <3>1. q[i].type = "disconnected" /\ ks[i] = {}
      BY <1>1, <1>2, <2>3
    <3>2. Shows({}, q[i]) = {} /\ ~Closed(q[i])
      BY <3>1 DEF Shows, Connected, Created, Closed
    <3>3. QED
      BY <2>1, <3>1, <3>2 DEF LastOne
  <2>4. QED
    BY <2>2, <2>3
<1>4. ks[0] = {}
  <2> HIDE DEF n
  <2>1. 0 \in 0 .. n /\ 0 < n
    BY <1>1
  <2>2. QED
    BY <2>1, <1>2
<1>5. \A i \in 0 .. n : \A j \in i .. n : ks[i] # {} => ks[j] # {}
  BY <1>1, <1>2
<1>6. Follows(ks, q, {}, L)
  BY <1>1, <1>2, <1>3, <1>4, <1>5 DEF Follows
<1>7. QED
  BY <1>6

\* What a page shows that shows a tree: its sessions, and no other tree.
LEMMA ShownTree ==
  ASSUME NEW u \in Layouts
  PROVE /\ ReconstructLayout(u) # Blank /\ ShownIn(ReconstructLayout(u)) = Leaves(u)
        /\ \A w \in Layouts : ReconstructLayout(w) = ReconstructLayout(u) => w = u
<1>1. ReconstructLayout(u) # Blank
  BY ReconPanes DEF Blank
<1>2. ShownIn(ReconstructLayout(u)) = Leaves(u)
  <2>1. \A x \in Panes(ReconstructLayout(u)) : x.label.session \in Leaves(u)
    BY ReconPanes
  <2>2. \A s \in Leaves(u) : \E x \in Panes(ReconstructLayout(u)) : x.label.session = s
    BY ReconPanes
  <2>3. QED
    BY <2>1, <2>2 DEF ShownIn
<1>3. ASSUME NEW w \in Layouts, ReconstructLayout(w) = ReconstructLayout(u) PROVE w = u
  <2>1. SerializeTree(ReconstructLayout(w)) = w /\ SerializeTree(ReconstructLayout(u)) = u
    BY SerializeReconstructed
  <2>2. QED
    BY <1>3, <2>1
<1>4. QED
  BY <1>1, <1>2, <1>3

\* A blank page shows no session.
LEMMA ShownBlank == ShownIn(Blank) = {}
BY DEF ShownIn, Blank, Panes

\* Messages are received, lost or put in that tell of no other splits.
LEMMA ExactQueue ==
  ASSUME NEW H, NEW G, NEW t, NEW v, NEW q, NEW w, Exact(H, G, t, v, q, w), NEW q2,
         \A i \in DOMAIN q2 : Created(q2[i]) => \E j \in DOMAIN q : q[j] = q2[i],
         v = Blank => \A i \in DOMAIN q2 : GreetAt(q2, i) => Left(G, q2[i].layout)
  PROVE Exact(H, G, t, v, q2, w)
<1>1. \A i \in DOMAIN q2 : Created(q2[i]) => Born(G, q2[i])
  BY DEF Exact
<1>2. QED
  BY <1>1 DEF Exact

\* What is known exactly stays so when messages are received.
LEMMA ExactSlice ==
  ASSUME NEW H, NEW G, NEW t, NEW v, NEW q, NEW w, Exact(H, G, t, v, q, w), NEW q2, NEW a, Slice(q2, q, a),
         v = Blank => \A i \in 1 .. a : q[i].type = "disconnected"
  PROVE Exact(H, G, t, v, q2, w)
<1>1. /\ Len(q2) \in Nat /\ DOMAIN q2 = 1 .. Len(q2) /\ DOMAIN q = 1 .. Len(q) /\ Len(q) \in Nat
      /\ a \in Nat /\ Len(q2) + a <= Len(q)
      /\ \A i \in 1 .. Len(q2) : q2[i] = q[i + a]
  BY DEF Slice, IsSeq
<1>2. \A i \in DOMAIN q2 : Created(q2[i]) => \E j \in DOMAIN q : q[j] = q2[i]
  <2>1. \A i \in DOMAIN q2 : i + a \in DOMAIN q /\ q[i + a] = q2[i]
    BY <1>1
  <2>2. QED
    BY <2>1
<1>3. ASSUME v = Blank, NEW i \in DOMAIN q2, GreetAt(q2, i) PROVE Left(G, q2[i].layout)
  <2>1. i + a \in DOMAIN q /\ q[i + a] = q2[i] /\ i \in 1 .. Len(q2)
    BY <1>1
  <2>2. ASSUME NEW j \in 1 .. (i + a) - 1 PROVE q[j].type = "disconnected"
    <3>1. CASE j <= a
      BY <1>1, <1>3, <3>1
    <3>2. CASE j > a
      <4>1. j - a \in 1 .. i - 1 /\ j - a \in 1 .. Len(q2) /\ (j - a) + a = j
        BY <1>1, <3>2
      <4>2. q2[j - a] = q[(j - a) + a] /\ q2[j - a].type = "disconnected"
        BY <1>1, <1>3, <4>1 DEF GreetAt
      <4>3. QED
        BY <4>1, <4>2
    <3>3. QED
      BY <1>1, <3>1, <3>2
  <2>3. GreetAt(q, i + a)
    BY <1>3, <2>1, <2>2 DEF GreetAt
  <2>4. QED
    BY <1>3, <2>1, <2>3 DEF Exact
<1>4. QED
  BY <1>2, <1>3, ExactQueue

\* disconnected, or connected to a page that shows something already
LEMMA ExactQuiet ==
  ASSUME NEW H, NEW G, NEW t, NEW v, NEW q, NEW w, Exact(H, G, t, v, q, w), NEW q2, NEW a, NEW m, Inserted(q2, q, a, m),
         Created(m) => Born(G, m), v = Blank => ~Connected(m)
  PROVE Exact(H, G, t, v, q2, w)
<1>1. /\ Len(q2) \in Nat /\ Len(q) \in Nat /\ DOMAIN q2 = 1 .. Len(q2) /\ DOMAIN q = 1 .. Len(q)
      /\ Len(q2) = Len(q) + 1 /\ a \in Nat /\ a <= Len(q) /\ a + 1 \in DOMAIN q2 /\ q2[a + 1] = m
      /\ \A k \in DOMAIN q2 : /\ k <= a => k \in DOMAIN q /\ q2[k] = q[k]
                              /\ k > a + 1 => k - 1 \in DOMAIN q /\ q2[k] = q[k - 1]
  BY InsertedIndex
<1>2. \A k \in DOMAIN q2 : k <= a \/ k = a + 1 \/ k > a + 1
  BY <1>1
<1>3. \A i \in DOMAIN q2 : Created(q2[i]) => Born(G, q2[i])
  BY <1>1, <1>2 DEF Exact
<1>4. ASSUME v = Blank, NEW i \in DOMAIN q2, GreetAt(q2, i) PROVE Left(G, q2[i].layout)
  <2>1. CASE i <= a
    <3>1. i \in DOMAIN q /\ q2[i] = q[i]
      BY <1>1, <2>1
    <3>2. \A j \in 1 .. i - 1 : j \in DOMAIN q2 /\ j <= a
      BY <1>1, <2>1
    <3>3. GreetAt(q, i)
      BY <1>1, <1>4, <3>1, <3>2 DEF GreetAt
    <3>4. QED
      BY <1>4, <3>1, <3>3 DEF Exact
  <2>2. CASE i = a + 1
    BY <1>1, <1>4, <2>2 DEF GreetAt
  <2>3. CASE i > a + 1
    <3>1. i - 1 \in DOMAIN q /\ q2[i] = q[i - 1]
      BY <1>1, <2>3
    <3>2. ASSUME NEW j \in 1 .. (i - 1) - 1 PROVE q[j].type = "disconnected"
      <4>1. CASE j <= a
        <5>1. j \in DOMAIN q2 /\ j \in 1 .. i - 1 /\ q2[j] = q[j]
          BY <1>1, <2>3, <4>1
        <5>2. QED
          BY <1>4, <5>1 DEF GreetAt
      <4>2. CASE j > a
        <5>1. j + 1 \in DOMAIN q2 /\ j + 1 > a + 1 /\ j + 1 \in 1 .. i - 1 /\ (j + 1) - 1 = j
          BY <1>1, <2>3, <4>2
        <5>2. q2[j + 1] = q[(j + 1) - 1]
          BY <1>1, <5>1
        <5>3. QED
          BY <1>4, <5>1, <5>2 DEF GreetAt
      <4>3. QED
        BY <1>1, <4>1, <4>2
    <3>3. GreetAt(q, i - 1)
      BY <1>4, <3>1, <3>2 DEF GreetAt
    <3>4. QED
      BY <1>4, <3>1, <3>3 DEF Exact
  <2>4. QED
    BY <1>2, <2>1, <2>2, <2>3
<1>5. QED
  BY <1>3, <1>4 DEF Exact

\* The page shows another tree.
LEMMA ExactView ==
  ASSUME NEW H, NEW G, NEW t, NEW v, NEW q, NEW w, Exact(H, G, t, v, q, w), NEW u \in Layouts, Left(G, u),
         NEW q2, NEW a, Slice(q2, q, a)
  PROVE Exact(H, G, t, ReconstructLayout(u), q2, w)
<1>1. \A i \in DOMAIN q2 : i + a \in DOMAIN q /\ q2[i] = q[i + a]
  BY DEF Slice, IsSeq
<1>2. \A i \in DOMAIN q2 : Created(q2[i]) => Born(G, q2[i])
  BY <1>1 DEF Exact
<1>3. ReconstructLayout(u) # Blank
  BY ShownTree
<1>4. \A x \in Layouts : ReconstructLayout(u) = ReconstructLayout(x) => Left(G, x)
  BY ShownTree
<1>5. QED
  BY <1>2, <1>3, <1>4 DEF Exact

\* The server's tree changes as the page's copy of its joints says.
LEMMA ExactTree ==
  ASSUME NEW H, NEW G, NEW t, NEW v, NEW q, NEW w, Exact(H, G, t, v, q, w), NEW t2, Left(G, t) => Left(G, t2)
  PROVE Exact(H, G, t2, v, q, w)
BY DEF Exact

\* A command that is no update does not change it.
LEMMA ExactSend ==
  ASSUME NEW H, NEW G, NEW t, NEW v, NEW q, NEW w, Exact(H, G, t, v, q, w), NEW w2, NEW m,
         Inserted(w2, w, Len(w), m), ~IsUpdate(m)
  PROVE Exact(H, G, t, v, q, w2)
<1>1. /\ Len(w2) \in Nat /\ Len(w) \in Nat /\ DOMAIN w2 = 1 .. Len(w2) /\ DOMAIN w = 1 .. Len(w)
      /\ Len(w2) = Len(w) + 1 /\ w2[Len(w) + 1] = m
      /\ \A k \in DOMAIN w2 : k <= Len(w) => k \in DOMAIN w /\ w2[k] = w[k]
  BY InsertedIndex
<1>2. \A k \in DOMAIN w : k \in DOMAIN w2 /\ w2[k] = w[k]
  BY <1>1
<1>3. ASSUME NEW i \in DOMAIN w2, LastUpdate(w2, i) PROVE Left(G, w2[i].layout)
  <2>1. i # Len(w) + 1
    BY <1>1, <1>3 DEF LastUpdate
  <2>2. i \in DOMAIN w /\ w2[i] = w[i]
    BY <1>1, <2>1
  <2>3. \A j \in i + 1 .. Len(w) : j \in DOMAIN w /\ j \in i + 1 .. Len(w2)
    BY <1>1, <2>2
  <2>4. LastUpdate(w, i)
    BY <1>2, <1>3, <2>2, <2>3 DEF LastUpdate
  <2>5. QED
    BY <2>2, <2>4 DEF Exact
<1>4. (\A i \in DOMAIN w2 : ~IsUpdate(w2[i])) => Left(G, t)
  BY <1>2 DEF Exact
<1>5. QED
  BY <1>3, <1>4 DEF Exact

\* The server reads a command, and takes over the layout if it is one.
LEMMA ExactRead ==
  ASSUME NEW H, NEW G, NEW t, NEW v, NEW q, NEW w, Exact(H, G, t, v, q, w), NEW w2, Slice(w2, w, 1), Len(w2) + 1 = Len(w),
         NEW t2, t2 = IF IsUpdate(w[1]) THEN w[1].layout ELSE t
  PROVE Exact(H, G, t2, v, q, w2)
<1>1. /\ Len(w2) \in Nat /\ DOMAIN w2 = 1 .. Len(w2) /\ DOMAIN w = 1 .. Len(w) /\ Len(w) = Len(w2) + 1
      /\ \A i \in 1 .. Len(w2) : w2[i] = w[i + 1]
  BY DEF Slice, IsSeq
<1>2. \A j \in 2 .. Len(w) : j - 1 \in 1 .. Len(w2) /\ w2[j - 1] = w[j]
  <2> SUFFICES ASSUME NEW j \in 2 .. Len(w) PROVE j - 1 \in 1 .. Len(w2) /\ w2[j - 1] = w[j]
    OBVIOUS
  <2>1. j - 1 \in 1 .. Len(w2) /\ (j - 1) + 1 = j
    BY <1>1
  <2>2. w2[j - 1] = w[(j - 1) + 1]
    BY <1>1, <2>1
  <2>3. QED
    BY <2>1, <2>2
<1>3. 1 \in DOMAIN w /\ \A j \in DOMAIN w : j = 1 \/ j \in 2 .. Len(w)
  BY <1>1
<1>4. ASSUME \A i \in DOMAIN w2 : ~IsUpdate(w2[i]) PROVE Left(G, t2)
  <2>1. \A j \in 2 .. Len(w) : ~IsUpdate(w[j])
    BY <1>1, <1>2, <1>4
  <2>2. CASE IsUpdate(w[1])
    <3>1. LastUpdate(w, 1)
      BY <2>1, <2>2 DEF LastUpdate
    <3>2. QED
      BY <1>3, <2>2, <3>1 DEF Exact
  <2>3. CASE ~IsUpdate(w[1])
    BY <1>3, <2>1, <2>3 DEF Exact
  <2>4. QED
    BY <2>2, <2>3
<1>5. ASSUME NEW i \in DOMAIN w2, LastUpdate(w2, i) PROVE Left(G, w2[i].layout)
  <2>1. i + 1 \in DOMAIN w /\ w2[i] = w[i + 1] /\ i \in 1 .. Len(w2)
    BY <1>1
  <2>2. \A j \in (i + 1) + 1 .. Len(w) : j \in 2 .. Len(w) /\ j - 1 \in i + 1 .. Len(w2)
    BY <1>1, <2>1
  <2>3. LastUpdate(w, i + 1)
    BY <1>2, <1>5, <2>1, <2>2 DEF LastUpdate
  <2>4. QED
    BY <2>1, <2>3 DEF Exact
<1>6. QED
  BY <1>4, <1>5 DEF Exact

\* All that is known of the page has sessions up to n.
Within(n, v, q, w) ==
  /\ \A u \in Layouts : v = ReconstructLayout(u) => Leaves(u) \subseteq 1 .. n
  /\ \A i \in DOMAIN q : /\ Created(q[i]) => q[i].session \in 1 .. n
                         /\ Connected(q[i]) => Leaves(q[i].layout) \subseteq 1 .. n
  /\ \A i \in DOMAIN w : IsUpdate(w[i]) => Leaves(w[i].layout) \subseteq 1 .. n

\* A page knows only of sessions made.
LEMMA IsWithin ==
  ASSUME NEW H, NEW n, NEW L, NEW st, NEW v, NEW b, NEW q, PageOk(H, n, L, st, v, b, q), NEW w, UpdatesOk(H, n, L, v, w)
  PROVE Within(n, v, q, w)
<1>1. ASSUME NEW u \in Layouts, v = ReconstructLayout(u) PROVE Leaves(u) \subseteq 1 .. n
  <2>1. v # Blank
    BY <1>1, ShownTree
  <2>2. PICK x \in Layouts : v = ReconstructLayout(x) /\ ViewOk(H, n, L, st, x, q)
    BY <2>1 DEF PageOk
  <2>3. x = u
    BY <1>1, <2>2, ShownTree
  <2>4. QED
    BY <2>2, <2>3 DEF ViewOk, Sound, Proper, Twisted
<1>2. \A i \in DOMAIN q : Fits(H, n, L, q[i])
  BY DEF PageOk, QueueOk
<1>3. \A i \in DOMAIN q : /\ Created(q[i]) => q[i].session \in 1 .. n
                          /\ Connected(q[i]) => Leaves(q[i].layout) \subseteq 1 .. n
  BY <1>2 DEF Fits, CreatedFits, Sound, Proper
<1>4. QED
  BY <1>1, <1>3 DEF Within, UpdatesOk

\* What is known exactly stays so when the server goes on.
LEMMA ExactEvolves ==
  ASSUME NEW n \in Nat, NEW H, NEW G, NEW t, NEW v, NEW q, NEW w, Exact(H, G, t, v, q, w), Within(n, v, q, w),
         NEW H2, NEW G2 \in SUBSET AllJoints, Plain(G2) = H2, NEW t2,
         \A K \in SUBSET (1 .. n) : Rest(G2, K) = Rest(G, K),
         Left(G, t) => Left(G2, t2)
  PROVE Exact(H2, G2, t2, v, q, w)
<1>1. \A x : Leaves(x) \subseteq 1 .. n /\ Left(G, x) => Left(G2, x)
  BY DEF Left
<1>2. \A u \in Layouts : v = ReconstructLayout(u) => Left(G2, u)
  BY <1>1 DEF Exact, Within
<1>3. v = Blank => \A i \in DOMAIN q : GreetAt(q, i) => Left(G2, q[i].layout)
  BY <1>1 DEF Exact, Within, GreetAt
<1>4. \A i \in DOMAIN q : Created(q[i]) => Born(G2, q[i])
  <2> SUFFICES ASSUME NEW i \in DOMAIN q, Created(q[i]) PROVE Born(G2, q[i])
    OBVIOUS
  <2>1. q[i].session \in 1 .. n /\ Born(G, q[i])
    BY DEF Exact, Within
  <2>2. Evolves(G, n, {}, G2, n, {})
    BY DEF Evolves
  <2>3. QED
    BY <2>1, <2>2, BornEvolves
<1>5. (\A i \in DOMAIN w : ~IsUpdate(w[i])) => Left(G2, t2)
  BY DEF Exact
<1>6. \A i \in DOMAIN w : LastUpdate(w, i) => Left(G2, w[i].layout)
  BY <1>1 DEF Exact, Within, LastUpdate
<1>7. QED
  BY <1>2, <1>3, <1>4, <1>5, <1>6 DEF Exact

\* The sessions of joints do not depend on the ratios.
LEMMA PlainSides ==
  ASSUME NEW G, NEW S, \A j \in Plain(G) : j.one \subseteq S /\ j.two \subseteq S
  PROVE \A j \in G : j.one \subseteq S /\ j.two \subseteq S
BY PlainFields DEF Plain

\* A split adds joints of sessions.
LEMMA GrowType ==
  ASSUME NEW G \in SUBSET AllJoints, NEW s \in Sessions, NEW n \in Sessions, NEW d \in Directions
  PROVE Grow(G, s, n, d) \in SUBSET AllJoints
<1> SUFFICES ASSUME NEW h \in Grow(G, s, n, d) PROVE h \in AllJoints
  OBVIOUS
<1>1. h = Joint(d, Half, {s}, {n}) \/ \E j \in G : h = JointWith(j, s, n)
  BY DEF Grow
<1>2. CASE h = Joint(d, Half, {s}, {n})
  BY <1>2 DEF Joint, AllJoints
<1>3. CASE \E j \in G : h = JointWith(j, s, n)
  <2>1. PICK j \in G : h = JointWith(j, s, n)
    BY <1>3
  <2>2. With(j.one, s, n) \in SUBSET Sessions /\ With(j.two, s, n) \in SUBSET Sessions
    BY DEF With, AllJoints
  <2>3. QED
    BY <2>1, <2>2 DEF JointWith, Joint, AllJoints
<1>4. QED
  BY <1>1, <1>2, <1>3

\* A split goes through in the server's tree, and is to be told.
LEMMA ExactSplit ==
  ASSUME NEW n \in Nat, n + 1 <= MaxSessions, NEW H, Grown(H, n), NEW G, NEW t \in Layouts, NEW v, NEW q, NEW w,
         Exact(H, G, t, v, q, w), Within(n, v, q, w), Distinct(t), Leaves(t) \subseteq 1 .. n,
         NEW m, m.session = n + 1, m.target \in Leaves(t), m.direction \in Directions, Created(m),
         NEW q2, Inserted(q2, q, Len(q), m)
  PROVE Exact(Grow(H, m.target, n + 1, m.direction), Grow(G, m.target, n + 1, m.direction),
              SplitLayoutNode(t, m.target, n + 1, m.direction), v, q2, w)
<1> DEFINE s == m.target
           k == n + 1
           d == m.direction
           G2 == Grow(G, s, k, d)
           H2 == Grow(H, s, k, d)
           t2 == SplitLayoutNode(t, s, k, d)
<1>1. k \in Nat /\ k # 0 /\ k \in Sessions /\ s \in Sessions /\ s \in 1 .. n /\ k \notin 1 .. n /\ d \in Directions /\ m.session = k
      /\ k - 1 = n
  BY LeavesType, MaxSessionsNat DEF Sessions
<1>2. G \in SUBSET AllJoints /\ Plain(G) = H
  BY DEF Exact
<1>3. \A j \in G : k \notin j.one /\ k \notin j.two
  <2>1. \A j \in Plain(G) : j.one \subseteq 1 .. n /\ j.two \subseteq 1 .. n
    BY <1>2 DEF Grown
  <2>2. \A j \in G : j.one \subseteq 1 .. n /\ j.two \subseteq 1 .. n
    BY <2>1, PlainSides
  <2>3. QED
    BY <1>1, <2>2
<1> HIDE DEF k
<1>4. G2 \in SUBSET AllJoints
  BY <1>1, <1>2, GrowType
<1>5. Plain(G2) = H2
  BY <1>2, PlainGrow
<1>6. \A K \in SUBSET (1 .. n) : Rest(G2, K) = Rest(G, K)
  <2> SUFFICES ASSUME NEW K \in SUBSET (1 .. n) PROVE Rest(G2, K) = Rest(G, K)
    OBVIOUS
  <2>1. k \notin K
    BY <1>1
  <2>2. QED
    BY <2>1, GrowOutside
<1>7. Born(G2, m)
  <2>1. Rest(G2, (1 .. n) \cup {k}) = Grow(Rest(G, 1 .. n), s, k, d)
    BY <1>1, <1>3, GrowInside
  <2>2. 1 .. k = (1 .. n) \cup {k}
    BY <1>1, Below1
  <2>3. Rest(G2, 1 .. n) = Rest(G, 1 .. n)
    BY <1>6
  <2>4. QED
    BY <1>1, <2>1, <2>2, <2>3 DEF Born
<1>8. Left(G, t) => Left(G2, t2)
  <2>1. Left(G, t) => Left(G2, t)
    BY <1>6 DEF Left
  <2>2. Leaves(t) \subseteq 1 .. m.session - 1
    BY <1>1
  <2>3. t2 = SplitLayoutNode(t, m.target, m.session, m.direction)
    BY <1>1
  <2>4. \A X : Left(X, t) /\ Born(X, m) => Left(X, t2)
    <3> DEFINE y == t2
    <3>1. y = SplitLayoutNode(t, m.target, m.session, m.direction)
      BY <2>3
    <3> HIDE DEF y
    <3>2. \A X : Left(X, t) /\ Born(X, m) => Left(X, y)
      BY <1>1, <2>2, <3>1, SplitSound
    <3>3. QED
      BY <3>2 DEF y
  <2>5. QED
    BY <1>7, <2>1, <2>4
<1> HIDE DEF G2, H2, t2
<1>9. Exact(H2, G2, t2, v, q, w)
  BY <1>4, <1>5, <1>6, <1>8, ExactEvolves
<1>10. Exact(H2, G2, t2, v, q2, w)
  <2>1. ~Connected(m)
    BY DEF Created, Connected
  <2>2. QED
    BY <1>7, <1>9, <2>1, ExactQuiet
<1>11. QED
  BY <1>10 DEF G2, H2, t2, s, k, d

\* A handle is dragged.
LEMMA ExactDrag ==
  ASSUME NEW H, NEW G, NEW t, NEW q, NEW w, NEW n, NEW u \in Layouts, Exact(H, G, t, ReconstructLayout(u), q, w),
         Sound(H, n, u), NEW x \in Layouts, Leaves(x) = Leaves(u), Plain(Joints(x)) = Plain(Joints(u)),
         \A i \in DOMAIN q : Created(q[i]) =>
           q[i].session \in Nat /\ q[i].session # 0 /\ Leaves(u) \subseteq 1 .. q[i].session - 1,
         NEW m, IsUpdate(m), m.layout = x, NEW w2, Inserted(w2, w, Len(w), m)
  PROVE Exact(H, Graft(G, Joints(x), Leaves(u)), t, ReconstructLayout(x), q, w2)
<1> DEFINE U == Leaves(u)
           J == Joints(x)
           G2 == Graft(G, J, U)
<1>1. G \in SUBSET AllJoints /\ J \in SUBSET AllJoints /\ Plain(G) = H
  BY JointsType DEF Exact
<1>2. Plain(Rest(G, U)) = Plain(J)
  <2>1. Plain(Rest(G, U)) = Rest(H, U)
    BY <1>1, PlainRest
  <2>2. QED
    BY <2>1 DEF Sound
<1>0. \A i \in DOMAIN q : Created(q[i]) => q[i].session \in Nat /\ q[i].session # 0 /\ U \subseteq 1 .. q[i].session - 1
  OBVIOUS
<1>a. Leaves(x) = U /\ Joints(x) = J
  OBVIOUS
<1> HIDE DEF U, J
<1>3. G2 \in SUBSET AllJoints
  BY <1>1, GraftType
<1>4. Plain(G2) = H
  BY <1>1, <1>2, GraftPlain
<1>5. Rest(G2, U) = J
  BY <1>1, <1>2, GraftRest
<1>6. \A i \in DOMAIN q : Created(q[i]) => Born(G2, q[i])
  <2> SUFFICES ASSUME NEW i \in DOMAIN q, Created(q[i]) PROVE Born(G2, q[i])
    OBVIOUS
  <2>1. Born(G, q[i])
    BY DEF Exact
  <2>2. QED
    BY <1>0, <2>1, BornGrafted
<1> HIDE DEF G2
<1>7. Left(G2, x)
  BY <1>a, <1>5 DEF Left
<1>8. ReconstructLayout(x) # Blank /\ \A y \in Layouts : ReconstructLayout(x) = ReconstructLayout(y) => Left(G2, y)
  BY <1>7, ShownTree
<1>9. /\ Len(w2) \in Nat /\ Len(w) \in Nat /\ DOMAIN w2 = 1 .. Len(w2) /\ DOMAIN w = 1 .. Len(w)
      /\ Len(w2) = Len(w) + 1 /\ w2[Len(w) + 1] = m
  BY InsertedIndex
<1>10. ~(\A i \in DOMAIN w2 : ~IsUpdate(w2[i]))
  BY <1>9
<1>11. ASSUME NEW i \in DOMAIN w2, LastUpdate(w2, i) PROVE Left(G2, w2[i].layout)
  <2>1. i = Len(w) + 1
    <3>1. i < Len(w) + 1 => Len(w) + 1 \in i + 1 .. Len(w2)
      BY <1>9
    <3>2. QED
      BY <1>9, <1>11, <3>1 DEF LastUpdate
  <2>2. QED
    BY <1>7, <1>9, <2>1
<1>12. Exact(H, G2, t, ReconstructLayout(x), q, w2)
  BY <1>3, <1>4, <1>6, <1>8, <1>10, <1>11 DEF Exact
<1>13. QED
  BY <1>12 DEF G2, J, U

\* The page is to get the server's tree as it is.
LEMMA ExactGreet ==
  ASSUME NEW H, NEW n, Grown(H, n), NEW t, Sound(H, n, t), NEW q, IsSeq(q), q[Len(q)].layout = t,
         \A i \in 1 .. Len(q) - 1 : q[i].type = "disconnected", Connected(q[Len(q)]),
         NEW w, \A i \in DOMAIN w : ~IsUpdate(w[i])
  PROVE \E G : Exact(H, G, t, Blank, q, w)
<1> DEFINE U == Leaves(t)
           J == Joints(t)
           G == Graft(H, J, U)
<1>1. t \in Layouts /\ Plain(J) = Rest(H, U)
  BY DEF Sound, Proper
<1>2. H \in SUBSET AllJoints /\ J \in SUBSET AllJoints /\ Plain(H) = H
  BY <1>1, JointsType DEF Grown
<1>3. Plain(Rest(H, U)) = Plain(J)
  <2>1. Plain(Rest(H, U)) = Rest(Plain(H), U)
    BY PlainRest
  <2>2. QED
    BY <1>1, <1>2, <2>1
<1>a. Leaves(t) = U /\ Joints(t) = J
  OBVIOUS
<1> HIDE DEF U, J
<1>4. G \in SUBSET AllJoints /\ Plain(G) = H /\ Rest(G, U) = J
  BY <1>2, <1>3, GraftType, GraftPlain, GraftRest
<1> HIDE DEF G
<1>5. Left(G, t)
  BY <1>a, <1>4 DEF Left
<1>6. \A u \in Layouts : Blank # ReconstructLayout(u)
  BY ShownTree
<1>7. \A i \in DOMAIN q : /\ ~Created(q[i])
                          /\ Connected(q[i]) => q[i].layout = t
  <2>1. \A i \in DOMAIN q : i = Len(q) \/ i \in 1 .. Len(q) - 1
    BY DEF IsSeq
  <2>2. QED
    BY <2>1 DEF Created, Connected
<1>8. \A i \in DOMAIN q : GreetAt(q, i) => Left(G, q[i].layout)
  BY <1>5, <1>7 DEF GreetAt
<1>9. Exact(H, G, t, Blank, q, w)
  BY <1>4, <1>5, <1>6, <1>7, <1>8 DEF Exact, LastUpdate
<1>10. QED
  BY <1>9

-----------------------------------------------------------------------------
(* Types *)

\* What a message, a job or a page may hold grows with the sessions made.
LEMMA TypesGrow ==
  ASSUME NEW n \in Nat, NEW k \in Nat, n <= k
  PROVE /\ \A t : Proper(t, n) => Proper(t, k)
        /\ ServerTrees(n) \subseteq ServerTrees(k) /\ Edits(n) \subseteq Edits(k)
        /\ DownMessages(n) \subseteq DownMessages(k) /\ Jobs(n) \subseteq Jobs(k)
        /\ \A x : GoodNode(n, x) => GoodNode(k, x)
<1>1. 1 .. n \subseteq 1 .. k
  OBVIOUS
<1>2. \A t : Proper(t, n) => Proper(t, k)
  BY <1>1 DEF Proper
<1>3. ServerTrees(n) \subseteq ServerTrees(k)
  BY <1>2 DEF ServerTrees
<1>4. Edits(n) \subseteq Edits(k)
  BY <1>1, <1>3 DEF Edits
<1>5. DownMessages(n) \subseteq DownMessages(k)
  BY <1>3, <1>4 DEF DownMessages
<1>6. Jobs(n) \subseteq Jobs(k)
  BY <1>3, <1>4 DEF Jobs
<1>7. \A x : GoodNode(n, x) => GoodNode(k, x)
  BY <1>1 DEF GoodNode
<1>8. QED
  BY <1>2, <1>3, <1>4, <1>5, <1>6, <1>7

\* Sequences over a larger set.
LEMMA SeqGrows ==
  ASSUME NEW S, NEW T, S \subseteq T PROVE Seq(S) \subseteq Seq(T)
  BY SeqDef

\* Messages stay proper when more sessions are made.
LEMMA DownGrows ==
  ASSUME NEW n \in Nat, NEW k \in Nat, n <= k, NEW f \in [Conns -> Seq(DownMessages(n))]
  PROVE f \in [Conns -> Seq(DownMessages(k))]
<1>1. Seq(DownMessages(n)) \subseteq Seq(DownMessages(k))
  BY TypesGrow, SeqGrows
<1>2. QED
  BY <1>1

\* The messages, by their types.
LEMMA EditFields ==
  ASSUME NEW n \in Nat, NEW m \in Edits(n)
  PROVE /\ IsEdit(m) /\ (Created(m) \/ Closed(m)) /\ ~Connected(m)
        /\ Created(m) => m.session \in 1 .. n /\ m.target \in 1 .. n /\ m.direction \in Directions
        /\ Closed(m) => m.session \in Sessions /\ Proper(m.layout, n)
  BY DEF Edits, IsEdit, Created, Closed, Connected, ServerTrees

\* The fields of a message to a page.
LEMMA DownFields ==
  ASSUME NEW n \in Nat, NEW m \in DownMessages(n)
  PROVE /\ m.type \in {"session_created", "pane_closed", "connected", "disconnected"}
        /\ IsEdit(m) => m \in Edits(n)
        /\ Connected(m) => m.token \in Conns \cup {None} /\ Proper(m.layout, n)
  BY DEF DownMessages, Edits, IsEdit, Connected, ServerTrees

\* The fields of what a handler is doing.
LEMMA JobFields ==
  ASSUME NEW n \in Nat, NEW j \in Jobs(n)
  PROVE /\ j.at \in {"none", "replace", "split", "close", "closeLast", "tell"}
        /\ j.at = "none" <=> j = NoJob
        /\ j.at = "replace" => Proper(j.layout, n)
        /\ j.at = "split" => j.session \in Sessions /\ j.direction \in Directions
        /\ j.at \in {"close", "closeLast"} => j.session \in Sessions
        /\ j.at = "tell" => j.message \in Edits(n)
  BY DEF Jobs, NoJob, ServerTrees

\* The fields of a command.
LEMMA UpFieldsOf ==
  ASSUME NEW m \in UpMessages
  PROVE /\ m.type \in {"split", "close_pane", "update_layout"}
        /\ m.type = "split" => m.session \in Sessions /\ m.direction \in Directions
        /\ m.type = "close_pane" => m.session \in Sessions
        /\ m.type = "update_layout" => m.layout \in Layouts
  BY DEF UpMessages

-----------------------------------------------------------------------------
\* The page's nodes show sessions that were made, whatever is done to them.
LEMMA GoodTree ==
  ASSUME NEW n \in Nat, NEW t, Proper(t, n) PROVE \A x \in ReconstructLayout(t) : GoodNode(n, x)
<1>1. t \in Layouts /\ Leaves(t) \subseteq 1 .. n
  BY DEF Proper
<1>2. SUFFICES ASSUME NEW x \in ReconstructLayout(t) PROVE GoodNode(n, x)
  OBVIOUS
<1>3. x.label \in Labels /\ x = Node(x.path, x.label)
  BY <1>1, ReconNodes, NodesType
<1>4. IsPane(x) => x.label.session \in 1 .. n
  BY <1>1, ReconPanes DEF Panes
<1>5. QED
  BY <1>3, <1>4 DEF GoodNode

\* A pane of a session made is a good node.
LEMMA GoodPane ==
  ASSUME NEW n \in Nat, n <= MaxSessions, NEW p, NEW s \in 1 .. n PROVE GoodNode(n, Node(p, Pane(s)))
  BY MaxSessionsNat DEF GoodNode, Node, Pane, IsPane, Labels, Sessions

\* So is a split.
LEMMA GoodSplitNode ==
  ASSUME NEW n \in Nat, NEW p, NEW d \in Directions, NEW r \in Ratios \cup {Half} PROVE GoodNode(n, Node(p, SplitLabel(d, r)))
  BY DEF GoodNode, Node, SplitLabel, IsPane, Labels

\* A node may be moved.
LEMMA GoodLabel ==
  ASSUME NEW n \in Nat, NEW x, GoodNode(n, x), NEW p PROVE GoodNode(n, Node(p, x.label))
  BY DEF GoodNode, Node, IsPane

\* A split on the page leaves good nodes.
LEMMA GoodApplySplit ==
  ASSUME NEW n \in Nat, n <= MaxSessions, NEW N, \A x \in N : GoodNode(n, x),
         NEW t \in 1 .. n, NEW s \in 1 .. n, NEW d \in Directions
  PROVE \A x \in ApplySplit(N, t, s, d) : GoodNode(n, x)
<1> DEFINE p == FindPaneBySessionID(N, t).path
<1>1. \A q : GoodNode(n, Node(q, Pane(t))) /\ GoodNode(n, Node(q, Pane(s))) /\ GoodNode(n, Node(q, SplitLabel(d, Half)))
  BY GoodPane, GoodSplitNode
<1>2. \/ ApplySplit(N, t, s, d) = N
      \/ ApplySplit(N, t, s, d) = (N \ {Node(p, Pane(t))})
           \cup {Node(p, SplitLabel(d, Half)), Node(p \o <<1>>, Pane(t)), Node(p \o <<2>>, Pane(s))}
  BY DEF ApplySplit, SplitLabel
<1> HIDE DEF p
<1>3. QED
  BY <1>1, <1>2

\* So does a close, whatever layout comes with it.
LEMMA GoodApplyClose ==
  ASSUME NEW n \in Nat, NEW N, \A x \in N : GoodNode(n, x), NEW s, NEW layout, Proper(layout, n)
  PROVE \A x \in ApplyClosePane(N, s, layout) : GoodNode(n, x)
<1> DEFINE p == FindPaneBySessionID(N, s).path
           parent == Front(p)
           sibling == parent \o <<3 - Last(p)>>
           Raised(q) == parent \o SubSeq(q, Len(sibling) + 1, Len(q))
<1>1. \/ ApplyClosePane(N, s, layout) = N
      \/ ApplyClosePane(N, s, layout) = ReconstructLayout(layout)
      \/ ApplyClosePane(N, s, layout) = {x \in N : ~IsPrefix(parent, x.path)}
           \cup {Node(Raised(x.path), x.label) : x \in {y \in N : IsPrefix(sibling, y.path)}}
  BY DEF ApplyClosePane
<1>2. \A x \in ReconstructLayout(layout) : GoodNode(n, x)
  BY GoodTree
<1>3. \A x \in {Node(Raised(y.path), y.label) : y \in {z \in N : IsPrefix(sibling, z.path)}} : GoodNode(n, x)
  <2> HIDE DEF parent, sibling
  <2>1. SUFFICES ASSUME NEW y \in N PROVE GoodNode(n, Node(Raised(y.path), y.label))
    OBVIOUS
  <2>2. \A q : GoodNode(n, Node(q, y.label))
    BY GoodLabel
  <2>3. QED
    BY <2>2
<1> HIDE DEF Raised, parent, sibling
<1>4. QED
  BY <1>1, <1>2, <1>3

\* So does a drag.
LEMMA GoodSetRatio ==
  ASSUME NEW n \in Nat, NEW N, \A x \in N : GoodNode(n, x), NEW p, NEW r \in Ratios
  PROVE \A x \in SetRatio(N, p, r) : GoodNode(n, x)
<1>1. SetRatio(N, p, r) = {Rated(x, p, r) : x \in N}
  BY SetRatioRated
<1>2. SUFFICES ASSUME NEW x \in N PROVE GoodNode(n, Rated(x, p, r))
  BY <1>1
<1>3. x = Node(x.path, x.label) /\ x.label \in Labels /\ (IsPane(x) => x.label.session \in 1 .. n)
  BY DEF GoodNode
<1>4. CASE x.path # p
  BY <1>4 DEF Rated
<1>5. CASE x.path = p
  <2>1. Rated(Node(p, x.label), p, r) = Node(p, [x.label EXCEPT !.ratio = r])
    BY RatedNode
  <2>2. CASE \E s \in Sessions : x.label = Pane(s)
    <3>1. [x.label EXCEPT !.ratio = r] = x.label
      BY <2>2 DEF Pane
    <3>2. QED
      BY <1>3, <1>5, <2>1, <3>1
  <2>3. CASE \E d \in Directions, e \in Ratios \cup {Half} : x.label = SplitLabel(d, e)
    <3>1. PICK d \in Directions, e \in Ratios \cup {Half} : x.label = SplitLabel(d, e)
      BY <2>3
    <3>2. [SplitLabel(d, e) EXCEPT !.ratio = r] = SplitLabel(d, r)
      BY DEF SplitLabel
    <3>3. QED
      BY <1>3, <1>5, <2>1, <3>1, <3>2, GoodSplitNode
  <2>4. QED
    BY <1>3, <2>2, <2>3 DEF Labels
<1>6. QED
  BY <1>4, <1>5

\* The first message and the rest.
LEMMA HeadAndTail ==
  ASSUME NEW S, NEW q \in Seq(S), q # <<>>
  PROVE Head(q) \in S /\ Tail(q) \in Seq(S) /\ Head(q) = q[1] /\ Len(q) \in Nat \ {0}
  OBVIOUS

\* A sequence with one more element.
LEMMA Appended ==
  ASSUME NEW S, NEW q \in Seq(S), NEW m \in S
  PROVE Append(q, m) \in Seq(S)
  OBVIOUS

\* Deliver keeps the type of the queues.
LEMMA DeliverType ==
  ASSUME NEW S, down \in [Conns -> Seq(S)], NEW ds, NEW m \in S, Deliver(ds, m)
  PROVE down' \in [Conns -> Seq(S)]
<1>1. \A d \in Conns : Append(down[d], m) \in Seq(S)
  BY Appended
<1>2. QED
  BY <1>1 DEF Deliver

\* Lost keeps the type of the stale flags.
LEMMA LostType ==
  ASSUME stale \in [Pages -> BOOLEAN], NEW ps, Lost(ps)
  PROVE stale' \in [Pages -> BOOLEAN]
<1>1. \A p \in Pages : (stale[p] \/ p \in ps) \in BOOLEAN
  OBVIOUS
<1>2. QED
  BY <1>1 DEF Lost

\* Where a page and where a handler can be.
PageStates == {"new", "first", "prompted", "live", "deaf", "off", "gone"}
HandlerStates == {"idle", "arrived", "replacing", "evict", "register", "registered", "serving", "ended"}
\* Every page shows panes of sessions made.
ViewsOk(n, v) == v = [p \in Pages |-> v[p]] /\ \A p \in Pages : \A x \in v[p] : GoodNode(n, x)

\* Init has the types.
LEMMA InitType == Init => TypeInv
<1> SUFFICES ASSUME Init PROVE TypeInv
  OBVIOUS
<1> USE LayoutAssumption, TreeAssumption
<1>1. 1 \in Sessions
  BY MaxSessionsNat DEF Sessions
<1>2. made = 1 /\ tree = Pane(1)
  BY DEF Init
<1>3. Proper(Pane(1), 1)
  <2>1. Pane(1) \in Layouts /\ Leaves(Pane(1)) = {1} /\ Distinct(Pane(1))
    BY <1>1, PaneIsTree, PaneLeaves DEF Distinct
  <2>2. QED
    BY <2>1 DEF Proper
<1>4. job \in [Conns -> Jobs(made)]
  BY DEF Init, Jobs
<1>5. up \in [Conns -> Seq(UpMessages)] /\ down \in [Conns -> Seq(DownMessages(made))]
  BY EmptySeq DEF Init
<1>6. view = [p \in Pages |-> view[p]] /\ \A p \in Pages : \A x \in view[p] : GoodNode(made, x)
  BY DEF Init, Blank
<1>7. QED
  BY <1>1, <1>2, <1>3, <1>4, <1>5, <1>6 DEF Init, TypeInv

\* What is used of the types most.
LEMMA TypeFacts ==
  ASSUME TypeInv
  PROVE /\ made \in Nat /\ made >= 1 /\ made <= MaxSessions /\ made \in Sessions
        /\ MaxSessions \in Nat /\ Proper(tree, made)
  BY MaxSessionsNat DEF TypeInv, Sessions

-----------------------------------------------------------------------------
\* A page opens its connection.
LEMMA OpenTabType ==
  ASSUME TypeInv, NEW p \in Pages, NEW c \in Conns, OpenTab(p, c) PROVE TypeInv'
<1>1. known[p] \in Conns \cup {None}
  BY DEF TypeInv
<1>2. token' \in [Conns -> Conns \cup {None}]
  BY <1>1 DEF TypeInv, OpenTab
<1>3. QED
  BY <1>2 DEF TypeInv, OpenTab, server, channels, history

\* A page is closed.
LEMMA LoseTabType ==
  ASSUME TypeInv, NEW p \in Pages, LoseTab(p) PROVE TypeInv'
<1>1. stale' \in [Pages -> BOOLEAN]
  BY LostType DEF TypeInv, LoseTab
<1>2. down' \in [Conns -> Seq(DownMessages(made))]
  BY EmptySeq DEF TypeInv, LoseTab
<1>3. unsynced' \in [Pages -> BOOLEAN]
  <2>1. (unsynced[p] \/ HasUpdate(conn[p])) \in BOOLEAN
    BY DEF TypeInv, HasUpdate
  <2>2. QED
    BY <2>1 DEF TypeInv, LoseTab
<1>4. conn' \in [Pages -> Conns \cup {None}] /\ phase' \in [Pages -> PageStates]
  BY DEF TypeInv, LoseTab, PageStates
<1>5. QED
  BY <1>1, <1>2, <1>3, <1>4 DEF TypeInv, LoseTab, server, handlers, PageStates

\* A command is queued.
LEMMA SendsType ==
  ASSUME TypeInv, NEW p \in Pages, NEW m \in UpMessages, Send(p, m)
  PROVE up' \in [Conns -> Seq(UpMessages)]
<1>1. \A c \in Conns : Append(up[c], m) \in Seq(UpMessages)
  BY Appended DEF TypeInv
<1>2. QED
  BY <1>1 DEF TypeInv, Send

\* A page asks to split or to close.
LEMMA CommandsType ==
  ASSUME TypeInv, NEW p \in Pages, NEW s \in Sessions, RequestClosePane(p, s) \/ \E d \in Directions : SplitPane(p, s, d)
  PROVE TypeInv'
<1>1. \E m \in UpMessages : Send(p, m)
  BY DEF RequestClosePane, SplitPane, UpMessages
<1>2. up' \in [Conns -> Seq(UpMessages)]
  BY <1>1, SendsType
<1>3. UNCHANGED <<server, handlers, down, pages, stale, unsynced>>
  BY DEF RequestClosePane, SplitPane
<1>4. QED
  BY <1>2, <1>3 DEF TypeInv, server, handlers, pages

\* A handle is dragged.
LEMMA DragType ==
  ASSUME TypeInv, NEW p \in Pages, NEW x, NEW r \in Ratios, DragHandle(p, x, r) PROVE TypeInv'
<1> DEFINE layout == SerializeTree(SetRatio(view[p], x, r))
<1>0. layout \in Layouts /\ view' = [view EXCEPT ![p] = SetRatio(@, x, r)]
  BY DEF DragHandle
<1>1. up' \in [Conns -> Seq(UpMessages)] /\ unsynced' \in [Pages -> BOOLEAN]
  <2>1. CASE conn[p] # None
    <3>1. [type |-> "update_layout", layout |-> layout] \in UpMessages
      BY <1>0 DEF UpMessages
    <3>2. Send(p, [type |-> "update_layout", layout |-> layout]) /\ UNCHANGED unsynced
      BY <2>1 DEF DragHandle
    <3>3. QED
      BY <3>1, <3>2, SendsType DEF TypeInv
  <2>2. CASE conn[p] = None
    BY <2>2 DEF DragHandle, TypeInv
  <2>3. QED
    BY <2>1, <2>2
<1>2. \A z \in SetRatio(view[p], x, r) : GoodNode(made, z)
  BY TypeFacts, GoodSetRatio DEF TypeInv
<1>3. ViewsOk(made, view')
  BY <1>0, <1>2 DEF TypeInv, ViewsOk
<1>4. UNCHANGED <<server, handlers, down, pageOf, conn, phase, boot, known, stale>>
  BY DEF DragHandle
<1>5. QED
  BY <1>1, <1>3, <1>4 DEF TypeInv, ViewsOk, server, handlers

\* The page after a message shows good nodes.
LEMMA ViewType ==
  ASSUME TypeInv, NEW p \in Pages, NEW m \in DownMessages(made) PROVE \A x \in View(p, m) : GoodNode(made, x)
<1>1. \A x \in view[p] : GoodNode(made, x)
  BY DEF TypeInv
<1>2. CASE Created(m)
  <2>1. m.session \in 1 .. made /\ m.target \in 1 .. made /\ m.direction \in Directions
    BY <1>2, TypeFacts, DownFields, EditFields DEF IsEdit, Created
  <2>2. View(p, m) = ApplySplit(view[p], m.target, m.session, m.direction)
    BY <1>2 DEF View, Created
  <2>3. QED
    BY <1>1, <2>1, <2>2, TypeFacts, GoodApplySplit
<1>3. CASE Closed(m)
  <2>1. Proper(m.layout, made)
    BY <1>3, TypeFacts, DownFields, EditFields DEF IsEdit, Closed
  <2>2. View(p, m) = ApplyClosePane(view[p], m.session, m.layout)
    BY <1>3 DEF View, Closed
  <2>3. QED
    BY <1>1, <2>1, <2>2, TypeFacts, GoodApplyClose
<1>4. CASE ~Created(m) /\ ~Closed(m)
  BY <1>1, <1>4 DEF View, Created, Closed
<1>5. QED
  BY <1>2, <1>3, <1>4

\* A page receives a message.
LEMMA ReceiveType ==
  ASSUME TypeInv, NEW p \in Pages, Receive(p) PROVE TypeInv'
<1> DEFINE c == conn[p]
           m == Head(down[c])
<1>1. c \in Conns /\ down[c] # <<>>
  BY DEF Receive, TypeInv
<1>2. m \in DownMessages(made) /\ Tail(down[c]) \in Seq(DownMessages(made))
  BY <1>1, HeadAndTail DEF TypeInv
<1>3. down' \in [Conns -> Seq(DownMessages(made))]
  BY <1>1, <1>2, EmptySeq DEF Receive, TypeInv
<1>4. UNCHANGED <<server, handlers, up, pageOf, boot, unsynced, sent>>
  BY DEF Receive
<1>5. /\ conn' \in [Pages -> Conns \cup {None}] /\ phase' \in [Pages -> PageStates]
      /\ known' \in [Pages -> Conns \cup {None}] /\ stale' \in [Pages -> BOOLEAN]
      /\ ViewsOk(made, view')
  <2>0. ViewsOk(made, view)
    BY DEF TypeInv, ViewsOk
  <2>1. CASE /\ m.type = "connected"
             /\ phase' = [phase EXCEPT ![p] = "live"]
             /\ known' = [known EXCEPT ![p] = m.token]
             /\ view' = [view EXCEPT ![p] = IF c = boot[p] THEN ReconstructLayout(m.layout) ELSE @]
             /\ UNCHANGED <<conn, stale>>
    <3>1. m.token \in Conns \cup {None} /\ Proper(m.layout, made)
      BY <1>2, <2>1, TypeFacts, DownFields DEF Connected
    <3>2. \A x \in ReconstructLayout(m.layout) : GoodNode(made, x)
      BY <3>1, TypeFacts, GoodTree
    <3>3. ViewsOk(made, view')
      BY <2>0, <2>1, <3>2 DEF ViewsOk
    <3>4. QED
      BY <2>1, <3>1, <3>3 DEF TypeInv, PageStates
  <2>2. CASE /\ phase' = [phase EXCEPT ![p] = IF @ = "first" THEN "deaf" ELSE @]
             /\ Lost(IF IsEdit(m) THEN {p} ELSE {})
             /\ UNCHANGED <<conn, known, view>>
    <3>1. stale' \in [Pages -> BOOLEAN]
      BY <2>2, LostType DEF TypeInv
    <3>2. phase' \in [Pages -> PageStates]
      BY <2>2 DEF TypeInv, PageStates
    <3>3. QED
      BY <2>0, <2>2, <3>1, <3>2 DEF TypeInv
  <2>3. CASE /\ view' = [view EXCEPT ![p] = View(p, m)]
             /\ UNCHANGED <<conn, phase, known, stale>>
    <3>1. ViewsOk(made, view')
      BY <1>2, <2>0, <2>3, ViewType DEF ViewsOk
    <3>2. QED
      BY <2>3, <3>1 DEF TypeInv, PageStates
  <2>4. CASE /\ conn' = [conn EXCEPT ![p] = None]
             /\ phase' = [phase EXCEPT ![p] = "gone"]
             /\ UNCHANGED <<known, view, stale>>
    BY <2>0, <2>4 DEF TypeInv, PageStates
  <2>5. QED
    BY <2>1, <2>2, <2>3, <2>4 DEF Receive
<1>6. QED
  BY <1>3, <1>4, <1>5 DEF TypeInv, ViewsOk, PageStates, server, handlers

\* The copy shows new sessions only, as many as there are panes.
Copied(t, n) ==
  LET ids == SessionIDs(t) IN
  ReplaceAllSessions(t, [s \in ToSet(ids) |-> n + CHOOSE i \in DOMAIN ids : ids[i] = s])

\* ReplaceTabSessions' copy has the shape of the original and sessions of its
\* own.
LEMMA CopiedTree ==
  ASSUME NEW n \in Nat, NEW t, Proper(t, n), n + Size(t) <= MaxSessions
  PROVE /\ Proper(Copied(t, n), n + Size(t)) /\ Leaves(Copied(t, n)) \cap (1 .. n) = {}
        /\ n + Size(t) \in Sessions /\ n + Size(t) \in Nat /\ n < n + Size(t)
<1> DEFINE ids == SessionIDs(t)
           mapping == [s \in ToSet(ids) |-> n + CHOOSE i \in DOMAIN ids : ids[i] = s]
<1>1. t \in Layouts /\ Distinct(t) /\ ids \in Seq(Sessions) /\ Size(t) \in Nat /\ Size(t) >= 1 /\ Len(ids) = Size(t)
  BY IDsType, LeavesType DEF Proper, Size
<1>2. DOMAIN ids = 1 .. Size(t) /\ Leaves(t) = ToSet(ids)
  BY <1>1 DEF Leaves
<1>3. \A s \in Leaves(t) : \E i \in 1 .. Size(t) : ids[i] = s /\ mapping[s] = n + i
  <2>1. SUFFICES ASSUME NEW s \in ToSet(ids) PROVE \E i \in 1 .. Size(t) : ids[i] = s /\ mapping[s] = n + i
    BY <1>2
  <2>2. \E i \in DOMAIN ids : ids[i] = s
    BY <1>1 DEF ToSet
  <2>3. mapping[s] = n + CHOOSE i \in DOMAIN ids : ids[i] = s
    OBVIOUS
  <2>4. QED
    BY <1>2, <2>2, <2>3
<1>a. Copied(t, n) = ReplaceAllSessions(t, mapping)
  BY DEF Copied
<1> HIDE DEF mapping, ids
<1>4. MaxSessions \in Nat /\ Sessions = 1 .. MaxSessions
  BY MaxSessionsNat DEF Sessions
<1>5. \A s \in Leaves(t) : mapping[s] \in n + 1 .. n + Size(t)
  BY <1>1, <1>3
<1>6. \A s, z \in Leaves(t) : mapping[s] = mapping[z] => s = z
  <2>1. SUFFICES ASSUME NEW s \in Leaves(t), NEW z \in Leaves(t), mapping[s] = mapping[z] PROVE s = z
    OBVIOUS
  <2>2. PICK i \in 1 .. Size(t) : ids[i] = s /\ mapping[s] = n + i
    BY <1>3
  <2>3. PICK j \in 1 .. Size(t) : ids[j] = z /\ mapping[z] = n + j
    BY <1>3
  <2>4. n + i = n + j
    BY <2>1, <2>2, <2>3, Zenon
  <2>a. i \in Nat /\ j \in Nat
    BY <1>1
  <2>5. i = j
    BY <2>4, <2>a
  <2>6. QED
    BY <2>2, <2>3, <2>5
<1>7. n + Size(t) \in Sessions /\ \A s \in Leaves(t) : mapping[s] \in Sessions
  BY <1>1, <1>4, <1>5
<1>8. /\ Copied(t, n) \in Layouts /\ Distinct(Copied(t, n))
      /\ Leaves(Copied(t, n)) = {mapping[s] : s \in Leaves(t)}
  BY <1>1, <1>4, <1>6, <1>7, <1>a, CopyShows DEF Layouts
<1>9. Leaves(Copied(t, n)) \subseteq n + 1 .. n + Size(t)
  BY <1>5, <1>8
<1>10. Leaves(Copied(t, n)) \subseteq 1 .. n + Size(t) /\ Leaves(Copied(t, n)) \cap (1 .. n) = {}
  BY <1>1, <1>9
<1>11. QED
  BY <1>1, <1>7, <1>8, <1>10 DEF Proper

\* A split with the next session is a tree the server can have.
LEMMA SplitProper ==
  ASSUME NEW n \in Nat, n + 1 <= MaxSessions, NEW t, Proper(t, n), NEW s \in Sessions, NEW d \in Directions
  PROVE Proper(SplitLayoutNode(t, s, n + 1, d), n + 1)
<1>1. n + 1 \in Sessions /\ t \in Layouts /\ Distinct(t) /\ Leaves(t) \subseteq 1 .. n
  BY MaxSessionsNat DEF Sessions, Proper
<1>2. CASE s \notin Leaves(t)
  <2>1. SplitLayoutNode(t, s, n + 1, d) = t
    BY <1>1, <1>2, SplitNothing
  <2>2. QED
    BY <1>1, <2>1 DEF Proper
<1>3. CASE s \in Leaves(t)
  <2> DEFINE m == [session |-> n + 1, direction |-> d, target |-> s]
  <2>1. m.session = n + 1 /\ m.direction = d /\ m.target = s
    OBVIOUS
  <2>2. Leaves(t) \subseteq 1 .. m.session - 1
    BY <1>1, <2>1
  <2> HIDE DEF m
  <2>3. m.session \in Sessions /\ m.direction \in Directions /\ m.target \in Leaves(t)
    BY <1>1, <1>3, <2>1
  <2> DEFINE w == SplitLayoutNode(t, m.target, m.session, m.direction)
  <2>4. w \in Layouts /\ Distinct(w) /\ Leaves(w) = Leaves(t) \cup {m.session}
    BY <1>1, <2>2, <2>3, SplitSound
  <2>5. Leaves(t) \cup {n + 1} \subseteq 1 .. n + 1
    BY <1>1
  <2>6. QED
    BY <2>1, <2>4, <2>5 DEF Proper
<1>4. QED
  BY <1>2, <1>3

\* So is what a close leaves; if it changes the tree, the session was shown,
\* and not alone.
LEMMA CloseProper ==
  ASSUME NEW n \in Nat, NEW t, Proper(t, n), NEW s \in Sessions
  PROVE /\ Proper(ClosePaneInLayout(t, s), n)
        /\ ClosePaneInLayout(t, s) # t => s \in Leaves(t) /\ t # Pane(s)
<1>1. t \in Layouts /\ Distinct(t) /\ Leaves(t) \subseteq 1 .. n
  BY DEF Proper
<1>2. CASE s \notin Leaves(t)
  <2>1. ClosePaneInLayout(t, s) = t
    BY <1>1, <1>2, CloseNothing
  <2>2. QED
    BY <2>1
<1>3. CASE t = Pane(s)
  <2>1. ClosePaneInLayout(t, s) = t
    BY <1>3, ClosePaneTree
  <2>2. QED
    BY <2>1
<1>4. CASE s \in Leaves(t) /\ t # Pane(s)
  <2> DEFINE w == ClosePaneInLayout(t, s)
  <2>1. w \in Layouts /\ Distinct(w) /\ Leaves(w) = Leaves(t) \ {s}
    BY <1>1, <1>4, CloseSound
  <2>2. QED
    BY <1>1, <1>4, <2>1 DEF Proper
<1>5. QED
  BY <1>2, <1>3, <1>4

\* So is a single new pane.
LEMMA PaneProper ==
  ASSUME NEW n \in Sessions PROVE Proper(Pane(n), n) /\ Leaves(Pane(n)) = {n}
<1>1. Pane(n) \in Layouts /\ Leaves(Pane(n)) = {n} /\ Distinct(Pane(n))
  BY PaneIsTree, PaneLeaves DEF Distinct
<1>2. n \in 1 .. n
  BY MaxSessionsNat DEF Sessions
<1>3. QED
  BY <1>1, <1>2 DEF Proper

-----------------------------------------------------------------------------
\* More sessions were made, for a new tree; the page and the channels are as they were.
LEMMA MadeType ==
  ASSUME TypeInv, made' \in Sessions, made <= made', Proper(tree', made'), job' \in [Conns -> Jobs(made')],
         stale' \in [Pages -> BOOLEAN], hs' \in [Conns -> HandlerStates],
         UNCHANGED <<clients, token, channels, pages, unsynced>>
  PROVE TypeInv'
<1>1. made \in Nat /\ made' \in Nat
  BY MaxSessionsNat DEF TypeInv, Sessions
<1>2. down' \in [Conns -> Seq(DownMessages(made'))] /\ down' = down /\ view' = view
  BY <1>1, DownGrows DEF TypeInv, channels, pages
<1>3. \A x : GoodNode(made, x) => GoodNode(made', x)
  BY <1>1, TypesGrow
<1>4. ViewsOk(made', view')
  BY <1>2, <1>3 DEF TypeInv, ViewsOk
<1>5. QED
  BY <1>2, <1>4 DEF TypeInv, ViewsOk, channels, pages, HandlerStates

\* A handler takes on something else.
LEMMA JobsGrow ==
  ASSUME TypeInv, made' \in Nat, made <= made', NEW c \in Conns, NEW j \in Jobs(made')
  PROVE [job EXCEPT ![c] = j] \in [Conns -> Jobs(made')]
<1>1. made \in Nat /\ job \in [Conns -> Jobs(made)]
  BY MaxSessionsNat DEF TypeInv, Sessions
<1>2. Jobs(made) \subseteq Jobs(made')
  BY <1>1, TypesGrow
<1>3. QED
  BY <1>1, <1>2

\* A handler may do nothing.
LEMMA IdleJob == \A n : NoJob \in Jobs(n)
  BY DEF Jobs

\* A handler may have a change to tell.
LEMMA TellJob ==
  ASSUME NEW n, NEW m \in Edits(n) PROVE [at |-> "tell", message |-> m] \in Jobs(n)
  BY DEF Jobs

\* ReplaceTabSessions gives the tab a copy of its tree, under the lock.
LEMMA ReplaceType ==
  ASSUME TypeInv, ControlInv, NEW c \in Conns, Replace(c)
  PROVE /\ TypeInv'
        /\ Proper(job[c].layout, made) /\ tree' = Copied(job[c].layout, made) /\ made' = made + Size(job[c].layout)
        /\ made' <= MaxSessions /\ made < made'
<1> DEFINE t == job[c].layout
<1>0. job[c] \in Jobs(made) /\ job[c].at = "replace"
  BY DEF TypeInv, ControlInv, ConnControl, Replace
<1>1. Proper(t, made)
  BY <1>0, TypeFacts, JobFields
<1>2. tree' = Copied(t, made) /\ made' = made + Size(t) /\ made + Size(t) <= MaxSessions
  BY DEF Replace, Copied, Size
<1>3. Proper(tree', made') /\ made' \in Sessions /\ made' \in Nat /\ made < made'
  BY <1>1, <1>2, CopiedTree, TypeFacts
<1>4. job' \in [Conns -> Jobs(made')]
  <2>1. job' = [job EXCEPT ![c] = NoJob] /\ NoJob \in Jobs(made')
    BY IdleJob DEF Replace
  <2>2. QED
    BY <1>3, <2>1, JobsGrow, TypeFacts
<1>5. stale' \in [Pages -> BOOLEAN]
  BY LostType DEF TypeInv, Replace
<1>6. hs' \in [Conns -> HandlerStates]
  BY DEF TypeInv, Replace, HandlerStates
<1>7. UNCHANGED <<clients, token, channels, pages, unsynced>>
  BY DEF Replace
<1>8. TypeInv'
  BY <1>3, <1>4, <1>5, <1>6, <1>7, MadeType, TypeFacts
<1>9. QED
  BY <1>1, <1>2, <1>3, <1>8

\* SplitPane's change of the tree.
LEMMA InsertPaneType ==
  ASSUME TypeInv, NEW c \in Conns, InsertPane(c) PROVE TypeInv'
<1> DEFINE s == job[c].session
           d == job[c].direction
<1>0. job[c] \in Jobs(made) /\ job[c].at = "split" /\ made < MaxSessions
  BY DEF TypeInv, InsertPane
<1>1. s \in Sessions /\ d \in Directions
  BY <1>0, TypeFacts, JobFields
<1>2. made' = made + 1 /\ tree' = SplitLayoutNode(tree, s, made + 1, d)
  BY DEF InsertPane
<1>3. Proper(tree', made') /\ made' \in Sessions /\ made' \in Nat /\ made <= made'
  BY <1>0, <1>1, <1>2, SplitProper, TypeFacts DEF Sessions
<1>4. job' \in [Conns -> Jobs(made')]
  <2>1. CASE HasSession(tree, s)
    <3> DEFINE m == [type |-> "session_created", session |-> made', target |-> s, direction |-> d]
    <3>1. s \in 1 .. made /\ made' \in 1 .. made' /\ s \in 1 .. made'
      BY <2>1, <1>2, TypeFacts DEF HasSession, Proper, Leaves
    <3>2. m \in Edits(made')
      BY <1>1, <3>1 DEF Edits
    <3>3. job' = [job EXCEPT ![c] = [at |-> "tell", message |-> m]]
      BY <2>1 DEF InsertPane, Tell
    <3> HIDE DEF m
    <3>4. QED
      BY <1>3, <3>2, <3>3, TellJob, JobsGrow
  <2>2. CASE ~HasSession(tree, s)
    <3>1. job' = [job EXCEPT ![c] = NoJob]
      BY <2>2 DEF InsertPane
    <3>2. QED
      BY <1>3, <3>1, IdleJob, JobsGrow
  <2>3. QED
    BY <2>1, <2>2
<1>5. stale' \in [Pages -> BOOLEAN]
  BY LostType DEF TypeInv, InsertPane
<1>6. hs' \in [Conns -> HandlerStates] /\ UNCHANGED <<clients, token, channels, pages, unsynced>>
  BY DEF TypeInv, InsertPane, HandlerStates
<1>7. QED
  BY <1>3, <1>4, <1>5, <1>6, MadeType

\* ClosePane's change of the tree.
LEMMA RemovePaneType ==
  ASSUME TypeInv, NEW c \in Conns, RemovePane(c) PROVE TypeInv'
<1> DEFINE s == job[c].session
<1>0. job[c] \in Jobs(made) /\ job[c].at = "close"
  BY DEF TypeInv, RemovePane
<1>1. s \in Sessions
  BY <1>0, TypeFacts, JobFields
<1>2. made' = made /\ tree' = ClosePaneInLayout(tree, s)
  BY DEF RemovePane
<1>3. Proper(tree', made') /\ made' \in Sessions /\ made' \in Nat /\ made <= made'
  BY <1>1, <1>2, CloseProper, TypeFacts
<1>4. job' \in [Conns -> Jobs(made')]
  <2>1. CASE tree' # tree
    <3> DEFINE m == [type |-> "pane_closed", session |-> s, layout |-> tree']
    <3>1. tree' \in ServerTrees(made')
      BY <1>3 DEF ServerTrees, Proper
    <3>2. m \in Edits(made')
      BY <1>1, <3>1 DEF Edits
    <3>3. job' = [job EXCEPT ![c] = [at |-> "tell", message |-> m]]
      BY <2>1 DEF RemovePane, Tell
    <3> HIDE DEF m
    <3>4. QED
      BY <1>3, <3>2, <3>3, TellJob, JobsGrow
  <2>2. CASE tree' = tree
    <3>1. job' = [job EXCEPT ![c] = NoJob]
      BY <2>2 DEF RemovePane
    <3>2. QED
      BY <1>3, <3>1, IdleJob, JobsGrow
  <2>3. QED
    BY <2>1, <2>2
<1>5. stale' \in [Pages -> BOOLEAN]
  BY LostType DEF TypeInv, RemovePane
<1>6. hs' \in [Conns -> HandlerStates] /\ UNCHANGED <<clients, token, channels, pages, unsynced>>
  BY DEF TypeInv, RemovePane, HandlerStates
<1>7. QED
  BY <1>3, <1>4, <1>5, <1>6, MadeType

\* The last pane gives way to a fresh one.
LEMMA ReplacePaneType ==
  ASSUME TypeInv, NEW c \in Conns, ReplacePane(c) PROVE TypeInv'
<1> DEFINE s == job[c].session
<1>0. job[c] \in Jobs(made) /\ job[c].at = "closeLast" /\ made < MaxSessions
  BY DEF TypeInv, ReplacePane
<1>1. s \in Sessions
  BY <1>0, TypeFacts, JobFields
<1>2. made' = made + 1 /\ tree' = Pane(made + 1)
  BY DEF ReplacePane
<1>3. Proper(tree', made') /\ made' \in Sessions /\ made' \in Nat /\ made <= made'
  BY <1>0, <1>2, PaneProper, TypeFacts DEF Sessions
<1>4. job' \in [Conns -> Jobs(made')]
  <2> DEFINE m == [type |-> "pane_closed", session |-> s, layout |-> tree']
  <2>1. tree' \in ServerTrees(made')
    BY <1>3 DEF ServerTrees, Proper
  <2>2. m \in Edits(made')
    BY <1>1, <2>1 DEF Edits
  <2>3. job' = [job EXCEPT ![c] = [at |-> "tell", message |-> m]]
    BY DEF ReplacePane, Tell
  <2> HIDE DEF m
  <2>4. QED
    BY <1>3, <2>2, <2>3, TellJob, JobsGrow
<1>5. stale' \in [Pages -> BOOLEAN]
  BY LostType DEF TypeInv, ReplacePane
<1>6. hs' \in [Conns -> HandlerStates] /\ UNCHANGED <<clients, token, channels, pages, unsynced>>
  BY DEF TypeInv, ReplacePane, HandlerStates
<1>7. QED
  BY <1>3, <1>4, <1>5, <1>6, MadeType

\* Steps of the handshake that only move handlers and jobs.
LEMMA HandshakeType ==
  ASSUME TypeInv, NEW c \in Conns,
         \/ Resume(c) \/ Register(c) \/ ChooseTakeover(c) \/ ChooseNew(c) \/ NoChoice(c)
         \/ ReplaceFails(c) \/ CommandFails(c)
  PROVE TypeInv'
<1>1. CASE Resume(c)
  BY <1>1 DEF TypeInv, Resume, Owner, server, channels, pages, history
<1>2. CASE Register(c)
  BY <1>2 DEF TypeInv, Register, server, channels, pages, history
<1>3. CASE ChooseTakeover(c)
  <2>1. phase' \in [Pages -> PageStates] /\ hs' \in [Conns -> HandlerStates]
    BY <1>3 DEF TypeInv, ChooseTakeover, Prompt, PageStates, HandlerStates
  <2>2. QED
    BY <1>3, <2>1 DEF TypeInv, ChooseTakeover, server, channels, history, PageStates, HandlerStates
<1>4. CASE ChooseNew(c)
  <2>1. phase' \in [Pages -> PageStates] /\ hs' \in [Conns -> HandlerStates]
    BY <1>4 DEF TypeInv, ChooseNew, Prompt, PageStates, HandlerStates
  <2>2. [at |-> "replace", layout |-> tree] \in Jobs(made)
    BY DEF TypeInv, Jobs, ServerTrees, Proper
  <2>3. job' \in [Conns -> Jobs(made)]
    BY <1>4, <2>2 DEF TypeInv, ChooseNew
  <2>4. QED
    BY <1>4, <2>1, <2>3 DEF TypeInv, ChooseNew, server, channels, history, PageStates, HandlerStates
<1>5. CASE NoChoice(c)
  BY <1>5 DEF TypeInv, NoChoice, server, channels, pages, history
<1>6. CASE ReplaceFails(c)
  <2>1. job' \in [Conns -> Jobs(made)]
    BY <1>6, IdleJob DEF TypeInv, ReplaceFails
  <2>2. QED
    BY <1>6, <2>1 DEF TypeInv, ReplaceFails, server, channels, pages, history
<1>7. CASE CommandFails(c)
  <2>1. job' \in [Conns -> Jobs(made)]
    BY <1>7, IdleJob DEF TypeInv, CommandFails
  <2>2. QED
    BY <1>7, <2>1 DEF TypeInv, CommandFails, server, channels, pages, history
<1>8. QED
  BY <1>1, <1>2, <1>3, <1>4, <1>5, <1>6, <1>7

\* The former owner is disconnected.
LEMMA EvictType ==
  ASSUME TypeInv, NEW c \in Conns, Evict(c) PROVE TypeInv'
<1>1. [type |-> "disconnected"] \in DownMessages(made)
  BY DEF DownMessages
<1>2. down' \in [Conns -> Seq(DownMessages(made))]
  BY <1>1, DeliverType DEF TypeInv, Evict
<1>3. QED
  BY <1>2 DEF TypeInv, Evict, server, pages, history

\* The layout is sent.
LEMMA GreetType ==
  ASSUME TypeInv, NEW c \in Conns, Greet(c) PROVE TypeInv'
<1> DEFINE m == [type |-> "connected", token |-> token[c], layout |-> tree]
<1>1. m \in DownMessages(made)
  BY DEF TypeInv, DownMessages, ServerTrees, Proper
<1>2. Deliver({c}, m)
  BY DEF Greet
<1> HIDE DEF m
<1>3. down' \in [Conns -> Seq(DownMessages(made))]
  BY <1>1, <1>2, DeliverType DEF TypeInv
<1>4. stale' \in [Pages -> BOOLEAN]
  BY LostType DEF TypeInv, Greet
<1>5. QED
  BY <1>3, <1>4 DEF TypeInv, Greet, server, pages

\* A change is told to the clients.
LEMMA BroadcastType ==
  ASSUME TypeInv, NEW c \in Conns, Broadcast(c) PROVE TypeInv'
<1>0. job[c] \in Jobs(made) /\ job[c].at = "tell"
  BY DEF TypeInv, Broadcast
<1>1. job[c].message \in DownMessages(made)
  BY <1>0, TypeFacts, JobFields DEF DownMessages
<1>2. down' \in [Conns -> Seq(DownMessages(made))]
  BY <1>1, DeliverType DEF TypeInv, Broadcast
<1>3. stale' \in [Pages -> BOOLEAN]
  BY LostType DEF TypeInv, Broadcast
<1>4. job' \in [Conns -> Jobs(made)]
  BY IdleJob DEF TypeInv, Broadcast
<1>5. QED
  BY <1>2, <1>3, <1>4 DEF TypeInv, Broadcast, server, pages

\* The read loop takes a command.
LEMMA ReadCommandType ==
  ASSUME TypeInv, NEW c \in Conns, ReadCommand(c) PROVE TypeInv'
<1> DEFINE m == Head(up[c])
<1>1. m \in UpMessages /\ Tail(up[c]) \in Seq(UpMessages) /\ m.type # "update_layout"
  BY HeadAndTail DEF TypeInv, ReadCommand
<1>2. m.session \in Sessions /\ m.type \in {"split", "close_pane"} /\ (m.type = "split" => m.direction \in Directions)
  BY <1>1, UpFieldsOf
<1>3. up' \in [Conns -> Seq(UpMessages)]
  BY <1>1 DEF TypeInv, ReadCommand
<1>4. \E j \in Jobs(made) : job' = [job EXCEPT ![c] = j]
  <2>1. CASE ~HasSession(tree, m.session)
    <3>1. job' = [job EXCEPT ![c] = NoJob]
      BY <2>1 DEF ReadCommand
    <3>2. QED
      BY <3>1, IdleJob
  <2>2. CASE HasSession(tree, m.session) /\ m.type = "split"
    <3>1. job' = [job EXCEPT ![c] = [at |-> "split", session |-> m.session, direction |-> m.direction]]
      BY <2>2 DEF ReadCommand
    <3>2. [at |-> "split", session |-> m.session, direction |-> m.direction] \in Jobs(made)
      BY <1>2, <2>2 DEF Jobs
    <3>3. QED
      BY <3>1, <3>2
  <2>3. CASE HasSession(tree, m.session) /\ m.type = "close_pane"
    <3>1. job' = [job EXCEPT ![c] = [at |-> IF tree = Pane(m.session) THEN "closeLast" ELSE "close", session |-> m.session]]
      BY <2>3 DEF ReadCommand
    <3>2. \A a \in {"close", "closeLast"} : [at |-> a, session |-> m.session] \in Jobs(made)
      BY <1>2 DEF Jobs
    <3>3. QED
      BY <3>1, <3>2
  <2>4. QED
    BY <1>2, <2>1, <2>2, <2>3
<1>5. job' \in [Conns -> Jobs(made)]
  BY <1>4 DEF TypeInv
<1>6. QED
  BY <1>3, <1>5 DEF TypeInv, ReadCommand, server, pages, history

\* The server's tree only changes for one with the same panes.
LEMMA UpdatedTree ==
  ASSUME TypeInv, NEW c \in Conns, UpdateLayout(c)
  PROVE /\ Head(up[c]) \in UpMessages /\ Head(up[c]).layout \in Layouts /\ IsUpdate(Head(up[c]))
        /\ Tail(up[c]) \in Seq(UpMessages)
        /\ Proper(tree', made) /\ Leaves(tree') = Leaves(tree) /\ made' = made
        /\ \/ /\ LayoutMatchesSessionSet(Head(up[c]).layout, SessionIDs(tree)) /\ tree' = Head(up[c]).layout
              /\ \A p \in Pages : unsynced'[p] = (unsynced[p] \/ (p # pageOf[c] /\ Informed(p)))
           \/ /\ ~LayoutMatchesSessionSet(Head(up[c]).layout, SessionIDs(tree)) /\ tree' = tree
              /\ \A p \in Pages : unsynced'[p] = (unsynced[p] \/ p = pageOf[c])
<1> DEFINE m == Head(up[c])
<1>1. m \in UpMessages /\ Tail(up[c]) \in Seq(UpMessages) /\ m.type = "update_layout"
  BY HeadAndTail DEF TypeInv, UpdateLayout
<1>2. m.layout \in Layouts
  BY <1>1, UpFieldsOf
<1>3. Proper(tree, made) /\ tree \in Layouts /\ Distinct(tree)
  BY DEF TypeInv, Proper
<1>4. CASE LayoutMatchesSessionSet(m.layout, SessionIDs(tree))
  <2>1. tree' = m.layout /\ made' = made
    BY <1>4 DEF UpdateLayout
  <2>2. Leaves(m.layout) = Leaves(tree) /\ Distinct(m.layout)
    BY <1>2, <1>3, <1>4, MatchingLayout
  <2>3. \A p \in Pages : unsynced'[p] = (unsynced[p] \/ (p # pageOf[c] /\ Informed(p)))
    BY <1>4 DEF UpdateLayout
  <2>4. QED
    BY <1>1, <1>2, <1>3, <1>4, <2>1, <2>2, <2>3 DEF Proper, IsUpdate
<1>5. CASE ~LayoutMatchesSessionSet(m.layout, SessionIDs(tree))
  <2>1. tree' = tree /\ made' = made /\ \A p \in Pages : unsynced'[p] = (unsynced[p] \/ p = pageOf[c])
    BY <1>5 DEF UpdateLayout
  <2>2. QED
    BY <1>1, <1>2, <1>3, <1>5, <2>1 DEF IsUpdate
<1>6. QED
  BY <1>4, <1>5

\* A layout from a page is taken over or rejected.
LEMMA UpdateLayoutType ==
  ASSUME TypeInv, NEW c \in Conns, UpdateLayout(c) PROVE TypeInv'
<1>1. Proper(tree', made) /\ Tail(up[c]) \in Seq(UpMessages)
  BY UpdatedTree
<1>2. up' \in [Conns -> Seq(UpMessages)]
  BY <1>1 DEF TypeInv, UpdateLayout
<1>3. unsynced' \in [Pages -> BOOLEAN]
  <2> DEFINE ok == LayoutMatchesSessionSet(Head(up[c]).layout, SessionIDs(tree))
             new(p) == unsynced[p] \/ IF ok THEN p # pageOf[c] /\ Informed(p) ELSE p = pageOf[c]
  <2>1. unsynced' = [p \in Pages |-> new(p)]
    BY DEF UpdateLayout
  <2>2. \A p \in Pages : new(p) \in BOOLEAN
    OBVIOUS
  <2> HIDE DEF new
  <2>3. QED
    BY <2>1, <2>2
<1>4. QED
  BY <1>1, <1>2, <1>3 DEF TypeInv, UpdateLayout, handlers, pages

\* The read loop ends.
LEMMA EndReadLoopType ==
  ASSUME TypeInv, NEW c \in Conns, EndReadLoop(c) PROVE TypeInv'
<1>1. up' \in [Conns -> Seq(UpMessages)]
  BY EmptySeq DEF TypeInv, EndReadLoop
<1>2. unsynced' \in [Pages -> BOOLEAN]
  <2>1. \A p \in Pages : (unsynced[p] \/ HasUpdate(c)) \in BOOLEAN
    OBVIOUS
  <2>2. QED
    BY <2>1 DEF TypeInv, EndReadLoop
<1>3. QED
  BY <1>1, <1>2 DEF TypeInv, EndReadLoop, server, pages

\* Every step keeps the types.
LEMMA TypeStep ==
  ASSUME TypeInv, ControlInv, [Next]_vars PROVE TypeInv'
<1>1. CASE \E p \in Pages : PageStep(p)
  <2>1. PICK p \in Pages : PageStep(p)
    BY <1>1
  <2>2. CASE \E s \in 1 .. MaxSessions : RequestClosePane(p, s) \/ \E d \in Directions : SplitPane(p, s, d)
    BY <2>2, CommandsType DEF Sessions
  <2>3. CASE \E x \in Splits(view[p]), r \in Ratios : DragHandle(p, x, r)
    BY <2>3, DragType
  <2>4. CASE (\E c \in Conns : OpenTab(p, c)) \/ LoseTab(p) \/ Receive(p)
    BY <2>4, OpenTabType, LoseTabType, ReceiveType
  <2>5. QED
    BY <2>1, <2>2, <2>3, <2>4 DEF PageStep
<1>2. CASE \E c \in Conns : HandlerStep(c)
  <2>1. PICK c \in Conns : HandlerStep(c)
    BY <1>2
  <2>2. QED
    BY <2>1, HandshakeType, ReplaceType, EvictType, GreetType, ReadCommandType, UpdateLayoutType,
       InsertPaneType, RemovePaneType, ReplacePaneType, BroadcastType, EndReadLoopType DEF HandlerStep
<1>3. CASE UNCHANGED vars
  BY <1>3 DEF vars, TypeInv
<1>4. QED
  BY <1>1, <1>2, <1>3 DEF Next

-----------------------------------------------------------------------------
(* Where pages and handlers can be *)

\* The rest of a sequence, place by place.
LEMMA TailMembers ==
  ASSUME NEW S, NEW q \in Seq(S), q # <<>>
  PROVE \A i \in DOMAIN Tail(q) : i + 1 \in DOMAIN q /\ Tail(q)[i] = q[i + 1]
  OBVIOUS

\* One more element, place by place.
LEMMA AppendMembers ==
  ASSUME NEW S, NEW q \in Seq(S), NEW m
  PROVE \A i \in DOMAIN Append(q, m) : Append(q, m)[i] = m \/ (i \in DOMAIN q /\ Append(q, m)[i] = q[i])
  OBVIOUS

\* Nobody is connected at first.
LEMMA InitControl == Init => ControlInv
<1> SUFFICES ASSUME Init PROVE ControlInv
  OBVIOUS
<1> USE LayoutAssumption, TreeAssumption
<1>1. \A p \in Pages : PageControl(p)
  BY DEF Init, PageControl, IsBoot
<1>2. \A c \in Conns : ConnControl(c)
  BY DEF Init, ConnControl, Listens, HasUpdate, NoJob
<1>3. QED
  BY <1>1, <1>2 DEF ControlInv

\* What the proofs use of the types.
LEMMA ControlTypes ==
  ASSUME TypeInv
  PROVE /\ None \notin Conns /\ None \notin Pages
        /\ hs \in [Conns -> HandlerStates] /\ DOMAIN job = Conns /\ clients \subseteq Conns
        /\ DOMAIN up = Conns /\ DOMAIN down = Conns /\ DOMAIN view = Pages
        /\ pageOf \in [Conns -> Pages \cup {None}] /\ conn \in [Pages -> Conns \cup {None}]
        /\ boot \in [Pages -> Conns \cup {None}] /\ phase \in [Pages -> PageStates]
        /\ stale \in [Pages -> BOOLEAN] /\ unsynced \in [Pages -> BOOLEAN]
        /\ \A c \in Conns : down[c] \in Seq(DownMessages(made)) /\ up[c] \in Seq(UpMessages) /\ job[c] \in Jobs(made)
  BY LayoutAssumption, TreeAssumption DEF TypeInv, HandlerStates, PageStates

-----------------------------------------------------------------------------
\* A page opens its connection.
LEMMA OpenTabControl ==
  ASSUME TypeInv, ControlInv, NEW p \in Pages, NEW c \in Conns, OpenTab(p, c) PROVE ControlInv'
<1> USE ControlTypes
<1>1. /\ conn[p] = None /\ phase[p] \in {"new", "off"} /\ hs[c] = "idle"
      /\ pageOf' = [pageOf EXCEPT ![c] = p] /\ conn' = [conn EXCEPT ![p] = c]
      /\ phase' = [phase EXCEPT ![p] = "first"]
      /\ boot' = [boot EXCEPT ![p] = IF @ = None THEN c ELSE @]
      /\ hs' = [hs EXCEPT ![c] = "arrived"]
      /\ job' = job /\ clients' = clients /\ up' = up /\ down' = down /\ view' = view /\ unsynced' = unsynced
  BY DEF OpenTab, channels, history
<1>2. \A q \in Pages : PageControl(q)'
  <2>1. SUFFICES ASSUME NEW q \in Pages PROVE PageControl(q)'
    OBVIOUS
  <2>2. PageControl(q)
    BY DEF ControlInv
  <2>3. CASE q = p
    BY <1>1, <2>2, <2>3 DEF PageControl, IsBoot
  <2>4. CASE q # p
    BY <1>1, <2>2, <2>4 DEF PageControl, IsBoot
  <2>5. QED
    BY <2>3, <2>4
<1>3. \A d \in Conns : ConnControl(d)'
  <2>1. SUFFICES ASSUME NEW d \in Conns PROVE ConnControl(d)'
    OBVIOUS
  <2>2. ConnControl(d)
    BY DEF ControlInv
  <2>3. CASE d = c
    BY <1>1, <2>2, <2>3 DEF ConnControl, HasUpdate, Listens
  <2>4. CASE d # c
    BY <1>1, <2>2, <2>4 DEF ConnControl, HasUpdate, Listens
  <2>5. QED
    BY <2>3, <2>4
<1>4. QED
  BY <1>2, <1>3 DEF ControlInv

\* A page is closed.
LEMMA LoseTabControl ==
  ASSUME TypeInv, ControlInv, NEW p \in Pages, LoseTab(p) PROVE ControlInv'
<1> USE ControlTypes
<1> DEFINE c == conn[p]
<1>1. /\ c \in Conns /\ conn' = [conn EXCEPT ![p] = None]
      /\ phase' = [phase EXCEPT ![p] = IF @ = "first" /\ c = boot[p] THEN "gone" ELSE "off"]
      /\ down' = [down EXCEPT ![c] = <<>>]
      /\ unsynced' = [unsynced EXCEPT ![p] = @ \/ HasUpdate(c)]
      /\ hs' = hs /\ job' = job /\ clients' = clients /\ up' = up /\ pageOf' = pageOf /\ boot' = boot /\ view' = view
  BY DEF LoseTab, handlers
<1>2. \A q \in Pages : PageControl(q)'
  <2>1. SUFFICES ASSUME NEW q \in Pages PROVE PageControl(q)'
    OBVIOUS
  <2>2. PageControl(q)
    BY DEF ControlInv
  <2>3. QED
    BY <1>1, <2>2 DEF PageControl, IsBoot
<1>3. \A d \in Conns : ConnControl(d)'
  <2>1. SUFFICES ASSUME NEW d \in Conns PROVE ConnControl(d)'
    OBVIOUS
  <2>2. ConnControl(d) /\ PageControl(p)
    BY DEF ControlInv
  <2>3. HasUpdate(d)' = HasUpdate(d)
    BY <1>1 DEF HasUpdate
  <2>4. unsynced'[p] = (unsynced[p] \/ HasUpdate(c)) /\ pageOf[c] = p
    BY <1>1, <2>2 DEF PageControl
  <2>5. CASE d = c
    <3>1. HasUpdate(d) => unsynced'[p]
      BY <2>4, <2>5
    <3>2. pageOf'[d] = p /\ down'[d] = <<>> /\ conn'[p] = None
      BY <1>1, <2>4, <2>5
    <3>3. QED
      BY <1>1, <2>2, <2>3, <3>1, <3>2 DEF ConnControl, Listens
  <2>6. CASE d # c
    BY <1>1, <2>2, <2>3, <2>6 DEF ConnControl, Listens, PageControl
  <2>7. QED
    BY <2>5, <2>6
<1>4. QED
  BY <1>2, <1>3 DEF ControlInv

\* A page sends on its connection, and may change its tree as long as it shows one.
LEMMA SendControl ==
  ASSUME TypeInv, ControlInv, NEW p \in Pages, conn[p] # None, NEW m \in UpMessages, Send(p, m),
         UNCHANGED <<handlers, down, pageOf, conn, phase, boot, unsynced>>,
         \A q \in Pages : view[q] = Blank => view'[q] = Blank
  PROVE ControlInv'
<1> USE ControlTypes
<1>1. /\ up' = [up EXCEPT ![conn[p]] = Append(@, m)] /\ conn[p] \in Conns
      /\ hs' = hs /\ job' = job /\ clients' = clients /\ down' = down /\ pageOf' = pageOf /\ conn' = conn
      /\ phase' = phase /\ boot' = boot /\ unsynced' = unsynced
  BY DEF Send, handlers
<1>2. \A q \in Pages : PageControl(q)'
  BY <1>1 DEF ControlInv, PageControl, IsBoot
<1>3. \A d \in Conns : ConnControl(d)'
  <2>1. SUFFICES ASSUME NEW d \in Conns PROVE ConnControl(d)'
    OBVIOUS
  <2>2. ConnControl(d) /\ PageControl(p)
    BY DEF ControlInv
  <2>3. CASE d = conn[p]
    BY <1>1, <2>2, <2>3 DEF ConnControl, Listens, PageControl
  <2>4. CASE d # conn[p]
    BY <1>1, <2>2, <2>4 DEF ConnControl, Listens, HasUpdate
  <2>5. QED
    BY <2>3, <2>4
<1>4. QED
  BY <1>2, <1>3 DEF ControlInv

\* A page asks to split or to close.
LEMMA CommandsControl ==
  ASSUME TypeInv, ControlInv, NEW p \in Pages, NEW s \in Sessions, RequestClosePane(p, s) \/ \E d \in Directions : SplitPane(p, s, d)
  PROVE ControlInv'
<1>1. PICK m \in UpMessages : Send(p, m)
  BY DEF RequestClosePane, SplitPane, UpMessages
<1>2. CanSend(p) /\ UNCHANGED <<server, handlers, down, pages, stale, unsynced>>
  BY DEF RequestClosePane, SplitPane
<1>3. conn[p] # None
  BY <1>2 DEF CanSend, ControlInv, PageControl
<1>4. QED
  BY <1>1, <1>2, <1>3, SendControl DEF pages

\* A handle is dragged.
LEMMA DragControl ==
  ASSUME TypeInv, ControlInv, NEW p \in Pages, NEW x, NEW r \in Ratios, DragHandle(p, x, r) PROVE ControlInv'
<1> USE ControlTypes
<1>1. /\ view[p] # Blank /\ view' = [view EXCEPT ![p] = SetRatio(@, x, r)]
      /\ UNCHANGED <<server, handlers, down, pageOf, conn, phase, boot, known, stale>>
  BY DEF DragHandle, Splits, Panes, Blank
<1>2. \A q \in Pages : view[q] = Blank => view'[q] = Blank
  BY <1>1
<1>3. CASE conn[p] # None
  <2> DEFINE layout == SerializeTree(SetRatio(view[p], x, r))
             m == [type |-> "update_layout", layout |-> layout]
  <2>1. layout \in Layouts /\ Send(p, m) /\ UNCHANGED unsynced
    BY <1>3 DEF DragHandle
  <2>2. m \in UpMessages
    BY <2>1 DEF UpMessages
  <2> HIDE DEF m
  <2>3. QED
    BY <1>1, <1>2, <1>3, <2>1, <2>2, SendControl
<1>4. CASE conn[p] = None
  <2>1. unsynced' = [unsynced EXCEPT ![p] = TRUE] /\ up' = up
    BY <1>4 DEF DragHandle
  <2>2. hs' = hs /\ job' = job /\ clients' = clients /\ down' = down /\ pageOf' = pageOf /\ conn' = conn /\ phase' = phase /\ boot' = boot
    BY <1>1 DEF handlers
  <2>3. \A q \in Pages : PageControl(q)'
    BY <1>2, <2>2 DEF ControlInv, PageControl, IsBoot
  <2>4. \A d \in Conns : ConnControl(d)'
    <3>1. SUFFICES ASSUME NEW d \in Conns PROVE ConnControl(d)'
      OBVIOUS
    <3>2. ConnControl(d)
      BY DEF ControlInv
    <3>3. HasUpdate(d)' => HasUpdate(d) /\ (~unsynced'[pageOf[d]] => ~unsynced[pageOf[d]])
      <4>1. HasUpdate(d) => pageOf[d] \in Pages
        BY <3>2 DEF HasUpdate, ConnControl
      <4>2. HasUpdate(d)' = HasUpdate(d)
        BY <2>1 DEF HasUpdate
      <4>3. QED
        BY <2>1, <4>1, <4>2
    <3>4. QED
      BY <2>1, <2>2, <3>2, <3>3 DEF ConnControl, Listens
  <2>5. QED
    BY <2>3, <2>4 DEF ControlInv
<1>5. QED
  BY <1>3, <1>4

\* A page receives a message.
LEMMA ReceiveControl ==
  ASSUME TypeInv, ControlInv, NEW p \in Pages, Receive(p) PROVE ControlInv'
<1> USE ControlTypes
<1> DEFINE c == conn[p]
           m == Head(down[c])
<1>1. /\ c \in Conns /\ down[c] # <<>> /\ down[c] \in Seq(DownMessages(made))
      /\ down' = [down EXCEPT ![c] = IF conn'[p] = None THEN <<>> ELSE Tail(@)]
      /\ hs' = hs /\ job' = job /\ clients' = clients /\ up' = up /\ pageOf' = pageOf /\ boot' = boot /\ unsynced' = unsynced
  BY DEF Receive, handlers
<1>2. PageControl(p) /\ ConnControl(c)
  BY <1>1 DEF ControlInv
<1>3. \/ /\ phase' = [phase EXCEPT ![p] = "live"] /\ conn' = conn
         /\ view' = [view EXCEPT ![p] = IF c = boot[p] THEN ReconstructLayout(m.layout) ELSE @]
      \/ /\ phase' = [phase EXCEPT ![p] = IF @ = "first" THEN "deaf" ELSE @] /\ conn' = conn /\ view' = view
         /\ phase[p] \in {"first", "prompted", "deaf"}
      \/ /\ phase' = phase /\ conn' = conn /\ view' = [view EXCEPT ![p] = View(p, m)] /\ phase[p] = "live"
      \/ /\ phase' = [phase EXCEPT ![p] = "gone"] /\ conn' = [conn EXCEPT ![p] = None] /\ view' = view
  BY DEF Receive
<1>4. \A q \in Pages : PageControl(q)'
  <2>1. SUFFICES ASSUME NEW q \in Pages PROVE PageControl(q)'
    OBVIOUS
  <2>2. PageControl(q)
    BY DEF ControlInv
  <2>3. CASE q # p
    BY <1>1, <1>3, <2>2, <2>3 DEF PageControl, IsBoot
  <2>4. CASE q = p
    BY <1>1, <1>2, <1>3, <2>4 DEF PageControl, IsBoot
  <2>5. QED
    BY <2>3, <2>4
<1>5. \A d \in Conns : ConnControl(d)'
  <2>1. SUFFICES ASSUME NEW d \in Conns PROVE ConnControl(d)'
    OBVIOUS
  <2>2. ConnControl(d)
    BY DEF ControlInv
  <2>3. HasUpdate(d)' <=> HasUpdate(d)
    BY <1>1 DEF HasUpdate
  <2>4. hs[c] \notin {"idle", "arrived", "replacing", "evict", "register"}
    BY <1>1, <1>2 DEF ConnControl
  <2>5. HasUpdate(d)' /\ ~unsynced'[pageOf'[d]] => conn'[pageOf'[d]] = d \/ phase'[pageOf'[d]] = "gone"
    <3>1. HasUpdate(d) => pageOf[d] \in Pages
      BY <2>2 DEF ConnControl, HasUpdate
    <3>2. conn[p] # None => phase[p] # "gone"
      BY <1>2 DEF PageControl
    <3>3. QED
      BY <1>1, <1>3, <2>2, <2>3, <3>1, <3>2 DEF ConnControl
  <2>6. Listens(d)' /\ hs'[d] = "arrived" => phase'[pageOf'[d]] = "first"
    BY <1>1, <1>2, <1>3, <2>2, <2>4 DEF ConnControl, Listens, PageControl
  <2>7. hs'[d] \notin {"serving", "ended"} => \A i \in DOMAIN down'[d] : ~Connected(down'[d][i])
    <3>1. CASE d # c
      BY <1>1, <2>2, <3>1 DEF ConnControl
    <3>2. CASE d = c
      <4>1. \A i \in DOMAIN Tail(down[c]) : i + 1 \in DOMAIN down[c] /\ Tail(down[c])[i] = down[c][i + 1]
        BY <1>1, TailMembers
      <4>2. down'[d] = <<>> \/ down'[d] = Tail(down[c])
        BY <1>1, <3>2
      <4>3. QED
        BY <1>1, <1>2, <3>2, <4>1, <4>2 DEF ConnControl
    <3>3. QED
      BY <3>1, <3>2
  <2>8. hs'[d] \in {"idle", "arrived", "replacing", "evict", "register"} => down'[d] = <<>>
    BY <1>1, <2>2, <2>4 DEF ConnControl
  <2>9. QED
    BY <1>1, <2>2, <2>5, <2>6, <2>7, <2>8 DEF ConnControl
<1>6. QED
  BY <1>4, <1>5 DEF ControlInv

-----------------------------------------------------------------------------
\* A handler's step leaves the pages' connections alone.
LEMMA HandlerPages ==
  ASSUME TypeInv, ControlInv, UNCHANGED <<pageOf, conn, phase, boot, view>>,
         \A c \in Conns : hs[c] # "idle" => hs'[c] # "idle"
  PROVE \A p \in Pages : PageControl(p)'
  BY ControlTypes DEF ControlInv, PageControl, IsBoot

\* A page is asked whether to take over.
LEMMA PromptedPages ==
  ASSUME TypeInv, ControlInv, NEW c \in Conns, hs[c] = "arrived", Listens(c), Prompt(c), UNCHANGED <<pageOf, conn, boot, view>>,
         \A d \in Conns : hs[d] # "idle" => hs'[d] # "idle"
  PROVE \A p \in Pages : PageControl(p)'
<1> USE ControlTypes
<1>1. pageOf[c] \in Pages /\ phase[pageOf[c]] = "first" /\ phase' = [phase EXCEPT ![pageOf[c]] = "prompted"]
  BY DEF ControlInv, ConnControl, Listens, Prompt
<1>2. QED
  BY <1>1 DEF ControlInv, PageControl, IsBoot

\* A handler moves on, and nothing is sent.
LEMMA MoveControl ==
  ASSUME TypeInv, ControlInv, NEW c \in Conns, UNCHANGED <<pageOf, conn, down, up>>, NEW s, hs' = [hs EXCEPT ![c] = s],
         \A p \in Pages : unsynced[p] => unsynced'[p],
         \/ phase' = phase
         \/ hs[c] = "arrived" /\ Listens(c) /\ Prompt(c),
         hs[c] # "idle", s \notin {"idle", "arrived"},
         s \notin {"serving", "ended"} => hs[c] \notin {"serving", "ended"},
         s \in {"replacing", "evict", "register"} => hs[c] \in {"arrived", "replacing", "evict", "register"},
         \A d \in Conns : d # c => job'[d] = job[d] /\ (d \in clients' => d \in clients),
         c \in clients' => s \in {"registered", "serving"},
         s = "replacing" <=> job'[c].at = "replace", job'[c].at \in {"none", "replace"}
  PROVE \A d \in Conns : ConnControl(d)'
<1> USE ControlTypes
<1>1. SUFFICES ASSUME NEW d \in Conns PROVE ConnControl(d)'
  OBVIOUS
<1>2. ConnControl(d) /\ ConnControl(c)
  BY DEF ControlInv
<1>3. HasUpdate(d)' <=> HasUpdate(d)
  BY DEF HasUpdate
<1>4. HasUpdate(d)' /\ ~unsynced'[pageOf'[d]] => conn'[pageOf'[d]] = d \/ phase'[pageOf'[d]] = "gone"
  <2>1. HasUpdate(d) => pageOf[d] \in Pages
    BY <1>2 DEF ConnControl, HasUpdate
  <2>2. phase' = phase \/ (Listens(c) /\ phase[pageOf[c]] = "first" /\ phase' = [phase EXCEPT ![pageOf[c]] = "prompted"])
    BY <1>2 DEF Prompt, ConnControl
  <2>3. QED
    BY <1>2, <1>3, <2>1, <2>2 DEF ConnControl
<1>5. Listens(d)' /\ hs'[d] = "arrived" => phase'[pageOf'[d]] = "first"
  <2>1. Listens(d)' <=> Listens(d)
    BY DEF Listens
  <2>2. CASE d = c
    BY <2>2
  <2>3. CASE d # c
    BY <1>2, <2>1, <2>3 DEF ConnControl, Prompt, Listens
  <2>4. QED
    BY <2>2, <2>3
<1>6. CASE d = c
  BY <1>2, <1>4, <1>5, <1>6 DEF ConnControl
<1>7. CASE d # c
  BY <1>2, <1>4, <1>5, <1>7 DEF ConnControl
<1>8. QED
  BY <1>6, <1>7

\* The steps of the handshake.
LEMMA HandshakeControl ==
  ASSUME TypeInv, ControlInv, NEW c \in Conns, Resume(c) \/ Register(c) \/ NoChoice(c) \/ ReplaceFails(c) \/ Replace(c)
  PROVE ControlInv'
<1> USE ControlTypes
<1>0. ConnControl(c)
  BY DEF ControlInv
<1>1. UNCHANGED <<pageOf, conn, phase, boot, view, down, up, unsynced>>
  BY DEF Resume, Register, NoChoice, ReplaceFails, Replace, pages, channels, history
<1>2. \E s \in {"registered", "ended", "evict"} :
        /\ hs' = [hs EXCEPT ![c] = s]
        /\ s \notin {"serving", "ended"} => hs[c] \notin {"serving", "ended"}
        /\ s = "evict" => hs[c] = "replacing"
        /\ c \in clients' => s = "registered"
        /\ hs[c] # "idle"
  <2>1. CASE Resume(c) \/ Register(c)
    BY <2>1 DEF Resume, Register
  <2>2. CASE NoChoice(c)
    BY <1>0, <2>2 DEF NoChoice, Conflict, ConnControl
  <2>3. CASE ReplaceFails(c) \/ Replace(c)
    BY <1>0, <2>3 DEF ReplaceFails, Replace, ConnControl
  <2>4. QED
    BY <2>1, <2>2, <2>3
<1>3. PICK s \in {"registered", "ended", "evict"} :
        /\ hs' = [hs EXCEPT ![c] = s]
        /\ s \notin {"serving", "ended"} => hs[c] \notin {"serving", "ended"}
        /\ s = "evict" => hs[c] = "replacing"
        /\ c \in clients' => s = "registered"
        /\ hs[c] # "idle"
  BY <1>2
<1>4. \A d \in Conns : d # c => job'[d] = job[d] /\ (d \in clients' => d \in clients)
  BY DEF Resume, Register, NoChoice, ReplaceFails, Replace
<1>5. job'[c].at = "none"
  <2>1. CASE Resume(c) \/ Register(c)
    BY <1>0, <2>1 DEF Resume, Register, ConnControl
  <2>2. CASE NoChoice(c)
    BY <1>0, <2>2 DEF NoChoice, Conflict, ConnControl
  <2>3. CASE ReplaceFails(c) \/ Replace(c)
    BY <2>3 DEF ReplaceFails, Replace, NoJob
  <2>4. QED
    BY <2>1, <2>2, <2>3
<1>6. \A p \in Pages : PageControl(p)'
  BY <1>1, <1>3, HandlerPages
<1>7. \A d \in Conns : ConnControl(d)'
  BY <1>1, <1>3, <1>4, <1>5, MoveControl
<1>8. QED
  BY <1>6, <1>7 DEF ControlInv

\* The page's answer.
LEMMA ChoiceControl ==
  ASSUME TypeInv, ControlInv, NEW c \in Conns, ChooseTakeover(c) \/ ChooseNew(c) PROVE ControlInv'
<1> USE ControlTypes
<1>0. ConnControl(c)
  BY DEF ControlInv
<1>1. UNCHANGED <<pageOf, conn, boot, view, down, up, unsynced, clients>>
  BY DEF ChooseTakeover, ChooseNew, channels, history
<1>2. hs[c] = "arrived" /\ Listens(c) /\ Prompt(c) /\ c \notin clients /\ job[c].at = "none"
  BY <1>0 DEF ChooseTakeover, ChooseNew, Conflict, ConnControl
<1>3. CASE ChooseTakeover(c)
  <2> DEFINE s == "evict"
  <2>1. hs' = [hs EXCEPT ![c] = s] /\ job' = job
    BY <1>3 DEF ChooseTakeover
  <2>a. s \notin {"idle", "arrived", "serving", "ended", "registered"} /\ (s = "replacing" <=> job'[c].at = "replace")
    BY <1>2, <2>1
  <2>d. job'[c].at \in {"none", "replace"}
    BY <1>2, <2>1
  <2>b. \A d \in Conns : d # c => job'[d] = job[d] /\ (d \in clients' => d \in clients)
    BY <1>1, <2>1
  <2>c. c \notin clients' /\ \A p \in Pages : unsynced[p] => unsynced'[p]
    BY <1>1, <1>2
  <2>2. \A p \in Pages : PageControl(p)'
    BY <1>1, <1>2, <2>1, PromptedPages
  <2> HIDE DEF s
  <2>3. \A d \in Conns : ConnControl(d)'
    BY <1>1, <1>2, <2>1, <2>a, <2>b, <2>c, <2>d, MoveControl
  <2>4. QED
    BY <2>2, <2>3 DEF ControlInv
<1>4. CASE ChooseNew(c)
  <2> DEFINE s == "replacing"
  <2>1. hs' = [hs EXCEPT ![c] = s] /\ job' = [job EXCEPT ![c] = [at |-> "replace", layout |-> tree]]
    BY <1>4 DEF ChooseNew
  <2>a. s \notin {"idle", "arrived", "serving", "ended", "registered"} /\ (s = "replacing" <=> job'[c].at = "replace")
    BY <1>2, <2>1
  <2>d. job'[c].at \in {"none", "replace"}
    BY <1>2, <2>1
  <2>b. \A d \in Conns : d # c => job'[d] = job[d] /\ (d \in clients' => d \in clients)
    BY <1>1, <2>1
  <2>c. c \notin clients' /\ \A p \in Pages : unsynced[p] => unsynced'[p]
    BY <1>1, <1>2
  <2>2. \A p \in Pages : PageControl(p)'
    BY <1>1, <1>2, <2>1, PromptedPages
  <2> HIDE DEF s
  <2>3. \A d \in Conns : ConnControl(d)'
    BY <1>1, <1>2, <2>1, <2>a, <2>b, <2>c, <2>d, MoveControl
  <2>4. QED
    BY <2>2, <2>3 DEF ControlInv
<1>5. QED
  BY <1>3, <1>4

\* A handler works on a command.
LEMMA WorkControl ==
  ASSUME TypeInv, ControlInv, NEW c \in Conns,
         ReadCommand(c) \/ UpdateLayout(c) \/ InsertPane(c) \/ RemovePane(c) \/ ReplacePane(c) \/ CommandFails(c)
  PROVE ControlInv'
<1> USE ControlTypes
<1>0. ConnControl(c)
  BY DEF ControlInv
<1>1. UNCHANGED <<pageOf, conn, phase, boot, view, down, hs, clients>>
  BY DEF ReadCommand, UpdateLayout, InsertPane, RemovePane, ReplacePane, CommandFails, channels, pages, handlers
<1>2. \A p \in Pages : unsynced[p] => unsynced'[p]
  BY DEF ReadCommand, UpdateLayout, InsertPane, RemovePane, ReplacePane, CommandFails, history
<1>3. /\ \A d \in Conns : d # c => job'[d] = job[d]
      /\ job'[c].at # "replace" /\ hs[c] = "serving"
  <2>1. CASE ReadCommand(c)
    <3>1. Head(up[c]) \in UpMessages /\ hs[c] = "serving"
      BY <2>1, HeadAndTail DEF ReadCommand
    <3>2. Head(up[c]).type \in {"split", "close_pane"}
      BY <2>1, <3>1, UpFieldsOf DEF ReadCommand
    <3>3. QED
      BY <2>1, <3>1, <3>2 DEF ReadCommand, NoJob
  <2>2. CASE UpdateLayout(c)
    BY <1>0, <2>2 DEF UpdateLayout, handlers, ConnControl
  <2>3. CASE InsertPane(c)
    BY <1>0, <2>3 DEF InsertPane, Tell, ConnControl, NoJob
  <2>4. CASE RemovePane(c)
    BY <1>0, <2>4 DEF RemovePane, Tell, ConnControl, NoJob
  <2>5. CASE ReplacePane(c)
    BY <1>0, <2>5 DEF ReplacePane, Tell, ConnControl, NoJob
  <2>6. CASE CommandFails(c)
    BY <1>0, <2>6 DEF CommandFails, ConnControl, NoJob
  <2>7. QED
    BY <2>1, <2>2, <2>3, <2>4, <2>5, <2>6
<1>4. \A d \in Conns : HasUpdate(d)' => HasUpdate(d)
  <2>1. CASE ReadCommand(c) \/ UpdateLayout(c)
    <3>1. up' = [up EXCEPT ![c] = Tail(@)] /\ up[c] # <<>>
      BY <2>1 DEF ReadCommand, UpdateLayout
    <3>2. \A i \in DOMAIN Tail(up[c]) : i + 1 \in DOMAIN up[c] /\ Tail(up[c])[i] = up[c][i + 1]
      BY <3>1, TailMembers
    <3>3. QED
      BY <3>1, <3>2 DEF HasUpdate
  <2>2. CASE InsertPane(c) \/ RemovePane(c) \/ ReplacePane(c) \/ CommandFails(c)
    <3>1. up' = up
      BY <2>2 DEF InsertPane, RemovePane, ReplacePane, CommandFails, channels
    <3>2. QED
      BY <3>1 DEF HasUpdate
  <2>3. QED
    BY <2>1, <2>2
<1>5. \A d \in Conns : up[d] = <<>> => up'[d] = <<>>
  BY DEF ReadCommand, UpdateLayout, InsertPane, RemovePane, ReplacePane, CommandFails, channels
<1>6. \A p \in Pages : PageControl(p)'
  BY <1>1, HandlerPages
<1>7. \A d \in Conns : ConnControl(d)'
  <2>1. SUFFICES ASSUME NEW d \in Conns PROVE ConnControl(d)'
    OBVIOUS
  <2>2. ConnControl(d)
    BY DEF ControlInv
  <2>3. HasUpdate(d) => pageOf[d] \in Pages
    BY <2>2 DEF ConnControl, HasUpdate
  <2>4. HasUpdate(d)' /\ ~unsynced'[pageOf'[d]] => conn'[pageOf'[d]] = d \/ phase'[pageOf'[d]] = "gone"
    BY <1>1, <1>2, <1>4, <2>2, <2>3 DEF ConnControl
  <2>5. hs'[d] = "replacing" <=> job'[d].at = "replace"
    BY <1>1, <1>3, <2>2 DEF ConnControl
  <2>6. job'[d].at \notin {"none", "replace"} => hs'[d] = "serving"
    BY <1>1, <1>3, <2>2 DEF ConnControl
  <2>7. QED
    BY <1>1, <1>5, <2>2, <2>4, <2>5, <2>6 DEF ConnControl, Listens
<1>8. QED
  BY <1>6, <1>7 DEF ControlInv

\* A message goes to connections that have been registered.
LEMMA DeliveredControl ==
  ASSUME TypeInv, ControlInv, NEW m, NEW ds, Deliver(ds, m), UNCHANGED <<pageOf, conn, phase, boot, view, up, unsynced>>,
         \A d \in Conns : hs[d] # "idle" => hs'[d] # "idle",
         \A d \in Conns : /\ hs[d] = "idle" <=> hs'[d] = "idle"
                          /\ hs'[d] = "arrived" => hs[d] = "arrived"
                          /\ hs'[d] \in {"idle", "arrived", "replacing", "evict", "register"} =>
                               hs[d] \in {"idle", "arrived", "replacing", "evict", "register"} /\ d \notin ds
                          /\ hs'[d] \notin {"serving", "ended"} => hs[d] \notin {"serving", "ended"} /\ (d \in ds => ~Connected(m))
                          /\ d \in clients' => hs'[d] \in {"registered", "serving"}
                          /\ hs'[d] = "replacing" <=> job'[d].at = "replace"
                          /\ job'[d].at \notin {"none", "replace"} => hs'[d] = "serving"
  PROVE ControlInv'
<1> USE ControlTypes
<1>1. \A p \in Pages : PageControl(p)'
  BY HandlerPages
<1>2. SUFFICES ASSUME NEW d \in Conns PROVE ConnControl(d)'
  BY <1>1 DEF ControlInv
<1>3. ConnControl(d)
  BY DEF ControlInv
<1>4. HasUpdate(d)' <=> HasUpdate(d)
  BY DEF HasUpdate
<1>5. HasUpdate(d)' /\ ~unsynced'[pageOf'[d]] => conn'[pageOf'[d]] = d \/ phase'[pageOf'[d]] = "gone"
  BY <1>3, <1>4 DEF ConnControl
<1>6. hs'[d] \in {"idle", "arrived", "replacing", "evict", "register"} => down'[d] = <<>>
  BY <1>3 DEF ConnControl, Deliver
<1>7. hs'[d] \notin {"serving", "ended"} => \A i \in DOMAIN down'[d] : ~Connected(down'[d][i])
  <2>1. CASE down'[d] = down[d]
    BY <1>3, <2>1 DEF ConnControl
  <2>2. CASE d \in ds /\ down'[d] = Append(down[d], m)
    <3>1. \A i \in DOMAIN down'[d] : down'[d][i] = m \/ (i \in DOMAIN down[d] /\ down'[d][i] = down[d][i])
      BY <2>2, AppendMembers
    <3>2. QED
      BY <1>3, <2>2, <3>1 DEF ConnControl
  <2>3. QED
    BY <2>1, <2>2 DEF Deliver
<1>8. Listens(d)' /\ hs'[d] = "arrived" => phase'[pageOf'[d]] = "first"
  BY <1>3 DEF ConnControl, Listens
<1>9. QED
  BY <1>3, <1>5, <1>6, <1>7, <1>8 DEF ConnControl

\* The former owner is disconnected.
LEMMA EvictControl ==
  ASSUME TypeInv, ControlInv, NEW c \in Conns, Evict(c) PROVE ControlInv'
<1> USE ControlTypes
<1> DEFINE m == [type |-> "disconnected"]
<1>1. /\ hs[c] = "evict" /\ clients' = {} /\ hs' = [hs EXCEPT ![c] = "register"] /\ job' = job
      /\ UNCHANGED <<pageOf, conn, phase, boot, view, up, unsynced>> /\ Deliver(clients, m)
  BY DEF Evict, pages, history
<1>2. ~Connected(m)
  BY DEF Connected
<1> HIDE DEF m
<1>3. \A d \in Conns : (d \in clients => hs[d] \in {"registered", "serving"}) /\ (hs[d] = "replacing" <=> job[d].at = "replace")
                        /\ (job[d].at \notin {"none", "replace"} => hs[d] = "serving")
  BY DEF ControlInv, ConnControl
<1>4. QED
  BY <1>1, <1>2, <1>3, DeliveredControl

\* The layout is sent.
LEMMA GreetControl ==
  ASSUME TypeInv, ControlInv, NEW c \in Conns, Greet(c) PROVE ControlInv'
<1> USE ControlTypes
<1> DEFINE m == [type |-> "connected", token |-> token[c], layout |-> tree]
<1>1. /\ hs[c] = "registered" /\ hs' = [hs EXCEPT ![c] = "serving"] /\ job' = job /\ clients' = clients
      /\ UNCHANGED <<pageOf, conn, phase, boot, view, up, unsynced>> /\ Deliver({c}, m)
  BY DEF Greet, pages
<1> DEFINE ds == {c}
<1> HIDE DEF m
<1>2. \A d \in Conns : (d \in clients => hs[d] \in {"registered", "serving"}) /\ (hs[d] = "replacing" <=> job[d].at = "replace")
                        /\ (job[d].at \notin {"none", "replace"} => hs[d] = "serving")
  BY DEF ControlInv, ConnControl
<1>a. \A d \in Conns : d \in ds <=> d = c
  OBVIOUS
<1>b. Deliver(ds, m)
  BY <1>1
<1> HIDE DEF ds
<1>3. \A d \in Conns : /\ hs[d] = "idle" <=> hs'[d] = "idle"
                       /\ hs'[d] = "arrived" => hs[d] = "arrived"
                       /\ hs'[d] \in {"idle", "arrived", "replacing", "evict", "register"} =>
                            hs[d] \in {"idle", "arrived", "replacing", "evict", "register"} /\ d \notin ds
                       /\ hs'[d] \notin {"serving", "ended"} => hs[d] \notin {"serving", "ended"} /\ (d \in ds => ~Connected(m))
                       /\ d \in clients' => hs'[d] \in {"registered", "serving"}
                       /\ hs'[d] = "replacing" <=> job'[d].at = "replace"
                       /\ job'[d].at \notin {"none", "replace"} => hs'[d] = "serving"
  BY <1>1, <1>2, <1>a
<1>c. \A d \in Conns : hs[d] # "idle" => hs'[d] # "idle"
  BY <1>3
<1>d. UNCHANGED <<pageOf, conn, phase, boot, view, up, unsynced>>
  BY <1>1
<1>4. QED
  BY <1>3, <1>b, <1>c, <1>d, DeliveredControl

\* A change is told.
LEMMA BroadcastControl ==
  ASSUME TypeInv, ControlInv, NEW c \in Conns, Broadcast(c) PROVE ControlInv'
<1> USE ControlTypes
<1>1. /\ job[c].at = "tell" /\ job' = [job EXCEPT ![c] = NoJob] /\ hs' = hs /\ clients' = clients
      /\ UNCHANGED <<pageOf, conn, phase, boot, view, up, unsynced>> /\ Deliver(clients, job[c].message)
  BY DEF Broadcast, pages
<1>2. ~Connected(job[c].message)
  <2>1. job[c].message \in Edits(made)
    BY <1>1, TypeFacts, JobFields
  <2>2. QED
    BY <2>1, TypeFacts, EditFields
<1>3. \A d \in Conns : (d \in clients => hs[d] \in {"registered", "serving"}) /\ (hs[d] = "replacing" <=> job[d].at = "replace")
                        /\ (job[d].at \notin {"none", "replace"} => hs[d] = "serving")
  BY DEF ControlInv, ConnControl
<1>4. \A d \in Conns : (job'[d].at = "replace" <=> job[d].at = "replace") /\ (job'[d].at # "none" => job'[d] = job[d])
  BY <1>1 DEF NoJob
<1> DEFINE m == job[c].message
<1>a. Deliver(clients, m) /\ ~Connected(m)
  BY <1>1, <1>2
<1> HIDE DEF m
<1>5. QED
  BY <1>1, <1>3, <1>4, <1>a, DeliveredControl, ZenonT(60)

\* The read loop ends.
LEMMA EndControl ==
  ASSUME TypeInv, ControlInv, NEW c \in Conns, EndReadLoop(c) PROVE ControlInv'
<1> USE ControlTypes
<1>0. ConnControl(c)
  BY DEF ControlInv
<1>1. /\ hs[c] = "serving" /\ job[c].at = "none" /\ hs' = [hs EXCEPT ![c] = "ended"] /\ job' = job /\ clients' = clients \ {c}
      /\ up' = [up EXCEPT ![c] = <<>>] /\ UNCHANGED <<pageOf, conn, phase, boot, view, down>>
      /\ \A p \in Pages : unsynced[p] => unsynced'[p]
  BY DEF EndReadLoop, pages, NoJob
<1>2. \A p \in Pages : PageControl(p)'
  BY <1>1, HandlerPages
<1>3. \A d \in Conns : ConnControl(d)'
  <2>1. SUFFICES ASSUME NEW d \in Conns PROVE ConnControl(d)'
    OBVIOUS
  <2>2. ConnControl(d)
    BY DEF ControlInv
  <2>3. CASE d = c
    BY <1>1, <2>2, <2>3 DEF ConnControl, Listens, HasUpdate
  <2>4. CASE d # c
    <3>1. HasUpdate(d)' <=> HasUpdate(d)
      BY <1>1, <2>4 DEF HasUpdate
    <3>2. HasUpdate(d) => pageOf[d] \in Pages
      BY <2>2 DEF ConnControl, HasUpdate
    <3>3. QED
      BY <1>1, <2>2, <2>4, <3>1, <3>2 DEF ConnControl, Listens
  <2>5. QED
    BY <2>3, <2>4
<1>4. QED
  BY <1>2, <1>3 DEF ControlInv

\* Every step keeps pages and handlers where they can be.
LEMMA ControlStep ==
  ASSUME TypeInv, ControlInv, [Next]_vars PROVE ControlInv'
<1>1. CASE \E p \in Pages : PageStep(p)
  <2>1. PICK p \in Pages : PageStep(p)
    BY <1>1
  <2>2. CASE \E s \in 1 .. MaxSessions : RequestClosePane(p, s) \/ \E d \in Directions : SplitPane(p, s, d)
    BY <2>2, CommandsControl DEF Sessions
  <2>3. CASE \E x \in Splits(view[p]), r \in Ratios : DragHandle(p, x, r)
    BY <2>3, DragControl
  <2>4. CASE (\E c \in Conns : OpenTab(p, c)) \/ LoseTab(p) \/ Receive(p)
    BY <2>4, OpenTabControl, LoseTabControl, ReceiveControl
  <2>5. QED
    BY <2>1, <2>2, <2>3, <2>4 DEF PageStep
<1>2. CASE \E c \in Conns : HandlerStep(c)
  <2>1. PICK c \in Conns : HandlerStep(c)
    BY <1>2
  <2>2. QED
    BY <2>1, HandshakeControl, ChoiceControl, WorkControl, EvictControl, GreetControl, BroadcastControl, EndControl DEF HandlerStep
<1>3. CASE UNCHANGED vars
  BY <1>3 DEF vars, ControlInv, PageControl, ConnControl, IsBoot, Listens, HasUpdate
<1>4. QED
  BY <1>1, <1>2, <1>3 DEF Next

-----------------------------------------------------------------------------
(* The story of each step *)

\* A sequence, as Slice and Inserted take it.
LEMMA SeqIs ==
  ASSUME NEW S, NEW q \in Seq(S) PROVE IsSeq(q) /\ Slice(q, q, 0) /\ \A i \in DOMAIN q : q[i] \in S
<1>1. Len(q) \in Nat /\ DOMAIN q = 1 .. Len(q)
  OBVIOUS
<1>2. \A i \in 1 .. Len(q) : i + 0 = i
  BY <1>1
<1>3. \A i \in DOMAIN q : q[i] \in S
  OBVIOUS
<1>4. QED
  BY <1>1, <1>2, <1>3 DEF IsSeq, Slice

IsJoined(S, q, a, b) ==
  /\ q \in Seq(S) /\ Len(q) = Len(a) + Len(b) /\ Len(a) \in Nat /\ Len(b) \in Nat
  /\ \A i \in 1 .. Len(a) : q[i] = a[i]
  /\ \A i \in 1 .. Len(b) : q[i + Len(a)] = b[i]

\* Two sequences joined.
LEMMA Joining ==
  ASSUME NEW S, NEW a \in Seq(S), NEW b \in Seq(S) PROVE IsJoined(S, a \o b, a, b)
  BY DEF IsJoined

\* Each is a part of both.
LEMMA JoinedSlices ==
  ASSUME NEW S, NEW a \in Seq(S), NEW b \in Seq(S)
  PROVE /\ Slice(a, a \o b, 0)
        /\ Slice(b, a \o b, Len(a)) /\ Len(b) + Len(a) = Len(a \o b)
<1> DEFINE q == a \o b
<1>1. /\ q \in Seq(S) /\ Len(q) = Len(a) + Len(b)
      /\ Len(a) \in Nat /\ Len(b) \in Nat
      /\ \A i \in 1 .. Len(a) : q[i] = a[i]
      /\ \A i \in 1 .. Len(b) : q[i + Len(a)] = b[i]
  BY Joining DEF IsJoined
<1> HIDE DEF q
<1>2. IsSeq(a) /\ IsSeq(b) /\ IsSeq(q)
  BY <1>1, SeqIs
<1>3. \A i \in 1 .. Len(a) : a[i] = q[i + 0]
  BY <1>1
<1>4. Slice(a, q, 0)
  BY <1>1, <1>2, <1>3 DEF Slice
<1>5. Slice(b, q, Len(a)) /\ Len(b) + Len(a) = Len(q)
  BY <1>1, <1>2 DEF Slice
<1>6. QED
  BY <1>4, <1>5 DEF q

\* The first message is received, the others follow as before.
LEMMA TailSlice ==
  ASSUME NEW S, NEW a \in Seq(S), NEW b \in Seq(S), a # <<>>
  PROVE /\ Slice(Tail(a) \o b, a \o b, 1) /\ Len(Tail(a) \o b) + 1 = Len(a \o b) /\ (a \o b)[1] = Head(a)
        /\ Tail(a) \o b \in Seq(S)
<1> DEFINE q == a \o b
           t == Tail(a)
           q2 == t \o b
<1>1. t \in Seq(S) /\ Len(a) \in Nat \ {0} /\ Len(t) = Len(a) - 1 /\ Head(a) = a[1] /\ \A i \in 1 .. Len(t) : t[i] = a[i + 1]
  OBVIOUS
<1>2. /\ q \in Seq(S) /\ Len(q) = Len(a) + Len(b) /\ Len(b) \in Nat
      /\ \A i \in 1 .. Len(a) : q[i] = a[i]
      /\ \A i \in 1 .. Len(b) : q[i + Len(a)] = b[i]
  BY Joining DEF IsJoined
<1> HIDE DEF t
<1>3. /\ q2 \in Seq(S) /\ Len(q2) = Len(t) + Len(b)
      /\ \A i \in 1 .. Len(t) : q2[i] = t[i]
      /\ \A i \in 1 .. Len(b) : q2[i + Len(t)] = b[i]
  <2>1. IsJoined(S, q2, t, b)
    BY <1>1, Joining
  <2>2. QED
    BY <2>1 DEF IsJoined
<1> HIDE DEF q, q2
<1>4. IsSeq(q) /\ IsSeq(q2)
  BY <1>2, <1>3, SeqIs
<1>5. \A i \in 1 .. Len(q2) : q2[i] = q[i + 1]
  <2>1. SUFFICES ASSUME NEW i \in 1 .. Len(q2) PROVE q2[i] = q[i + 1]
    OBVIOUS
  <2>2. CASE i <= Len(t)
    <3>1. i \in 1 .. Len(t) /\ i + 1 \in 1 .. Len(a)
      BY <1>1, <1>2, <1>3, <2>2
    <3>2. QED
      BY <1>1, <1>2, <1>3, <3>1
  <2>3. CASE i > Len(t)
    <3>1. i - Len(t) \in 1 .. Len(b) /\ (i - Len(t)) + Len(t) = i /\ (i - Len(t)) + Len(a) = i + 1
      BY <1>1, <1>2, <1>3, <2>3
    <3>2. q2[(i - Len(t)) + Len(t)] = b[i - Len(t)] /\ q[(i - Len(t)) + Len(a)] = b[i - Len(t)]
      BY <1>2, <1>3, <3>1
    <3>3. QED
      BY <3>1, <3>2
  <2>4. QED
    BY <1>1, <1>2, <1>3, <2>2, <2>3
<1>6. Slice(q2, q, 1) /\ Len(q2) + 1 = Len(q) /\ q[1] = Head(a)
  BY <1>1, <1>2, <1>3, <1>4, <1>5 DEF Slice
<1>7. QED
  BY <1>3, <1>6 DEF q, q2, t

\* A message is queued before what is pending.
LEMMA PutIn ==
  ASSUME NEW S, NEW a \in Seq(S), NEW b \in Seq(S), NEW m \in S
  PROVE Inserted(Append(a, m) \o b, a \o b, Len(a), m) /\ Append(a, m) \o b \in Seq(S)
<1> DEFINE q == a \o b
           t == Append(a, m)
           q2 == t \o b
<1>1. t \in Seq(S) /\ Len(a) \in Nat /\ Len(t) = Len(a) + 1 /\ t[Len(a) + 1] = m /\ \A i \in 1 .. Len(a) : t[i] = a[i]
  OBVIOUS
<1>2. /\ q \in Seq(S) /\ Len(q) = Len(a) + Len(b) /\ Len(b) \in Nat
      /\ \A i \in 1 .. Len(a) : q[i] = a[i]
      /\ \A i \in 1 .. Len(b) : q[i + Len(a)] = b[i]
  BY Joining DEF IsJoined
<1> HIDE DEF t
<1>3. /\ q2 \in Seq(S) /\ Len(q2) = Len(t) + Len(b)
      /\ \A i \in 1 .. Len(t) : q2[i] = t[i]
      /\ \A i \in 1 .. Len(b) : q2[i + Len(t)] = b[i]
  <2>1. IsJoined(S, q2, t, b)
    BY <1>1, Joining
  <2>2. QED
    BY <2>1 DEF IsJoined
<1> HIDE DEF q, q2
<1>4. IsSeq(q) /\ IsSeq(q2)
  BY <1>2, <1>3, SeqIs
<1>5. \A i \in Len(a) + 1 .. Len(q) : q2[i + 1] = q[i]
  <2>1. SUFFICES ASSUME NEW i \in Len(a) + 1 .. Len(q) PROVE q2[i + 1] = q[i]
    OBVIOUS
  <2>2. i - Len(a) \in 1 .. Len(b) /\ (i - Len(a)) + Len(t) = i + 1 /\ (i - Len(a)) + Len(a) = i
    BY <1>1, <1>2
  <2>3. q2[(i - Len(a)) + Len(t)] = b[i - Len(a)] /\ q[(i - Len(a)) + Len(a)] = b[i - Len(a)]
    BY <1>2, <1>3, <2>2
  <2>4. QED
    BY <2>2, <2>3
<1>6. q2[Len(a) + 1] = m /\ \A i \in 1 .. Len(a) : q2[i] = q[i]
  BY <1>1, <1>2, <1>3
<1>7. Inserted(q2, q, Len(a), m)
  BY <1>1, <1>2, <1>3, <1>4, <1>5, <1>6 DEF Inserted
<1>8. QED
  BY <1>3, <1>7 DEF q, q2, t

\* One more element, as a join.
LEMMA AppendIsJoin ==
  ASSUME NEW S, NEW a \in Seq(S), NEW m \in S
  PROVE a \o <<m>> = Append(a, m) /\ a \o <<>> = a /\ Append(a, m) \o <<>> = a \o <<m>> /\ <<>> \o a = a
  OBVIOUS

\* One more element, as an insertion.
LEMMA AppendInserted ==
  ASSUME NEW S, NEW a \in Seq(S), NEW m \in S
  PROVE Inserted(Append(a, m), a, Len(a), m)
<1>1. Inserted(Append(a, m) \o <<>>, a \o <<>>, Len(a), m)
  BY EmptySeq, PutIn
<1>2. Append(a, m) \o <<>> = Append(a, m) /\ a \o <<>> = a
  OBVIOUS
<1>3. QED
  BY <1>1, <1>2

-----------------------------------------------------------------------------
\* What is on its way, by its types.
LEMMA ComingType ==
  ASSUME TypeInv
  PROVE /\ Pending \in Seq(DownMessages(made))
        /\ \A i \in DOMAIN Pending : Pending[i] \in Edits(made) /\ ~Connected(Pending[i])
        /\ \A p \in Pages : /\ Incoming(p) \in Seq(DownMessages(made)) /\ Commands(p) \in Seq(UpMessages)
                            /\ Coming(p) \in Seq(DownMessages(made))
<1>1. \A c \in Telling : job[c].message \in Edits(made) /\ job[c].message \in DownMessages(made)
  BY TypeFacts, JobFields DEF TypeInv, Telling, DownMessages
<1>2. Telling # {} => (CHOOSE c \in Telling : TRUE) \in Telling
  OBVIOUS
<1>3. Telling # {} => \E m \in Edits(made) : m \in DownMessages(made) /\ Pending = <<m>>
  BY <1>1, <1>2 DEF Pending
<1>4. Telling = {} => Pending = <<>>
  BY DEF Pending
<1>5. Pending \in Seq(DownMessages(made))
  <2>1. \A m \in DownMessages(made) : <<m>> \in Seq(DownMessages(made))
    OBVIOUS
  <2>2. <<>> \in Seq(DownMessages(made))
    OBVIOUS
  <2>3. QED
    BY <1>3, <1>4, <2>1, <2>2
<1>6. \A i \in DOMAIN Pending : Pending[i] \in Edits(made)
  <2>1. DOMAIN <<>> = {} /\ \A m : DOMAIN <<m>> = {1} /\ <<m>>[1] = m
    OBVIOUS
  <2>2. QED
    BY <1>3, <1>4, <2>1
<1>7. \A i \in DOMAIN Pending : ~Connected(Pending[i])
  BY <1>6, TypeFacts, EditFields
<1>8. \A p \in Pages : Incoming(p) \in Seq(DownMessages(made)) /\ Commands(p) \in Seq(UpMessages)
  BY EmptySeq DEF TypeInv, Incoming, Commands
<1>9. \A p \in Pages : Coming(p) \in Seq(DownMessages(made))
  BY <1>5, <1>8, Joining DEF Coming, IsJoined
<1>10. QED
  BY <1>5, <1>6, <1>7, <1>8, <1>9

\* One connection at a time is telling; its message is what is pending.
LEMMA PendingIs ==
  ASSUME NEW c \in Telling, \A d \in Telling : c = d PROVE Pending = <<job[c].message>>
  BY DEF Pending

\* What is pending stays the same while nobody's telling changes.
LEMMA PendingSame ==
  ASSUME \A c \in Conns : (job'[c].at = "tell" <=> job[c].at = "tell") /\ (job[c].at = "tell" => job'[c] = job[c])
  PROVE Telling' = Telling /\ Pending' = Pending /\ \A c \in Telling : job'[c] = job[c]
<1>1. Telling' = Telling /\ \A c \in Telling : job'[c] = job[c]
  BY DEF Telling
<1>2. Telling # {} => (CHOOSE c \in Telling : TRUE) \in Telling
  OBVIOUS
<1>3. QED
  BY <1>1, <1>2 DEF Pending

\* Updates on their way still fit when the server goes on.
LEMMA UpdatesEvolve ==
  ASSUME NEW H, NEW n, NEW L, NEW H2, NEW n2, NEW L2, Evolves(H, n, L, H2, n2, L2),
         NEW v, NEW v2, v # Blank => v2 # Blank, NEW w, UpdatesOk(H, n, L, v, w)
  PROVE UpdatesOk(H2, n2, L2, v2, w)
<1>1. SUFFICES ASSUME NEW i \in DOMAIN w, IsUpdate(w[i])
               PROVE /\ v2 # Blank /\ Leaves(w[i].layout) \subseteq 1 .. n2
                     /\ Sound(H2, n2, w[i].layout) \/ \E k \in 1 .. n2 : Wrong(L2, w[i].layout, k)
  BY DEF UpdatesOk
<1> DEFINE u == w[i].layout
<1>2. v # Blank /\ Leaves(u) \subseteq 1 .. n /\ (Sound(H, n, u) \/ \E k \in 1 .. n : Wrong(L, u, k))
  BY <1>1 DEF UpdatesOk
<1> HIDE DEF u
<1>3. 1 .. n \subseteq 1 .. n2
  BY DEF Evolves
<1>4. Sound(H, n, u) => Sound(H2, n2, u)
  BY SoundEvolves
<1>5. \A k \in 1 .. n : Wrong(L, u, k) => Wrong(L2, u, k) /\ k \in 1 .. n2
  BY WrongEvolves
<1>6. v2 # Blank /\ Leaves(u) \subseteq 1 .. n2 /\ (Sound(H2, n2, u) \/ \E k \in 1 .. n2 : Wrong(L2, u, k))
  BY <1>2, <1>3, <1>4, <1>5
<1>7. QED
  BY <1>6 DEF u

\* They fit when some have been read.
LEMMA UpdatesSlice ==
  ASSUME NEW H, NEW n, NEW L, NEW v, NEW w, NEW w2, NEW a, Slice(w2, w, a), UpdatesOk(H, n, L, v, w)
  PROVE UpdatesOk(H, n, L, v, w2)
<1>1. \A i \in DOMAIN w2 : i + a \in DOMAIN w /\ w2[i] = w[i + a]
  BY DEF Slice, IsSeq
<1>2. QED
  BY <1>1 DEF UpdatesOk

\* They fit with one more that does.
LEMMA UpdatesAppend ==
  ASSUME NEW H, NEW n, NEW L, NEW v, NEW w, NEW w2, NEW m, Inserted(w2, w, Len(w), m), UpdatesOk(H, n, L, v, w),
         IsUpdate(m) => /\ v # Blank /\ Leaves(m.layout) \subseteq 1 .. n
                        /\ Sound(H, n, m.layout) \/ \E k \in 1 .. n : Wrong(L, m.layout, k)
  PROVE UpdatesOk(H, n, L, v, w2)
<1>1. \A i \in DOMAIN w2 : w2[i] = m \/ (i \in DOMAIN w /\ w2[i] = w[i])
  <2>1. /\ Len(w) \in Nat /\ DOMAIN w2 = 1 .. Len(w) + 1 /\ w2[Len(w) + 1] = m /\ DOMAIN w = 1 .. Len(w)
        /\ \A i \in 1 .. Len(w) : w2[i] = w[i]
    BY DEF Inserted, IsSeq
  <2>2. \A i \in DOMAIN w2 : i = Len(w) + 1 \/ i \in 1 .. Len(w)
    BY <2>1
  <2>3. QED
    BY <2>1, <2>2
<1>2. QED
  BY <1>1 DEF UpdatesOk

\* Nothing that grows has to.
LEMMA Unmoved ==
  ASSUME NEW H, NEW n \in Nat, NEW L PROVE Evolves(H, n, L, H, n, L)
  BY DEF Evolves

\* Only the connections of the pages count.
LEMMA NoUpdates ==
  ASSUME TypeInv, ControlInv, NEW c \in Conns, pageOf[c] = None PROVE up[c] = <<>> /\ \A H, n, L, v : UpdatesOk(H, n, L, v, up[c])
  BY ControlTypes DEF ControlInv, ConnControl, UpdatesOk

-----------------------------------------------------------------------------
\* A page that has been sent a connected message is one of those that get the edits.
LEMMA TrackedInformed ==
  ASSUME TypeInv, ControlInv, NEW p \in Pages, Tracked(p) PROVE Informed(p)
<1>1. CASE view[p] # Blank
  BY <1>1 DEF Informed
<1>2. CASE view[p] = Blank
  <2>1. PICK i \in DOMAIN Coming(p) : GreetAt(Coming(p), i)
    BY <1>2 DEF Tracked
  <2> DEFINE a == Incoming(p)
             b == Pending
  <2>2. IsJoined(DownMessages(made), Coming(p), a, b)
    BY ComingType, Joining DEF Coming
  <2>3. Len(Coming(p)) = Len(a) + Len(b) /\ DOMAIN Coming(p) = 1 .. Len(a) + Len(b) /\ Len(a) \in Nat /\ Len(b) \in Nat
        /\ DOMAIN a = 1 .. Len(a) /\ DOMAIN b = 1 .. Len(b)
    BY <2>2, ComingType, SeqIs DEF IsJoined, IsSeq
  <2>4. IsBoot(p) /\ Connected(Coming(p)[i])
    BY <1>2, <2>1 DEF Tracked, GreetAt
  <2>5. CASE i <= Len(a)
    <3>1. i \in DOMAIN a /\ Connected(a[i])
      BY <2>2, <2>3, <2>4, <2>5 DEF IsJoined
    <3>2. i \in DOMAIN down[conn[p]] /\ Connected(down[conn[p]][i]) /\ conn[p] \in Conns
      BY <2>4, <3>1, ControlTypes DEF Incoming, IsBoot
    <3>3. hs[conn[p]] \in {"serving", "ended"}
      BY <3>2 DEF ControlInv, ConnControl
    <3>4. QED
      BY <2>4, <3>3 DEF Informed, IsBoot
  <2>6. CASE i > Len(a)
    <3>1. i - Len(a) \in 1 .. Len(b) /\ (i - Len(a)) + Len(a) = i
      BY <2>3, <2>6
    <3>2. Coming(p)[(i - Len(a)) + Len(a)] = b[i - Len(a)]
      BY <2>2, <3>1 DEF IsJoined
    <3>3. ~Connected(b[i - Len(a)])
      BY <2>3, <3>1, ComingType
    <3>4. QED
      BY <2>4, <3>1, <3>2, <3>3
  <2>7. QED
    BY <2>3, <2>5, <2>6
<1>3. QED
  BY <1>1, <1>2

\* A page that is tracked now was tracked before.
LEMMA TrackedKept ==
  ASSUME NEW p \in Pages, view'[p] = view[p], stale[p] => stale'[p], Coming(p)' = Coming(p), IsBoot(p)' => IsBoot(p),
         phase'[p] \in {"first", "prompted"} => phase[p] \in {"first", "prompted"},
         phase[p] = "gone" => phase'[p] = "gone",
         Tracked(p)'
  PROVE Tracked(p)
<1>1. (\E i \in DOMAIN Coming(p) : GreetAt(Coming(p), i))' => \E i \in DOMAIN Coming(p) : GreetAt(Coming(p), i)
  <2>1. (\E i \in DOMAIN Coming(p) : GreetAt(Coming(p), i))' => \E i \in DOMAIN Coming(p)' : GreetAt(Coming(p)', i)
    BY DEF GreetAt
  <2>2. QED
    BY <2>1
<1>2. QED
  BY <1>1 DEF Tracked

\* A page whose messages are as before.
LEMMA PageKept ==
  ASSUME TypeInv, TypeInv', NEW H, NEW p \in Pages, PageStory(H, p),
         NEW H2, Evolves(H, made, Leaves(tree), H2, made', Leaves(tree')),
         view'[p] = view[p], stale[p] => stale'[p], Coming(p)' = Coming(p), IsBoot(p)' => IsBoot(p),
         Tracked(p)' => /\ H2 = H /\ Leaves(tree') = Leaves(tree) /\ Tracked(p)
                        /\ ~unsynced'[p] => /\ ~unsynced[p]
                                            /\ \A G : Exact(H, G, tree, view[p], Coming(p), Commands(p)) =>
                                                        Exact(H, G, tree', view[p], Coming(p), Commands(p)')
  PROVE PageStory(H2, p)'
<1> DEFINE n == made
           n2 == made'
           L == Leaves(tree)
           L2 == Leaves(tree')
           st == stale[p]
           st2 == stale'[p]
           b == IsBoot(p)
           b2 == IsBoot(p)'
           v == view[p]
           q == Coming(p)
<1>1. st \in BOOLEAN /\ st2 \in BOOLEAN /\ b \in BOOLEAN /\ b2 \in BOOLEAN
  BY DEF TypeInv, IsBoot
<1>2. PageOk(H, n, L, st, v, b, q)
  BY DEF PageStory
<1>3. PageOk(H2, n2, L2, st2, v, b2, q)
  <2> HIDE DEF n, n2, L, L2, st, st2, b, b2, v, q
  <2>1. (st => st2) /\ (b2 => b)
    BY DEF st, st2, b, b2
  <2>2. Evolves(H, n, L, H2, n2, L2)
    BY DEF n, n2, L, L2
  <2>3. QED
    BY <1>1, <1>2, <2>1, <2>2, PageEvolves
<1>4. PageOk(H2, made, Leaves(tree), stale[p], view[p], IsBoot(p), Coming(p))'
  BY <1>3
<1>5. ASSUME Tracked(p)' PROVE TrackOk(H2, tree, view[p], Coming(p), Commands(p), unsynced[p])'
  <2>1. TrackOk(H, tree, view[p], Coming(p), Commands(p), unsynced[p]) /\ H2 = H /\ Leaves(tree') = Leaves(tree)
    BY <1>5 DEF PageStory
  <2>2. TrackOk(H, tree', view[p], Coming(p), Commands(p)', unsynced'[p])
    BY <1>5, <2>1 DEF TrackOk
  <2>3. QED
    BY <2>1, <2>2
<1>6. QED
  BY <1>4, <1>5 DEF PageStory

\* A step by which the connections that are telling something stay the same.
TellKept == \A c \in Conns : (job'[c].at = "tell" <=> job[c].at = "tell") /\ (job[c].at = "tell" => job'[c] = job[c])

\* What is pending stays the same.
LEMMA TellingKept ==
  ASSUME TellKept PROVE Telling' = Telling /\ Pending' = Pending /\ \A c \in Telling : job'[c] = job[c]
  BY PendingSame DEF TellKept

\* The story of the next state, from its parts.
LEMMA StoryParts ==
  ASSUME TypeInv, NEW H, Story(H), NEW H2, Grown(H2, made'), Sound(H2, made', tree'), TellKept,
         \A c \in Telling : Created(job[c].message) =>
           job[c].message.session \in Leaves(tree') \/ \A k \in Leaves(tree') : k > job[c].message.session,
         \A c \in Conns : UpdatesOk(H2, made', Leaves(tree'), view'[pageOf'[c]], up'[c]),
         \A p \in Pages : PageStory(H2, p)'
  PROVE Story(H2)'
<1>1. Telling' = Telling /\ \A c \in Telling : job'[c] = job[c]
  BY TellingKept
<1>2. (\A c, d \in Telling : c = d)'
  BY <1>1 DEF Story
<1>3. (\A c \in Telling : Created(job[c].message) =>
         job[c].message.session \in Leaves(tree) \/ \A k \in Leaves(tree) : k > job[c].message.session)'
  BY <1>1
<1>4. QED
  BY <1>2, <1>3 DEF Story

\* A page is still to get the same.
LEMMA SameComing ==
  ASSUME TellKept, NEW p \in Pages, conn'[p] = conn[p], conn[p] # None => down'[conn[p]] = down[conn[p]]
  PROVE Coming(p)' = Coming(p) /\ Incoming(p)' = Incoming(p)
<1>1. Pending' = Pending
  BY TellingKept
<1>2. Incoming(p)' = Incoming(p)
  BY DEF Incoming
<1>3. QED
  BY <1>1, <1>2 DEF Coming

\* The server does something that no page is told.
QuietStep(H, H2) ==
  /\ Evolves(H, made, Leaves(tree), H2, made', Leaves(tree')) /\ Grown(H2, made') /\ Sound(H2, made', tree') /\ TellKept
  /\ \A c \in Telling : Created(job[c].message) =>
       job[c].message.session \in Leaves(tree') \/ \A k \in Leaves(tree') : k > job[c].message.session
  /\ UNCHANGED <<channels, pageOf, conn, boot, view>>
  /\ \A p \in Pages : /\ stale[p] => stale'[p]
                      /\ unsynced[p] => unsynced'[p]
                      /\ phase'[p] \in {"first", "prompted"} => phase[p] \in {"first", "prompted"}
                      /\ phase[p] = "gone" => phase'[p] = "gone"
                      /\ Tracked(p)' => H2 = H /\ tree' = tree

\* A step no page is told of keeps the story.
LEMMA QuietStory ==
  ASSUME TypeInv, TypeInv', ControlInv, NEW H, Story(H), NEW H2, QuietStep(H, H2)
  PROVE Story(H2)'
<1> USE DEF QuietStep
<1>1. \A p \in Pages : PageStory(H2, p)'
  <2>1. SUFFICES ASSUME NEW p \in Pages PROVE PageStory(H2, p)'
    OBVIOUS
  <2>2. Coming(p)' = Coming(p)
    BY SameComing DEF channels
  <2>3. IsBoot(p)' <=> IsBoot(p)
    BY DEF IsBoot
  <2>4. Commands(p)' = Commands(p)
    BY DEF Commands, channels
  <2>5. ASSUME Tracked(p)' PROVE Tracked(p)
    BY <2>2, <2>3, <2>5, TrackedKept
  <2>6. view'[p] = view[p] /\ PageStory(H, p)
    BY DEF Story
  <2>7. Tracked(p)' => /\ H2 = H /\ Leaves(tree') = Leaves(tree) /\ Tracked(p)
                       /\ ~unsynced'[p] => /\ ~unsynced[p]
                                           /\ \A G : Exact(H, G, tree, view[p], Coming(p), Commands(p)) =>
                                                       Exact(H, G, tree', view[p], Coming(p), Commands(p)')
    BY <2>4, <2>5
  <2>8. QED
    BY <2>2, <2>3, <2>6, <2>7, PageKept
<1>2. \A c \in Conns : UpdatesOk(H2, made', Leaves(tree'), view'[pageOf'[c]], up'[c])
  <2>1. SUFFICES ASSUME NEW c \in Conns PROVE UpdatesOk(H2, made', Leaves(tree'), view[pageOf[c]], up[c])
    BY DEF channels
  <2>2. UpdatesOk(H, made, Leaves(tree), view[pageOf[c]], up[c])
    BY DEF Story
  <2> DEFINE n == made
             n2 == made'
             L == Leaves(tree)
             L2 == Leaves(tree')
             v == view[pageOf[c]]
             w == up[c]
  <2>3. Evolves(H, n, L, H2, n2, L2) /\ UpdatesOk(H, n, L, v, w)
    BY <2>2
  <2> HIDE DEF n, n2, L, L2, v, w
  <2>4. UpdatesOk(H2, n2, L2, v, w)
    BY <2>3, UpdatesEvolve
  <2>5. QED
    BY <2>4 DEF n2, L2, v, w
<1>3. QED
  BY <1>1, <1>2, StoryParts

\* The handshake keeps it: it only moves handlers.
LEMMA HandshakeStory ==
  ASSUME TypeInv, TypeInv', ControlInv, NEW H, Story(H), NEW c \in Conns,
         \/ Resume(c) \/ Register(c) \/ ChooseTakeover(c) \/ ChooseNew(c) \/ NoChoice(c)
         \/ ReplaceFails(c) \/ CommandFails(c)
  PROVE Story(H)'
<1> USE ControlTypes
<1>0. ConnControl(c)
  BY DEF ControlInv
<1>1. /\ tree' = tree /\ made' = made /\ stale' = stale /\ unsynced' = unsynced
      /\ UNCHANGED <<channels, pageOf, conn, boot, view>>
  BY DEF Resume, Register, ChooseTakeover, ChooseNew, NoChoice, ReplaceFails, CommandFails, server, pages, history
<1>2. TellKept
  <2>1. CASE Resume(c) \/ Register(c) \/ ChooseTakeover(c) \/ NoChoice(c)
    BY <2>1 DEF Resume, Register, ChooseTakeover, NoChoice, TellKept
  <2>2. CASE ChooseNew(c)
    BY <1>0, <2>2 DEF ChooseNew, Conflict, ConnControl, TellKept
  <2>3. CASE ReplaceFails(c)
    BY <1>0, <2>3 DEF ReplaceFails, ConnControl, TellKept, NoJob
  <2>4. CASE CommandFails(c)
    BY <2>4 DEF CommandFails, TellKept, NoJob
  <2>5. QED
    BY <2>1, <2>2, <2>3, <2>4
<1>3. phase' = phase \/ (pageOf[c] \in Pages /\ phase[pageOf[c]] = "first" /\ phase' = [phase EXCEPT ![pageOf[c]] = "prompted"])
  <2>1. CASE ChooseTakeover(c) \/ ChooseNew(c)
    BY <1>0, <2>1 DEF ChooseTakeover, ChooseNew, Conflict, ConnControl, Listens, Prompt
  <2>2. CASE Resume(c) \/ Register(c) \/ NoChoice(c) \/ ReplaceFails(c) \/ CommandFails(c)
    BY <2>2 DEF Resume, Register, NoChoice, ReplaceFails, CommandFails, pages
  <2>3. QED
    BY <2>1, <2>2
<1>4. \A p \in Pages : /\ stale[p] => stale'[p]
                       /\ unsynced[p] => unsynced'[p]
                       /\ phase'[p] \in {"first", "prompted"} => phase[p] \in {"first", "prompted"}
                       /\ phase[p] = "gone" => phase'[p] = "gone"
                       /\ Tracked(p)' => H = H /\ tree' = tree
  BY <1>1, <1>3
<1>5. /\ Evolves(H, made, Leaves(tree), H, made', Leaves(tree')) /\ Grown(H, made') /\ Sound(H, made', tree')
      /\ \A d \in Telling : Created(job[d].message) =>
           job[d].message.session \in Leaves(tree') \/ \A k \in Leaves(tree') : k > job[d].message.session
  BY <1>1, TypeFacts, Unmoved DEF Story
<1>6. QED
  BY <1>1, <1>2, <1>4, <1>5, QuietStory DEF QuietStep

\* A new tree with other sessions takes the place of the old one; whoever knew that is stale.
LEMMA ReplaceStory ==
  ASSUME TypeInv, TypeInv', ControlInv, ControlInv', NEW H, Story(H), NEW c \in Conns, Replace(c)
  PROVE \E H2 : Story(H2)'
<1> USE ControlTypes
<1> DEFINE L == Leaves(tree)
           L2 == Leaves(tree')
           J == Joints(tree')
<1>1. /\ Proper(job[c].layout, made) /\ tree' = Copied(job[c].layout, made) /\ made' = made + Size(job[c].layout)
      /\ made' <= MaxSessions /\ made < made'
  BY ReplaceType
<1>2. Proper(tree', made') /\ L2 \cap (1 .. made) = {} /\ made \in Nat /\ made' \in Nat
  BY <1>1, CopiedTree, TypeFacts
<1>3. tree' \in Layouts /\ L2 \subseteq 1 .. made'
  BY <1>2 DEF Proper
<1>4. J \in SUBSET AllJoints /\ \A j \in J : j.one \subseteq L2 /\ j.two \subseteq L2
  BY <1>3, JointsType
<1>5. Grown(H, made) /\ Sound(H, made, tree)
  BY DEF Story
<1>6. Plain(J) = Rest(Plain(J), L2)
  <2>1. Rest(J, L2) = J
    BY <1>3, TreeRestAll
  <2>2. Plain(Rest(J, L2)) = Rest(Plain(J), L2)
    BY PlainRest
  <2>3. QED
    BY <2>1, <2>2
<1>a. Joints(tree') = J /\ Leaves(tree') = L2 /\ Leaves(tree) = L
  OBVIOUS
<1> HIDE DEF J, L, L2
<1>p. PICK H2 : H2 = H \cup Plain(J)
  OBVIOUS
<1>7. /\ Grown(H2, made') /\ \A K \in SUBSET (1 .. made) : Rest(H2, K) = Rest(H, K)
      /\ Rest(H2, L2) = Rest(Plain(J), L2)
  <2> DEFINE n == made
             k == made'
  <2>1. n \in Nat /\ k \in Nat /\ n <= k /\ Grown(H, n) /\ L2 \subseteq 1 .. k /\ L2 \cap (1 .. n) = {}
    BY <1>1, <1>2, <1>3, <1>5
  <2> HIDE DEF n, k
  <2>2. Beside(H, J, L2, n, k)
    BY <1>4, <2>1, BesideEvolves
  <2>3. QED
    BY <1>p, <2>2 DEF n, k, Beside
<1>8. Evolves(H, made, L, H2, made', L2)
  BY <1>1, <1>2, <1>7 DEF Evolves
<1>9. Sound(H2, made', tree')
  BY <1>2, <1>6, <1>7, <1>a DEF Sound
<1>10. TellKept
  <2>1. job' = [job EXCEPT ![c] = NoJob] /\ job[c].at = "replace"
    BY DEF Replace, ControlInv, ConnControl
  <2>2. QED
    BY <2>1 DEF TellKept, NoJob
<1>11. \A d \in Telling : Created(job[d].message) =>
         job[d].message.session \in L2 \/ \A k \in L2 : k > job[d].message.session
  <2>1. SUFFICES ASSUME NEW d \in Telling, Created(job[d].message), NEW k \in L2 PROVE k > job[d].message.session
    OBVIOUS
  <2>2. job[d].message \in Edits(made)
    BY <2>1, TypeFacts, JobFields DEF Telling
  <2>3. job[d].message.session \in 1 .. made
    BY <2>1, <2>2, TypeFacts, EditFields
  <2>4. QED
    BY <1>2, <1>3, <1>a, <2>3
<1>12. \A p \in Pages : /\ stale[p] => stale'[p]
                        /\ unsynced[p] => unsynced'[p]
                        /\ phase'[p] \in {"first", "prompted"} => phase[p] \in {"first", "prompted"}
                        /\ phase[p] = "gone" => phase'[p] = "gone"
                        /\ Tracked(p)' => H2 = H /\ tree' = tree
  <2>1. SUFFICES ASSUME NEW p \in Pages
                 PROVE /\ stale[p] => stale'[p]
                       /\ unsynced[p] => unsynced'[p]
                       /\ phase'[p] \in {"first", "prompted"} => phase[p] \in {"first", "prompted"}
                       /\ phase[p] = "gone" => phase'[p] = "gone"
                       /\ ~Tracked(p)'
    OBVIOUS
  <2>2. /\ stale'[p] = (stale[p] \/ Informed(p)) /\ unsynced' = unsynced /\ phase' = phase
        /\ down' = down /\ conn' = conn /\ boot' = boot /\ view' = view
    BY DEF Replace, Lost, channels, pages
  <2>3. Coming(p)' = Coming(p)
    BY <1>10, <2>2, SameComing
  <2>4. IsBoot(p)' <=> IsBoot(p)
    BY <2>2 DEF IsBoot
  <2>5. Tracked(p)' => Tracked(p)
    BY <2>2, <2>3, <2>4, TrackedKept
  <2>6. Tracked(p) => Informed(p)
    BY TrackedInformed
  <2>7. Tracked(p)' => ~stale'[p]
    BY DEF Tracked
  <2>8. QED
    BY <2>2, <2>5, <2>6, <2>7
<1>13. UNCHANGED <<channels, pageOf, conn, boot, view>>
  BY DEF Replace, pages
<1>b. Evolves(H, made, Leaves(tree), H2, made', Leaves(tree')) /\ Grown(H2, made')
  BY <1>7, <1>8 DEF L, L2
<1>c. \A d \in Telling : Created(job[d].message) =>
        job[d].message.session \in Leaves(tree') \/ \A k \in Leaves(tree') : k > job[d].message.session
  BY <1>11 DEF L2
<1>14. Story(H2)'
  <2>1. QuietStep(H, H2)
    BY <1>9, <1>10, <1>12, <1>13, <1>b, <1>c DEF QuietStep
  <2>2. QED
    BY <2>1, QuietStory
<1>15. QED
  BY <1>14

\* A connection has one page.
LEMMA OwnConnection ==
  ASSUME TypeInv, ControlInv, NEW p \in Pages, conn[p] # None
  PROVE conn[p] \in Conns /\ pageOf[conn[p]] = p /\ Listens(conn[p]) /\ \A r \in Pages : r # p => conn[r] # conn[p]
<1>1. \A r \in Pages : conn[r] # None => conn[r] \in Conns /\ pageOf[conn[r]] = r
  BY ControlTypes DEF ControlInv, PageControl
<1>2. p # None
  BY ControlTypes
<1>3. QED
  BY <1>1, <1>2 DEF Listens

\* A page that a step does not concern.
KeptPage(H, H2, p) ==
  /\ view'[p] = view[p] /\ conn'[p] = conn[p] /\ boot'[p] = boot[p]
  /\ conn[p] # None => down'[conn[p]] = down[conn[p]] /\ up'[conn[p]] = up[conn[p]]
  /\ stale[p] => stale'[p]
  /\ unsynced[p] => unsynced'[p]
  /\ phase'[p] \in {"first", "prompted"} => phase[p] \in {"first", "prompted"}
  /\ phase[p] = "gone" => phase'[p] = "gone"
  /\ Tracked(p)' => H2 = H /\ tree' = tree

\* The story of a page that a step does not concern.
LEMMA KeptPageStory ==
  ASSUME TypeInv, TypeInv', NEW H, Story(H), NEW H2, NEW p \in Pages, KeptPage(H, H2, p), TellKept,
         Evolves(H, made, Leaves(tree), H2, made', Leaves(tree'))
  PROVE PageStory(H2, p)'
<1> USE DEF KeptPage
<1>2. Coming(p)' = Coming(p)
  BY SameComing
<1>3. IsBoot(p)' <=> IsBoot(p)
  BY DEF IsBoot
<1>4. Commands(p)' = Commands(p)
  BY DEF Commands
<1>5. ASSUME Tracked(p)' PROVE Tracked(p)
  BY <1>2, <1>3, <1>5, TrackedKept
<1>6. view'[p] = view[p] /\ PageStory(H, p)
  BY DEF Story
<1>7. Tracked(p)' => /\ H2 = H /\ Leaves(tree') = Leaves(tree) /\ Tracked(p)
                     /\ ~unsynced'[p] => /\ ~unsynced[p]
                                         /\ \A G : Exact(H, G, tree, view[p], Coming(p), Commands(p)) =>
                                                     Exact(H, G, tree', view[p], Coming(p), Commands(p)')
  BY <1>4, <1>5
<1>8. QED
  BY <1>2, <1>3, <1>6, <1>7, PageKept

\* A step that leaves the server's tree alone.
LEMMA StillStory ==
  ASSUME TypeInv, NEW H, Story(H), tree' = tree, made' = made, TellKept,
         \A c \in Conns : UpdatesOk(H, made, Leaves(tree), view'[pageOf'[c]], up'[c]),
         \A p \in Pages : PageStory(H, p)'
  PROVE Story(H)'
<1>1. Grown(H, made') /\ Sound(H, made', tree')
      /\ \A c \in Telling : Created(job[c].message) =>
           job[c].message.session \in Leaves(tree') \/ \A k \in Leaves(tree') : k > job[c].message.session
  BY DEF Story
<1>2. \A c \in Conns : UpdatesOk(H, made', Leaves(tree'), view'[pageOf'[c]], up'[c])
  OBVIOUS
<1>3. QED
  BY <1>1, <1>2, StoryParts

\* The same, and one page's messages, commands or tree change.
OnePage(H, p) ==
  /\ tree' = tree /\ made' = made /\ TellKept
  /\ \A r \in Pages : r # p => KeptPage(H, H, r)

\* A step that concerns one page only.
LEMMA OnePageStory ==
  ASSUME TypeInv, TypeInv', NEW H, Story(H), NEW p \in Pages, OnePage(H, p), PageStory(H, p)',
         \A c \in Conns : UpdatesOk(H, made, Leaves(tree), view'[pageOf'[c]], up'[c])
  PROVE Story(H)'
<1> USE DEF OnePage
<1>1. Evolves(H, made, Leaves(tree), H, made', Leaves(tree'))
  BY TypeFacts, Unmoved
<1>2. ASSUME NEW r \in Pages, r # p PROVE PageStory(H, r)'
  BY <1>1, <1>2, KeptPageStory
<1>3. \A r \in Pages : PageStory(H, r)'
  BY <1>2
<1>4. QED
  BY <1>3, StillStory

\* Nothing joined with a sequence.
LEMMA NothingBefore ==
  ASSUME NEW S, NEW b \in Seq(S) PROVE <<>> \o b = b
  OBVIOUS

\* A page opens its connection: it is given the tree when it is greeted.
LEMMA OpenTabStory ==
  ASSUME TypeInv, TypeInv', ControlInv, NEW H, Story(H), NEW p \in Pages, NEW c \in Conns, OpenTab(p, c)
  PROVE Story(H)'
<1> USE ControlTypes
<1>1. /\ conn[p] = None /\ phase[p] \in {"new", "off"} /\ hs[c] = "idle" /\ phase' = [phase EXCEPT ![p] = "first"]
      /\ conn' = [conn EXCEPT ![p] = c] /\ pageOf' = [pageOf EXCEPT ![c] = p]
      /\ \A r \in Pages : r # p => boot'[r] = boot[r]
      /\ tree' = tree /\ made' = made /\ job' = job /\ up' = up /\ down' = down /\ view' = view
      /\ stale' = stale /\ unsynced' = unsynced
  BY DEF OpenTab, server, channels, history
<1>2. up[c] = <<>> /\ down[c] = <<>>
  BY <1>1 DEF ControlInv, ConnControl
<1>3. TellKept
  BY <1>1 DEF TellKept
<1>4. OnePage(H, p)
  BY <1>1, <1>3 DEF OnePage, KeptPage
<1>5. \A d \in Conns : UpdatesOk(H, made, Leaves(tree), view'[pageOf'[d]], up'[d])
  <2>1. SUFFICES ASSUME NEW d \in Conns PROVE UpdatesOk(H, made, Leaves(tree), view'[pageOf'[d]], up'[d])
    OBVIOUS
  <2>2. CASE d = c
    BY <1>1, <1>2, <2>2 DEF UpdatesOk
  <2>3. CASE d # c
    BY <1>1, <2>3 DEF Story
  <2>4. QED
    BY <2>2, <2>3
<1>6. Incoming(p) = <<>> /\ Incoming(p)' = <<>> /\ Commands(p) = <<>> /\ Commands(p)' = <<>>
  BY <1>1, <1>2 DEF Incoming, Commands
<1>7. Pending' = Pending
  BY <1>3, TellingKept
<1>8. Coming(p) = Pending /\ Coming(p)' = Pending
  BY <1>6, <1>7, ComingType, NothingBefore DEF Coming
<1>9. \A i \in DOMAIN Coming(p) : ~Connected(Coming(p)[i])
  BY <1>8, ComingType
<1>10. PageOk(H, made, Leaves(tree), stale[p], view[p], IsBoot(p), Coming(p))
  BY DEF Story, PageStory
<1>11. PageOk(H, made, Leaves(tree), stale[p], view[p], IsBoot(p)', Coming(p))
  BY <1>9, <1>10 DEF PageOk
<1>12. PageOk(H, made, Leaves(tree), stale[p], view[p], IsBoot(p), Coming(p))'
  BY <1>1, <1>8, <1>11
<1>13. ASSUME Tracked(p)' PROVE TrackOk(H, tree, view[p], Coming(p), Commands(p), unsynced[p])'
  <2>1. (\E i \in DOMAIN Coming(p) : GreetAt(Coming(p), i))' => \E i \in DOMAIN Coming(p)' : GreetAt(Coming(p)', i)
    BY DEF GreetAt
  <2>2. view[p] # Blank
    BY <1>1, <1>8, <1>9, <1>13, <2>1 DEF Tracked, GreetAt
  <2>3. ~stale[p]
    BY <1>1, <1>13 DEF Tracked
  <2>4. Tracked(p)
    BY <1>1, <2>2, <2>3 DEF Tracked
  <2>5. TrackOk(H, tree, view[p], Coming(p), Commands(p), unsynced[p])
    BY <2>4 DEF Story, PageStory
  <2>6. QED
    BY <1>1, <1>6, <1>8, <2>5
<1>14. PageStory(H, p)'
  BY <1>12, <1>13 DEF PageStory
<1>15. QED
  BY <1>4, <1>5, <1>14, OnePageStory

\* A page's messages are as before; its commands, or the server's ratios, are not.
LEMMA PageCommands ==
  ASSUME TypeInv, TypeInv', NEW H, Story(H), NEW p \in Pages, Leaves(tree') = Leaves(tree), made' = made, TellKept,
         view'[p] = view[p], conn'[p] = conn[p], boot'[p] = boot[p], phase'[p] = phase[p], stale'[p] = stale[p],
         conn[p] # None => down'[conn[p]] = down[conn[p]],
         Tracked(p) /\ ~unsynced'[p] =>
           /\ ~unsynced[p]
           /\ \A G : Exact(H, G, tree, view[p], Coming(p), Commands(p)) =>
                       Exact(H, G, tree', view[p], Coming(p), Commands(p)')
  PROVE PageStory(H, p)'
<1>1. Coming(p)' = Coming(p)
  BY SameComing
<1>2. IsBoot(p)' <=> IsBoot(p)
  BY DEF IsBoot
<1>3. ASSUME Tracked(p)' PROVE Tracked(p)
  BY <1>1, <1>2, <1>3, TrackedKept
<1>4. Evolves(H, made, Leaves(tree), H, made', Leaves(tree'))
  BY TypeFacts, Unmoved
<1>5. PageStory(H, p)
  BY DEF Story
<1>6. QED
  BY <1>1, <1>2, <1>3, <1>4, <1>5, PageKept

\* A page sends a command other than a layout.
LEMMA SendStory ==
  ASSUME TypeInv, TypeInv', ControlInv, NEW H, Story(H), NEW p \in Pages, conn[p] # None, NEW m \in UpMessages, ~IsUpdate(m),
         Send(p, m), UNCHANGED <<server, handlers, down, pages, stale, unsynced>>
  PROVE Story(H)'
<1> USE ControlTypes
<1>1. /\ tree' = tree /\ made' = made /\ job' = job /\ down' = down /\ view' = view /\ pageOf' = pageOf /\ conn' = conn
      /\ boot' = boot /\ phase' = phase /\ stale' = stale /\ unsynced' = unsynced
      /\ up' = [up EXCEPT ![conn[p]] = Append(@, m)]
  BY DEF server, handlers, pages, Send
<1>2. conn[p] \in Conns /\ \A r \in Pages : r # p => conn[r] # conn[p]
  BY OwnConnection
<1>3. TellKept
  BY <1>1 DEF TellKept
<1>4. OnePage(H, p)
  BY <1>1, <1>2, <1>3 DEF OnePage, KeptPage
<1>5. up[conn[p]] \in Seq(UpMessages) /\ up'[conn[p]] = Append(up[conn[p]], m)
  BY <1>1, <1>2
<1>6. Inserted(Append(up[conn[p]], m), up[conn[p]], Len(up[conn[p]]), m)
  BY <1>5, AppendInserted
<1>7. \A c \in Conns : UpdatesOk(H, made, Leaves(tree), view'[pageOf'[c]], up'[c])
  <2>1. SUFFICES ASSUME NEW c \in Conns PROVE UpdatesOk(H, made, Leaves(tree), view[pageOf[c]], up'[c])
    BY <1>1
  <2>2. UpdatesOk(H, made, Leaves(tree), view[pageOf[c]], up[c])
    BY DEF Story
  <2>3. CASE c = conn[p]
    <3> DEFINE w == up[c]
               w2 == Append(up[c], m)
               L == Leaves(tree)
               v == view[pageOf[c]]
    <3>1. Inserted(w2, w, Len(w), m) /\ UpdatesOk(H, made, L, v, w) /\ up'[c] = w2
      BY <1>5, <1>6, <2>2, <2>3
    <3> HIDE DEF w, w2, L, v
    <3>2. UpdatesOk(H, made, L, v, w2)
      BY <3>1, UpdatesAppend
    <3>3. QED
      BY <3>1, <3>2 DEF L, v
  <2>4. CASE c # conn[p]
    BY <1>1, <2>2, <2>4
  <2>5. QED
    BY <2>3, <2>4
<1>8. Commands(p) = up[conn[p]] /\ Commands(p)' = Append(up[conn[p]], m)
  BY <1>1, <1>5 DEF Commands
<1>9. \A G : Exact(H, G, tree, view[p], Coming(p), Commands(p)) => Exact(H, G, tree', view[p], Coming(p), Commands(p)')
  BY <1>1, <1>6, <1>8, ExactSend
<1>10. PageStory(H, p)'
  BY <1>1, <1>2, <1>3, <1>9, PageCommands
<1>11. QED
  BY <1>4, <1>7, <1>10, OnePageStory

\* A page asks to split or to close: the server will decide.
LEMMA CommandsStory ==
  ASSUME TypeInv, TypeInv', ControlInv, NEW H, Story(H), NEW p \in Pages, NEW s \in Sessions,
         RequestClosePane(p, s) \/ \E d \in Directions : SplitPane(p, s, d)
  PROVE Story(H)'
<1>1. conn[p] # None
  BY DEF RequestClosePane, SplitPane, CanSend, ControlInv, PageControl
<1>2. \E m \in UpMessages : ~IsUpdate(m) /\ Send(p, m)
  <2>1. CASE RequestClosePane(p, s)
    <3>1. [type |-> "close_pane", session |-> s] \in UpMessages
      BY DEF UpMessages
    <3>2. QED
      BY <2>1, <3>1 DEF RequestClosePane, IsUpdate
  <2>2. ASSUME NEW d \in Directions, SplitPane(p, s, d) PROVE \E m \in UpMessages : ~IsUpdate(m) /\ Send(p, m)
    <3>1. [type |-> "split", session |-> s, direction |-> d] \in UpMessages
      BY DEF UpMessages
    <3>2. QED
      BY <2>2, <3>1 DEF SplitPane, IsUpdate
  <2>3. QED
    BY <2>1, <2>2
<1>3. UNCHANGED <<server, handlers, down, pages, stale, unsynced>>
  BY DEF RequestClosePane, SplitPane
<1>4. QED
  BY <1>1, <1>2, <1>3, SendStory

-----------------------------------------------------------------------------
\* The commands of a page whose connection's commands were cut at the front.
LEMMA ReadUp ==
  ASSUME NEW q \in Seq(UpMessages), q # <<>>
  PROVE Slice(Tail(q), q, 1) /\ Len(Tail(q)) + 1 = Len(q) /\ q[1] = Head(q) /\ Tail(q) \in Seq(UpMessages) /\ Head(q) \in UpMessages
<1>1. Tail(q) \in Seq(UpMessages) /\ Tail(q) \o <<>> = Tail(q) /\ q \o <<>> = q /\ <<>> \in Seq(UpMessages) /\ Head(q) \in UpMessages
  OBVIOUS
<1>2. Slice(Tail(q) \o <<>>, q \o <<>>, 1) /\ Len(Tail(q) \o <<>>) + 1 = Len(q \o <<>>) /\ (q \o <<>>)[1] = Head(q)
  BY <1>1, TailSlice
<1>3. QED
  BY <1>1, <1>2

\* Commands are read in the order they were sent.
LEMMA ReadCommandStory ==
  ASSUME TypeInv, TypeInv', ControlInv, NEW H, Story(H), NEW c \in Conns, ReadCommand(c)
  PROVE Story(H)'
<1> USE ControlTypes
<1>1. /\ tree' = tree /\ made' = made /\ down' = down /\ view' = view /\ pageOf' = pageOf /\ conn' = conn
      /\ boot' = boot /\ phase' = phase /\ stale' = stale /\ unsynced' = unsynced
      /\ up[c] # <<>> /\ up[c] \in Seq(UpMessages) /\ up' = [up EXCEPT ![c] = Tail(@)] /\ ~IsUpdate(Head(up[c]))
      /\ job[c] = NoJob
  BY DEF ReadCommand, server, pages, history, IsUpdate
<1>2. TellKept
  <2>1. Head(up[c]) \in UpMessages
    BY <1>1, ReadUp
  <2>2. Head(up[c]).type \in {"split", "close_pane"}
    BY <1>1, <2>1, UpFieldsOf DEF IsUpdate
  <2>3. (\A d \in Conns : d # c => job'[d] = job[d]) /\ job'[c].at # "tell"
    BY <2>1, <2>2 DEF ReadCommand, NoJob
  <2>4. QED
    BY <1>1, <2>3 DEF TellKept, NoJob
<1>3. Slice(Tail(up[c]), up[c], 1) /\ Len(Tail(up[c])) + 1 = Len(up[c]) /\ up[c][1] = Head(up[c]) /\ up'[c] = Tail(up[c])
  BY <1>1, ReadUp
<1>4. \A d \in Conns : UpdatesOk(H, made, Leaves(tree), view'[pageOf'[d]], up'[d])
  <2>1. SUFFICES ASSUME NEW d \in Conns PROVE UpdatesOk(H, made, Leaves(tree), view[pageOf[d]], up'[d])
    BY <1>1
  <2>2. UpdatesOk(H, made, Leaves(tree), view[pageOf[d]], up[d])
    BY DEF Story
  <2>3. CASE d = c
    <3> DEFINE w == up[c]
               w2 == Tail(up[c])
               L == Leaves(tree)
               v == view[pageOf[c]]
    <3>1. Slice(w2, w, 1) /\ UpdatesOk(H, made, L, v, w) /\ up'[c] = w2
      BY <1>3, <2>2, <2>3
    <3> HIDE DEF w, w2, L, v
    <3>2. UpdatesOk(H, made, L, v, w2)
      BY <3>1, UpdatesSlice
    <3>3. QED
      BY <2>3, <3>1, <3>2 DEF L, v
  <2>4. CASE d # c
    BY <1>1, <2>2, <2>4
  <2>5. QED
    BY <2>3, <2>4
<1>5. \A p \in Pages : PageStory(H, p)'
  <2>1. SUFFICES ASSUME NEW p \in Pages PROVE PageStory(H, p)'
    OBVIOUS
  <2>2. \A G : Exact(H, G, tree, view[p], Coming(p), Commands(p)) => Exact(H, G, tree', view[p], Coming(p), Commands(p)')
    <3>1. CASE conn[p] = c
      <4>1. Commands(p) = up[c] /\ Commands(p)' = Tail(up[c])
        BY <1>1, <1>3, <3>1 DEF Commands
      <4> DEFINE w == up[c]
                 w2 == Tail(up[c])
                 v == view[p]
                 q == Coming(p)
      <4>2. Slice(w2, w, 1) /\ Len(w2) + 1 = Len(w) /\ ~IsUpdate(w[1])
        BY <1>1, <1>3
      <4> HIDE DEF w, w2, v, q
      <4>3. \A G : Exact(H, G, tree, v, q, w) => Exact(H, G, tree, v, q, w2)
        BY <4>2, ExactRead
      <4>4. QED
        BY <1>1, <4>1, <4>3 DEF w, w2, v, q
    <3>2. CASE conn[p] # c
      <4>1. Commands(p)' = Commands(p)
        BY <1>1, <3>2 DEF Commands
      <4>2. QED
        BY <1>1, <4>1
    <3>3. QED
      BY <3>1, <3>2
  <2>3. QED
    BY <1>1, <1>2, <2>2, PageCommands
<1>6. QED
  BY <1>1, <1>2, <1>4, <1>5, StillStory

\* Without a layout among them, the commands say nothing about ratios.
LEMMA ExactUnsent ==
  ASSUME NEW H, NEW G, NEW t, NEW v, NEW q, NEW w, Exact(H, G, t, v, q, w), \A i \in DOMAIN w : ~IsUpdate(w[i])
  PROVE Exact(H, G, t, v, q, <<>>)
BY DEF Exact

\* What a connection's handler has not read by its end is lost.
LEMMA EndStory ==
  ASSUME TypeInv, TypeInv', ControlInv, NEW H, Story(H), NEW c \in Conns, EndReadLoop(c)
  PROVE Story(H)'
<1> USE ControlTypes
<1>1. /\ tree' = tree /\ made' = made /\ down' = down /\ view' = view /\ pageOf' = pageOf /\ conn' = conn
      /\ boot' = boot /\ phase' = phase /\ stale' = stale /\ job' = job
      /\ unsynced' = [unsynced EXCEPT ![pageOf[c]] = @ \/ HasUpdate(c)]
      /\ up' = [up EXCEPT ![c] = <<>>]
  BY DEF EndReadLoop, server, pages
<1>2. TellKept
  BY <1>1 DEF TellKept
<1>3. \A d \in Conns : UpdatesOk(H, made, Leaves(tree), view'[pageOf'[d]], up'[d])
  <2>1. SUFFICES ASSUME NEW d \in Conns PROVE UpdatesOk(H, made, Leaves(tree), view[pageOf[d]], up'[d])
    BY <1>1
  <2>2. CASE d = c
    BY <1>1, <2>2 DEF UpdatesOk
  <2>3. CASE d # c
    BY <1>1, <2>3 DEF Story
  <2>4. QED
    BY <2>2, <2>3
<1>4. \A p \in Pages : PageStory(H, p)'
  <2>1. SUFFICES ASSUME NEW p \in Pages PROVE PageStory(H, p)'
    OBVIOUS
  <2>2. ASSUME ~unsynced'[p]
        PROVE ~unsynced[p] /\ \A G : Exact(H, G, tree, view[p], Coming(p), Commands(p)) =>
                                       Exact(H, G, tree', view[p], Coming(p), Commands(p)')
    <3>1. ~unsynced[p]
      BY <1>1, <2>2
    <3>2. CASE conn[p] = c
      <4>1. pageOf[c] = p
        BY <3>2, OwnConnection
      <4>2. ~HasUpdate(c)
        BY <1>1, <2>2, <4>1
      <4>3. Commands(p) = up[c] /\ Commands(p)' = <<>> /\ \A i \in DOMAIN up[c] : ~IsUpdate(up[c][i])
        BY <1>1, <3>2, <4>2 DEF Commands, HasUpdate, IsUpdate
      <4>4. QED
        BY <1>1, <3>1, <4>3, ExactUnsent
    <3>3. CASE conn[p] # c
      <4>1. Commands(p)' = Commands(p)
        BY <1>1, <3>3 DEF Commands
      <4>2. QED
        BY <1>1, <3>1, <4>1
    <3>4. QED
      BY <3>2, <3>3
  <2>3. QED
    BY <1>1, <1>2, <2>2, PageCommands
<1>5. QED
  BY <1>1, <1>2, <1>3, <1>4, StillStory

\* A handler changes the server's tree while no other has a change to tell.
EditStep(H, H2, c, m) ==
  /\ Telling = {} /\ Tell(c, m) /\ m \in Edits(made')
  /\ Evolves(H, made, Leaves(tree), H2, made', Leaves(tree'))
  /\ Grown(H2, made') /\ Sound(H2, made', tree')
  /\ Fits(H2, made', Leaves(tree'), m)
  /\ Created(m) => m.session = made + 1 /\ m.session \in Leaves(tree')
  /\ Closed(m) => m.session \in Leaves(tree)
  /\ Shows(Leaves(tree), m) = Leaves(tree') /\ LastOne(Leaves(tree), m)
  /\ UNCHANGED <<channels, pages, stale, unsynced>>
  /\ \A p \in Pages : \A G : \A q2 :
       Inserted(q2, Coming(p), Len(Coming(p)), m) /\ Exact(H, G, tree, view[p], Coming(p), Commands(p)) =>
         \E G2 : Exact(H2, G2, tree', view[p], q2, Commands(p))

\* It has one to tell then.
LEMMA EditTelling ==
  ASSUME NEW H, NEW H2, NEW c \in Conns, NEW m, DOMAIN job = Conns, EditStep(H, H2, c, m)
  PROVE Telling' = {c} /\ Pending = <<>> /\ Pending' = <<m>> /\ job'[c].message = m
<1>1. job' = [job EXCEPT ![c] = [at |-> "tell", message |-> m]] /\ \A d \in Conns : job[d].at # "tell"
  BY DEF EditStep, Tell, Telling
<1>2. job'[c] = [at |-> "tell", message |-> m] /\ \A d \in Conns : d # c => job'[d] = job[d]
  BY <1>1
<1>3. job'[c].at = "tell" /\ job'[c].message = m
  BY <1>2
<1>4. Telling' = {c}
  BY <1>1, <1>2, <1>3 DEF Telling
<1>5. (CHOOSE d \in {c} : TRUE) = c
  OBVIOUS
<1>6. Pending' = <<m>>
  BY <1>3, <1>4, <1>5 DEF Pending
<1>7. QED
  BY <1>3, <1>4, <1>6 DEF EditStep, Pending

\* The messages to come have the change as the last one.
LEMMA EditComing ==
  ASSUME TypeInv, TypeInv', NEW H, NEW H2, NEW c \in Conns, NEW m, EditStep(H, H2, c, m), NEW p \in Pages
  PROVE /\ Inserted(Coming(p)', Coming(p), Len(Coming(p)), m)
        /\ Coming(p)' \in Seq(DownMessages(made')) /\ Coming(p) \in Seq(DownMessages(made))
<1>1. Pending = <<>> /\ Pending' = <<m>>
  BY EditTelling, ControlTypes
<1>2. Incoming(p)' = Incoming(p)
  BY DEF EditStep, channels, pages, Incoming
<1>3. Incoming(p) \in Seq(DownMessages(made)) /\ Coming(p) \in Seq(DownMessages(made))
  BY ComingType
<1>4. m \in DownMessages(made') /\ Incoming(p) \in Seq(DownMessages(made'))
  <2>1. made \in Nat /\ made' \in Nat /\ made <= made'
    BY TypeFacts DEF EditStep, Evolves
  <2>2. Seq(DownMessages(made)) \subseteq Seq(DownMessages(made'))
    BY <2>1, TypesGrow, SeqGrows
  <2>3. QED
    BY <1>3, <2>2 DEF EditStep, DownMessages
<1> DEFINE q == Incoming(p)
           S == DownMessages(made')
<1>5. q \in Seq(S) /\ m \in S /\ Coming(p) = q \o <<>> /\ Coming(p)' = q \o <<m>>
  BY <1>1, <1>2, <1>4 DEF Coming
<1> HIDE DEF q, S
<1>6. q \o <<m>> = Append(q, m) /\ q \o <<>> = q /\ Append(q, m) \in Seq(S)
  BY <1>5, AppendIsJoin, Appended
<1>7. Inserted(Append(q, m), q, Len(q), m)
  BY <1>5, AppendInserted
<1>8. QED
  BY <1>3, <1>5, <1>6, <1>7 DEF S

\* A change of the server's tree and the message that tells it.
LEMMA EditPageStory ==
  ASSUME TypeInv, TypeInv', ControlInv, NEW H, Story(H), NEW H2, NEW c \in Conns, NEW m, EditStep(H, H2, c, m), NEW p \in Pages
  PROVE PageStory(H2, p)'
<1>1. /\ Inserted(Coming(p)', Coming(p), Len(Coming(p)), m)
      /\ Coming(p)' \in Seq(DownMessages(made')) /\ Coming(p) \in Seq(DownMessages(made))
  BY EditComing
<1>2. /\ view' = view /\ stale' = stale /\ unsynced' = unsynced /\ phase' = phase /\ conn' = conn /\ boot' = boot /\ up' = up
  BY DEF EditStep, channels, pages
<1>3. (IsBoot(p)' <=> IsBoot(p)) /\ Commands(p)' = Commands(p)
  BY <1>2 DEF IsBoot, Commands
<1>4. made' \in Nat /\ m \in Edits(made')
  BY DEF EditStep, Evolves
<1>5. ~Connected(m) /\ (Created(m) \/ Closed(m))
  BY <1>4, EditFields
<1>6. PageOk(H, made, Leaves(tree), stale[p], view[p], IsBoot(p), Coming(p))
  BY DEF Story, PageStory
<1>7. PageOk(H2, made', Leaves(tree'), stale[p], view[p], IsBoot(p), Coming(p)')
  <2> DEFINE n == made
             n2 == made'
             L == Leaves(tree)
             L2 == Leaves(tree')
             st == stale[p]
             v == view[p]
             b == IsBoot(p)
             q == Coming(p)
             q2 == Coming(p)'
  <2>1. /\ Evolves(H, n, L, H2, n2, L2) /\ st \in BOOLEAN /\ b \in BOOLEAN /\ Inserted(q2, q, Len(q), m)
        /\ PageOk(H, n, L, st, v, b, q) /\ Fits(H2, n2, L2, m) /\ ~Connected(m)
        /\ (Created(m) => m.session = n + 1) /\ (Closed(m) => m.session \in L)
    BY <1>1, <1>5, <1>6, ControlTypes DEF EditStep, IsBoot
  <2> HIDE DEF n, n2, L, L2, st, v, b, q, q2
  <2>2. PageOk(H2, n2, L2, st, v, b, q2)
    BY <2>1, EditPage
  <2>3. QED
    BY <2>2 DEF n2, L2, st, v, b, q2
<1>8. PageOk(H2, made, Leaves(tree), stale[p], view[p], IsBoot(p), Coming(p))'
  <2> DEFINE q2 == Coming(p)'
             b2 == IsBoot(p)'
             L2 == Leaves(tree')
  <2>1. PageOk(H2, made', L2, stale'[p], view'[p], b2, q2)
    <3>1. PageOk(H2, made', L2, stale[p], view[p], IsBoot(p), q2) /\ (b2 <=> IsBoot(p)) /\ b2 \in BOOLEAN /\ IsBoot(p) \in BOOLEAN
      BY <1>3, <1>7 DEF IsBoot
    <3> HIDE DEF q2, b2, L2
    <3>2. b2 = IsBoot(p)
      BY <3>1
    <3>3. QED
      BY <1>2, <3>1, <3>2
  <2>2. QED
    BY <2>1
<1>9. ASSUME Tracked(p)' PROVE TrackOk(H2, tree, view[p], Coming(p), Commands(p), unsynced[p])'
  <2> DEFINE q == Coming(p)
             q2 == Coming(p)'
  <2>i. Inserted(q2, q, Len(q), m)
    BY <1>1
  <2>1. (\E i \in DOMAIN Coming(p) : GreetAt(Coming(p), i))' => \E i \in DOMAIN q2 : GreetAt(q2, i)
    BY DEF GreetAt
  <2> HIDE DEF q, q2
  <2>2. ASSUME NEW i \in DOMAIN q2, GreetAt(q2, i) PROVE i \in DOMAIN q /\ GreetAt(q, i)
    <3>1. /\ Len(q) \in Nat /\ DOMAIN q2 = 1 .. Len(q) + 1 /\ DOMAIN q = 1 .. Len(q) /\ q2[Len(q) + 1] = m
          /\ \A j \in 1 .. Len(q) : q2[j] = q[j]
      BY <2>i DEF Inserted, IsSeq
    <3>2. i # Len(q) + 1
      BY <1>5, <2>2, <3>1 DEF GreetAt
    <3>3. i \in 1 .. Len(q) /\ \A j \in 1 .. i - 1 : j \in 1 .. Len(q)
      BY <2>2, <3>1, <3>2
    <3>4. QED
      BY <2>2, <3>1, <3>3 DEF GreetAt
  <2>3. Tracked(p)
    <3>1. (\E i \in DOMAIN q2 : GreetAt(q2, i)) => \E i \in DOMAIN q : GreetAt(q, i)
      BY <2>2
    <3>2. QED
      BY <1>2, <1>3, <1>9, <2>1, <3>1 DEF Tracked, q
  <2>4. TrackOk(H, tree, view[p], q, Commands(p), unsynced[p])
    BY <2>3 DEF Story, PageStory, q
  <2>5. \E ls : Follows(ls, q2, ShownIn(view[p]), Leaves(tree'))
    <3>1. PICK ks : Follows(ks, q, ShownIn(view[p]), Leaves(tree))
      BY <2>4 DEF TrackOk
    <3>2. tree' \in Layouts
      BY DEF TypeInv, Proper
    <3>3. Leaves(tree') \in SUBSET Sessions /\ Leaves(tree') # {}
      BY <3>2, LeavesType
    <3> DEFINE K == ShownIn(view[p])
               L == Leaves(tree)
               L2 == Leaves(tree')
    <3>4. Shows(L, m) = L2 /\ LastOne(L, m) /\ L2 \in SUBSET Sessions /\ L2 # {} /\ Follows(ks, q, K, L)
      BY <3>1, <3>3 DEF EditStep
    <3> HIDE DEF K, L, L2
    <3>5. Shows(L, m) \in SUBSET Sessions /\ Shows(L, m) # {}
      BY <3>4
    <3>6. \E ls : Follows(ls, q2, K, Shows(L, m))
      BY <2>i, <3>4, <3>5, FollowsEdit
    <3>7. QED
      BY <3>4, <3>6 DEF K, L2
  <2>6. ~unsynced[p] => \E G : Exact(H2, G, tree', view[p], q2, Commands(p))
    <3>1. ASSUME NEW G, Exact(H, G, tree, view[p], q, Commands(p)) PROVE \E G2 : Exact(H2, G2, tree', view[p], q2, Commands(p))
      BY <2>i, <3>1 DEF EditStep, q
    <3>2. QED
      BY <2>4, <3>1 DEF TrackOk
  <2>7. TrackOk(H2, tree', view[p], q2, Commands(p), unsynced[p])
    BY <2>5, <2>6 DEF TrackOk
  <2>8. QED
    BY <1>2, <1>3, <2>7 DEF q2
<1>10. QED
  BY <1>8, <1>9 DEF PageStory

\* The same, of all pages.
LEMMA EditStory ==
  ASSUME TypeInv, TypeInv', ControlInv, NEW H, Story(H), NEW H2, NEW c \in Conns, NEW m, EditStep(H, H2, c, m)
  PROVE Story(H2)'
<1>1. Telling' = {c} /\ job'[c].message = m
  BY EditTelling, ControlTypes
<1>2. \A p \in Pages : PageStory(H2, p)'
  BY EditPageStory
<1>3. (\A d, e \in Telling : d = e)'
  BY <1>1
<1>4. (\A d \in Telling : Created(job[d].message) =>
         job[d].message.session \in Leaves(tree) \/ \A k \in Leaves(tree) : k > job[d].message.session)'
  <2>1. Created(m) => m.session \in Leaves(tree')
    BY DEF EditStep
  <2>2. QED
    BY <1>1, <2>1
<1>5. \A d \in Conns : UpdatesOk(H2, made', Leaves(tree'), view'[pageOf'[d]], up'[d])
  <2>1. SUFFICES ASSUME NEW d \in Conns PROVE UpdatesOk(H2, made', Leaves(tree'), view[pageOf[d]], up[d])
    BY DEF EditStep, channels, pages
  <2> DEFINE n == made
             n2 == made'
             L == Leaves(tree)
             L2 == Leaves(tree')
             v == view[pageOf[d]]
             w == up[d]
  <2>3. Evolves(H, n, L, H2, n2, L2) /\ UpdatesOk(H, n, L, v, w)
    BY DEF EditStep, Story
  <2> HIDE DEF n, n2, L, L2, v, w
  <2>4. UpdatesOk(H2, n2, L2, v, w)
    BY <2>3, UpdatesEvolve
  <2>5. QED
    BY <2>4 DEF n2, L2, v, w
<1>6. Grown(H2, made') /\ Sound(H2, made', tree')
  BY DEF EditStep
<1>7. QED
  BY <1>2, <1>3, <1>4, <1>5, <1>6 DEF Story

\* All that a page knows of has sessions that were made.
LEMMA StoryWithin ==
  ASSUME TypeInv, ControlInv, NEW H, Story(H), NEW p \in Pages
  PROVE /\ UpdatesOk(H, made, Leaves(tree), view[p], Commands(p))
        /\ Within(made, view[p], Coming(p), Commands(p))
<1> DEFINE n == made
           L == Leaves(tree)
           v == view[p]
           q == Coming(p)
           w == Commands(p)
           st == stale[p]
           b == IsBoot(p)
<1>1. PageOk(H, n, L, st, v, b, q)
  BY DEF Story, PageStory
<1>2. UpdatesOk(H, n, L, v, w)
  <2>1. CASE conn[p] = None
    BY <2>1 DEF Commands, UpdatesOk
  <2>2. CASE conn[p] # None
    <3>1. conn[p] \in Conns /\ pageOf[conn[p]] = p /\ w = up[conn[p]]
      BY <2>2, OwnConnection DEF Commands
    <3>2. QED
      BY <3>1 DEF Story
  <2>3. QED
    BY <2>1, <2>2
<1> HIDE DEF n, L, v, q, w, st, b
<1>3. Within(n, v, q, w)
  BY <1>1, <1>2, IsWithin
<1>4. QED
  BY <1>2, <1>3 DEF n, L, v, q, w

\* A page that is not stale yet means that no other handler had a change to tell.
LEMMA CalmEdit ==
  ASSUME TypeInv, NEW c \in Conns, job[c].at # "tell", Lost(Overlaps(c)), Calm' PROVE Telling = {} /\ stale' = stale
<1>1. PICK p \in Pages : ~stale'[p]
  BY DEF Calm
<1>2. Overlaps(c) = {} /\ \A d \in Conns \ {c} : job[d].at # "tell"
  BY <1>1 DEF Lost, Overlaps
<1>3. stale \in [Pages -> BOOLEAN] /\ stale' = [r \in Pages |-> stale[r] \/ r \in {}]
  BY <1>2 DEF Lost, TypeInv
<1>4. \A r \in Pages : (stale[r] \/ r \in {}) = stale[r]
  BY <1>3
<1>5. stale' = [r \in Pages |-> stale[r]]
  BY <1>3, <1>4
<1>6. stale = [r \in Pages |-> stale[r]]
  BY <1>3
<1>7. QED
  BY <1>2, <1>5, <1>6 DEF Telling

\* Joints stay proper when more sessions are made.
LEMMA GrownLater ==
  ASSUME NEW n \in Nat, NEW k \in Nat, n <= k, NEW H, Grown(H, n), NEW t, Sound(H, n, t)
  PROVE Grown(H, k) /\ Sound(H, k, t) /\ Evolves(H, n, Leaves(t), H, k, Leaves(t))
<1>1. 1 .. n \subseteq 1 .. k
  OBVIOUS
<1>2. QED
  BY <1>1 DEF Grown, Sound, Proper, Evolves

\* SplitPane: the session made for a pane there is not any more ...
LEMMA InsertNothingStory ==
  ASSUME TypeInv, TypeInv', ControlInv, NEW H, Story(H), NEW c \in Conns, InsertPane(c), ~HasSession(tree, job[c].session)
  PROVE Story(H)'
<1> USE ControlTypes
<1>1. /\ job' = [job EXCEPT ![c] = NoJob] /\ job[c].at = "split" /\ made' = made + 1 /\ made < MaxSessions
      /\ tree' = SplitLayoutNode(tree, job[c].session, made', job[c].direction) /\ Lost(Overlaps(c))
      /\ UNCHANGED <<channels, pages, unsynced>>
  BY DEF InsertPane
<1>2. job[c].session \in Sessions /\ job[c].direction \in Directions /\ made' \in Sessions /\ tree \in Layouts /\ made \in Nat
  BY <1>1, JobFields, TypeFacts DEF TypeInv, Proper
<1>3. tree' = tree
  BY <1>1, <1>2, SplitNothing DEF HasSession, Leaves
<1>4. Grown(H, made') /\ Sound(H, made', tree') /\ Evolves(H, made, Leaves(tree), H, made', Leaves(tree'))
  <2>1. made \in Nat /\ made' \in Nat /\ made <= made' /\ Grown(H, made) /\ Sound(H, made, tree)
    BY <1>1, <1>2 DEF Story
  <2>2. QED
    BY <1>3, <2>1, GrownLater
<1>5. TellKept
  BY <1>1 DEF TellKept, NoJob
<1>6. QuietStep(H, H)
  <2>1. \A p \in Pages : stale[p] => stale'[p]
    BY <1>1 DEF Lost
  <2>2. QED
    BY <1>1, <1>3, <1>4, <1>5, <2>1 DEF QuietStep, pages, Story
<1>7. QED
  BY <1>6, QuietStory

\* ... and for one that is split.
LEMMA InsertStory ==
  ASSUME TypeInv, TypeInv', ControlInv, NEW H, Story(H), NEW c \in Conns, InsertPane(c), HasSession(tree, job[c].session), Calm'
  PROVE \E H2 : Story(H2)'
<1> USE ControlTypes
<1>1. /\ job[c].at = "split" /\ made' = made + 1 /\ made < MaxSessions
      /\ tree' = SplitLayoutNode(tree, job[c].session, made', job[c].direction) /\ Lost(Overlaps(c))
      /\ UNCHANGED <<channels, pages, unsynced>>
  BY DEF InsertPane
<1>2. PICK s : s = job[c].session
  OBVIOUS
<1>3. PICK d : d = job[c].direction
  OBVIOUS
<1>4. PICK m : m = [type |-> "session_created", session |-> made', target |-> s, direction |-> d]
  OBVIOUS
<1>5. Tell(c, m)
  BY <1>2, <1>3, <1>4 DEF InsertPane
<1>6. Telling = {} /\ stale' = stale
  BY <1>1, CalmEdit
<1>7. s \in Sessions /\ d \in Directions /\ made' \in Sessions /\ tree \in Layouts /\ made \in Nat /\ Distinct(tree)
      /\ Leaves(tree) \subseteq 1 .. made /\ s \in Leaves(tree) /\ Grown(H, made) /\ Sound(H, made, tree)
  BY <1>1, <1>2, <1>3, JobFields, TypeFacts DEF TypeInv, Proper, HasSession, Leaves, Story
<1>8. s \in 1 .. made /\ made + 1 <= MaxSessions /\ MaxSessions \in Nat /\ made' \in Nat /\ made <= made' /\ made' \in 1 .. made'
      /\ s \in 1 .. made' /\ s \in 1 .. made' - 1 /\ Leaves(tree) \subseteq 1 .. made' - 1 /\ made' \notin 1 .. made
  BY <1>1, <1>7, TypeFacts
<1>9. /\ Created(m) /\ ~Closed(m) /\ ~Connected(m)
      /\ m.session = made' /\ m.target = s /\ m.direction = d
  BY <1>4 DEF Created, Closed, Connected
<1>10. PICK H2 : H2 = Grow(H, s, made', d)
  OBVIOUS
<1>11. /\ Grown(H2, made') /\ \A K \in SUBSET (1 .. made) : Rest(H2, K) = Rest(H, K)
       /\ Born(H2, m)
  <2> DEFINE n == made
  <2>1. n \in Nat /\ n + 1 <= MaxSessions /\ Grown(H, n) /\ s \in 1 .. n /\ made' = n + 1
    BY <1>1, <1>7, <1>8
  <2> HIDE DEF n
  <2>2. /\ Grown(Grow(H, s, n + 1, d), n + 1)
        /\ \A K \in SUBSET (1 .. n) : Rest(Grow(H, s, n + 1, d), K) = Rest(H, K)
        /\ \A x : x.session = n + 1 /\ x.target = s /\ x.direction = d => Born(Grow(H, s, n + 1, d), x)
    BY <1>7, <2>1, GrowEvolves
  <2>3. QED
    BY <1>9, <1>10, <2>1, <2>2 DEF n
<1>12. /\ tree' \in Layouts /\ Distinct(tree') /\ Leaves(tree') = Leaves(tree) \cup {made'}
       /\ \A J : Plain(Joints(tree)) = Rest(J, Leaves(tree)) /\ Born(J, m) => Plain(Joints(tree')) = Rest(J, Leaves(tree'))
  <2>1. tree' = SplitLayoutNode(tree, m.target, m.session, m.direction)
    BY <1>1, <1>2, <1>3, <1>9
  <2> DEFINE t == tree
             w == tree'
  <2>2. /\ t \in Layouts /\ Distinct(t) /\ m.session \in Sessions /\ m.direction \in Directions
        /\ Leaves(t) \subseteq 1 .. m.session - 1 /\ m.target \in Leaves(t)
        /\ w = SplitLayoutNode(t, m.target, m.session, m.direction)
    BY <1>7, <1>8, <1>9, <2>1
  <2> HIDE DEF t, w
  <2>3. /\ w \in Layouts /\ Distinct(w) /\ Leaves(w) = Leaves(t) \cup {m.session}
        /\ \A J : Plain(Joints(t)) = Rest(J, Leaves(t)) /\ Born(J, m) => Plain(Joints(w)) = Rest(J, Leaves(w))
    BY <2>2, SplitSound
  <2>4. QED
    BY <1>9, <2>3 DEF t, w
<1>13. Sound(H2, made', tree')
  <2>1. Plain(Joints(tree)) = Rest(H2, Leaves(tree))
    BY <1>7, <1>11 DEF Sound
  <2>2. Leaves(tree') \subseteq 1 .. made'
    BY <1>7, <1>8, <1>12
  <2>3. QED
    BY <1>11, <1>12, <2>1, <2>2 DEF Sound, Proper
<1>14. Evolves(H, made, Leaves(tree), H2, made', Leaves(tree'))
  BY <1>7, <1>8, <1>11, <1>12 DEF Evolves
<1>15. m \in Edits(made')
  BY <1>4, <1>7, <1>8 DEF Edits
<1>16. Fits(H2, made', Leaves(tree'), m)
  BY <1>7, <1>8, <1>9, <1>11 DEF Fits, CreatedFits
<1>17. Shows(Leaves(tree), m) = Leaves(tree') /\ LastOne(Leaves(tree), m)
  BY <1>7, <1>9, <1>12 DEF Shows, LastOne
<1>18. ASSUME NEW p \in Pages, NEW G, NEW q2, Inserted(q2, Coming(p), Len(Coming(p)), m),
              Exact(H, G, tree, view[p], Coming(p), Commands(p))
       PROVE \E G2 : Exact(H2, G2, tree', view[p], q2, Commands(p))
  <2> DEFINE n == made
             t == tree
             v == view[p]
             q == Coming(p)
             w == Commands(p)
  <2>1. /\ n \in Nat /\ n + 1 <= MaxSessions /\ Grown(H, n) /\ t \in Layouts /\ Exact(H, G, t, v, q, w)
        /\ Within(n, v, q, w) /\ Distinct(t) /\ Leaves(t) \subseteq 1 .. n
        /\ m.session = n + 1 /\ m.target \in Leaves(t) /\ m.direction \in Directions /\ Created(m)
        /\ Inserted(q2, q, Len(q), m)
    BY <1>1, <1>7, <1>8, <1>9, <1>18, StoryWithin
  <2>2. tree' = SplitLayoutNode(t, m.target, n + 1, m.direction) /\ H2 = Grow(H, m.target, n + 1, m.direction)
    BY <1>1, <1>2, <1>3, <1>9, <1>10
  <2> HIDE DEF n, t, v, q, w
  <2>3. Exact(Grow(H, m.target, n + 1, m.direction), Grow(G, m.target, n + 1, m.direction),
              SplitLayoutNode(t, m.target, n + 1, m.direction), v, q2, w)
    BY <2>1, ExactSplit
  <2>4. Exact(H2, Grow(G, m.target, n + 1, m.direction), tree', v, q2, w)
    BY <2>2, <2>3
  <2>5. QED
    BY <2>4 DEF v, w
<1>19. EditStep(H, H2, c, m)
  BY <1>1, <1>5, <1>6, <1>9, <1>11, <1>12, <1>13, <1>14, <1>15, <1>16, <1>17, <1>18 DEF EditStep
<1>20. QED
  BY <1>19, EditStory

\* A page's copy of the joints has the server's new tree too; the edit is on its way.
LEMMA ExactClose ==
  ASSUME NEW H, NEW G, NEW t, NEW v, NEW q, NEW w, Exact(H, G, t, v, q, w), NEW t2, Left(G, t) => Left(G, t2),
         NEW m, Closed(m), NEW q2, Inserted(q2, q, Len(q), m)
  PROVE Exact(H, G, t2, v, q2, w)
<1>1. ~Created(m) /\ ~Connected(m)
  BY DEF Created, Closed, Connected
<1>2. Exact(H, G, t2, v, q, w)
  BY ExactTree
<1>3. QED
  BY <1>1, <1>2, ExactQuiet

\* ClosePane, of a pane there is not any more.
LEMMA RemoveNothingStory ==
  ASSUME TypeInv, TypeInv', ControlInv, NEW H, Story(H), NEW c \in Conns, RemovePane(c), tree' = tree
  PROVE Story(H)'
<1> USE ControlTypes
<1>1. /\ job' = [job EXCEPT ![c] = NoJob] /\ job[c].at = "close" /\ made' = made /\ Lost(Overlaps(c))
      /\ UNCHANGED <<channels, pages, unsynced>>
  BY DEF RemovePane
<1>2. TellKept
  BY <1>1 DEF TellKept, NoJob
<1>3. QuietStep(H, H)
  <2>1. \A p \in Pages : stale[p] => stale'[p]
    BY <1>1 DEF Lost
  <2>2. Evolves(H, made, Leaves(tree), H, made', Leaves(tree'))
    BY <1>1, TypeFacts, Unmoved
  <2>3. QED
    BY <1>1, <1>2, <2>1, <2>2 DEF QuietStep, pages, Story
<1>4. QED
  BY <1>3, QuietStory

\* A pane is closed.
LEMMA RemoveStory ==
  ASSUME TypeInv, TypeInv', ControlInv, NEW H, Story(H), NEW c \in Conns, RemovePane(c), tree' # tree, Calm'
  PROVE Story(H)'
<1> USE ControlTypes
<1>1. /\ job[c].at = "close" /\ made' = made /\ Lost(Overlaps(c))
      /\ tree' = ClosePaneInLayout(tree, job[c].session)
      /\ UNCHANGED <<channels, pages, unsynced>>
  BY DEF RemovePane
<1>2. PICK s : s = job[c].session
  OBVIOUS
<1>3. PICK m : m = [type |-> "pane_closed", session |-> s, layout |-> tree']
  OBVIOUS
<1>4. Tell(c, m)
  BY <1>2, <1>3 DEF RemovePane
<1>5. Telling = {} /\ stale' = stale
  BY <1>1, CalmEdit
<1>6. s \in Sessions /\ tree \in Layouts /\ made \in Nat /\ Distinct(tree) /\ Proper(tree, made)
      /\ Leaves(tree) \subseteq 1 .. made /\ Grown(H, made) /\ Sound(H, made, tree)
  BY <1>1, <1>2, JobFields, TypeFacts DEF TypeInv, Proper, Story
<1>7. Proper(tree', made) /\ s \in Leaves(tree) /\ tree # Pane(s)
  BY <1>1, <1>2, <1>6, CloseProper
<1>8. s \in 1 .. made
  BY <1>6, <1>7
<1>9. /\ tree' \in Layouts /\ Distinct(tree') /\ Leaves(tree') = Leaves(tree) \ {s}
      /\ \A G : Left(G, tree) => Left(G, tree')
      /\ \A J : Plain(Joints(tree)) = Rest(J, Leaves(tree)) => Plain(Joints(tree')) = Rest(J, Leaves(tree'))
  <2>1. tree' = ClosePaneInLayout(tree, s)
    BY <1>1, <1>2
  <2> DEFINE t == tree
             w == tree'
  <2>2. t \in Layouts /\ Distinct(t) /\ s \in Leaves(t) /\ t # Pane(s) /\ w = ClosePaneInLayout(t, s)
    BY <1>6, <1>7, <2>1
  <2> HIDE DEF t, w
  <2>3. /\ w \in Layouts /\ Distinct(w) /\ Leaves(w) = Leaves(t) \ {s}
        /\ \A G : Left(G, t) => Left(G, w)
        /\ \A J : Plain(Joints(t)) = Rest(J, Leaves(t)) => Plain(Joints(w)) = Rest(J, Leaves(w))
    BY <2>2, CloseSound
  <2>4. QED
    BY <2>3 DEF t, w
<1>10. Sound(H, made', tree')
  BY <1>1, <1>6, <1>7, <1>9 DEF Sound
<1>11. Evolves(H, made, Leaves(tree), H, made', Leaves(tree'))
  BY <1>1, <1>6, <1>9 DEF Evolves
<1>12. ~Created(m) /\ Closed(m) /\ ~Connected(m) /\ m.session = s /\ m.layout = tree'
  BY <1>3 DEF Created, Closed, Connected
<1>13. m \in Edits(made')
  BY <1>1, <1>3, <1>6, <1>7, <1>9 DEF Edits, ServerTrees
<1>14. Fits(H, made', Leaves(tree'), m)
  BY <1>1, <1>8, <1>9, <1>10, <1>12 DEF Fits, ClosedFits
<1>15. Leaves(tree) # {s}
  BY <1>6, <1>7, OneLeaf
<1>16. Shows(Leaves(tree), m) = Leaves(tree') /\ LastOne(Leaves(tree), m)
  BY <1>9, <1>12, <1>15 DEF Shows, LastOne
<1>17. ASSUME NEW p \in Pages, NEW G, NEW q2, Inserted(q2, Coming(p), Len(Coming(p)), m),
              Exact(H, G, tree, view[p], Coming(p), Commands(p))
       PROVE \E G2 : Exact(H, G2, tree', view[p], q2, Commands(p))
  <2> DEFINE t == tree
             t2 == tree'
             v == view[p]
             q == Coming(p)
             w == Commands(p)
  <2>1. Exact(H, G, t, v, q, w) /\ (Left(G, t) => Left(G, t2)) /\ Closed(m) /\ Inserted(q2, q, Len(q), m)
    BY <1>9, <1>12, <1>17
  <2> HIDE DEF t, t2, v, q, w
  <2>2. Exact(H, G, t2, v, q2, w)
    BY <2>1, ExactClose
  <2>3. QED
    BY <2>2 DEF t2, v, w
<1>18. EditStep(H, H, c, m)
  BY <1>1, <1>4, <1>5, <1>6, <1>7, <1>10, <1>11, <1>12, <1>13, <1>14, <1>16, <1>17 DEF EditStep
<1>19. QED
  BY <1>18, EditStory

\* ClosePane of the last pane.
LEMMA ReplacePaneStory ==
  ASSUME TypeInv, TypeInv', ControlInv, NEW H, Story(H), NEW c \in Conns, ReplacePane(c), Calm'
  PROVE Story(H)'
<1> USE ControlTypes
<1>1. /\ job[c].at = "closeLast" /\ made' = made + 1 /\ made < MaxSessions /\ tree' = Pane(made')
      /\ UNCHANGED <<channels, pages, unsynced>>
  BY DEF ReplacePane
<1>2. PICK s : s = job[c].session
  OBVIOUS
<1>3. PICK m : m = [type |-> "pane_closed", session |-> s, layout |-> tree']
  OBVIOUS
<1>4. Tell(c, m)
  BY <1>2, <1>3 DEF ReplacePane
<1>5. tree = Pane(s) /\ Lost(Overlaps(c))
  <2>1. PICK p \in Pages : ~stale'[p]
    BY DEF Calm
  <2>2. Lost(IF tree = Pane(s) THEN Overlaps(c) ELSE Pages)
    BY <1>2 DEF ReplacePane
  <2>3. QED
    BY <2>1, <2>2 DEF Lost
<1>6. Telling = {} /\ stale' = stale
  BY <1>1, <1>5, CalmEdit
<1>7. s \in Sessions /\ made' \in Sessions /\ made \in Nat /\ made' \in Nat /\ Grown(H, made) /\ Sound(H, made, tree)
  BY <1>1, <1>2, JobFields, TypeFacts, SMTT(30) DEF TypeInv, Story
<1>8. Leaves(tree) = {s} /\ s \in 1 .. made /\ s \in 1 .. made' /\ s # made' /\ made' \notin 1 .. made /\ 1 .. made \subseteq 1 .. made'
  <2>1. Leaves(tree) = {s} /\ Leaves(tree) \subseteq 1 .. made
    BY <1>5, <1>7, PaneProper, TypeFacts DEF Proper
  <2>2. QED
    BY <1>1, <1>7, <2>1
<1>9. Proper(tree', made') /\ Leaves(tree') = {made'} /\ IsPaneTree(tree') /\ Joints(tree') = {}
  BY <1>1, <1>7, PaneProper, PaneIsTree, PaneJoints
<1>10. Rest(H, {made'}) = {}
  <2>1. \A j \in H : j.one \subseteq 1 .. made
    BY <1>7 DEF Grown
  <2>2. \A j \in H : j.one \cap {made'} = {}
    BY <1>8, <2>1
  <2>3. QED
    BY <2>2 DEF Rest, Meets
<1>11. Sound(H, made', tree')
  BY <1>9, <1>10 DEF Sound, Plain
<1>12. Grown(H, made') /\ Evolves(H, made, Leaves(tree), H, made', Leaves(tree'))
  <2>1. Grown(H, made')
    BY <1>7, <1>8 DEF Grown
  <2>2. made <= made' /\ Leaves(tree') \cap (1 .. made) = {}
    BY <1>1, <1>7, <1>8, <1>9
  <2>3. QED
    BY <1>7, <2>1, <2>2 DEF Evolves
<1>13. ~Created(m) /\ Closed(m) /\ ~Connected(m) /\ m.session = s /\ m.layout = tree'
  BY <1>3 DEF Created, Closed, Connected
<1>14. m \in Edits(made')
  BY <1>3, <1>7, <1>9 DEF Edits, ServerTrees, Proper
<1>15. Fits(H, made', Leaves(tree'), m)
  BY <1>8, <1>9, <1>11, <1>13 DEF Fits, ClosedFits
<1>16. Shows(Leaves(tree), m) = Leaves(tree') /\ LastOne(Leaves(tree), m)
  BY <1>8, <1>9, <1>13 DEF Shows, LastOne
<1>17. ASSUME NEW p \in Pages, NEW G, NEW q2, Inserted(q2, Coming(p), Len(Coming(p)), m),
              Exact(H, G, tree, view[p], Coming(p), Commands(p))
       PROVE \E G2 : Exact(H, G2, tree', view[p], q2, Commands(p))
  <2> DEFINE t == tree
             t2 == tree'
             v == view[p]
             q == Coming(p)
             w == Commands(p)
  <2>0. Left(G, tree')
    <3>1. Plain(G) = H
      BY <1>17 DEF Exact
    <3>2. QED
      BY <1>9, <1>11, <3>1, LeftOne
  <2>1. Exact(H, G, t, v, q, w) /\ (Left(G, t) => Left(G, t2)) /\ Closed(m) /\ Inserted(q2, q, Len(q), m)
    BY <1>13, <1>17, <2>0
  <2> HIDE DEF t, t2, v, q, w
  <2>2. Exact(H, G, t2, v, q2, w)
    BY <2>1, ExactClose
  <2>3. QED
    BY <2>2 DEF t2, v, w
<1>18. EditStep(H, H, c, m)
  BY <1>1, <1>4, <1>6, <1>8, <1>11, <1>12, <1>13, <1>14, <1>15, <1>16, <1>17 DEF EditStep
<1>19. QED
  BY <1>18, EditStory

\* What a page has on its way after a message went to the connections ds.
LEMMA Delivered ==
  ASSUME TypeInv, ControlInv, NEW ds \in SUBSET Conns, NEW m, Deliver(ds, m), UNCHANGED <<conn, pageOf>>, NEW p \in Pages
  PROVE Incoming(p)' = IF conn[p] \in ds THEN Append(Incoming(p), m) ELSE Incoming(p)
<1> USE ControlTypes
<1>1. conn'[p] = conn[p]
  OBVIOUS
<1>2. CASE conn[p] = None
  BY <1>1, <1>2 DEF Incoming
<1>3. CASE conn[p] # None
  <2>1. conn[p] \in Conns /\ Listens(conn[p])
    BY <1>3, OwnConnection
  <2>2. down'[conn[p]] = IF conn[p] \in ds THEN Append(down[conn[p]], m) ELSE down[conn[p]]
    BY <2>1 DEF Deliver
  <2>3. Incoming(p)' = down'[conn[p]] /\ Incoming(p) = down[conn[p]]
    BY <1>1, <1>3 DEF Incoming
  <2>4. QED
    BY <2>2, <2>3
<1>4. QED
  BY <1>2, <1>3

\* A connected message is under way to a page that gets the edits after it.
LEMMA ConnectedInformed ==
  ASSUME TypeInv, ControlInv, NEW p \in Pages, IsBoot(p), NEW i \in DOMAIN Incoming(p), Connected(Incoming(p)[i])
  PROVE Informed(p)
<1>1. conn[p] \in Conns /\ i \in DOMAIN down[conn[p]] /\ Connected(down[conn[p]][i])
  BY ControlTypes DEF IsBoot, Incoming
<1>2. hs[conn[p]] \in {"serving", "ended"}
  BY <1>1, ControlTypes DEF ControlInv, ConnControl, HandlerStates
<1>3. QED
  BY <1>2 DEF Informed, IsBoot

\* BroadcastTabEvent: what was pending is on its way, or lost for the page.
LEMMA BroadcastStory ==
  ASSUME TypeInv, TypeInv', ControlInv, NEW H, Story(H), NEW c \in Conns, Broadcast(c)
  PROVE Story(H)'
<1> USE ControlTypes
<1>1. /\ job[c].at = "tell" /\ job' = [job EXCEPT ![c] = NoJob] /\ Deliver(clients, job[c].message)
      /\ tree' = tree /\ made' = made /\ clients' = clients /\ up' = up
      /\ pageOf' = pageOf /\ conn' = conn /\ phase' = phase /\ boot' = boot /\ view' = view /\ unsynced' = unsynced
      /\ Lost({p \in Pages : Informed(p) /\ ~(conn[p] \in clients)})
  BY DEF Broadcast, server, pages
<1>2. PICK m : m = job[c].message
  OBVIOUS
<1>3. c \in Telling /\ \A d \in Telling : c = d
  BY <1>1 DEF Telling, Story
<1>4. Pending = <<m>>
  BY <1>2, <1>3, PendingIs
<1>5. Telling' = {} /\ Pending' = <<>>
  <2>1. Telling' = {}
    BY <1>1, <1>3 DEF Telling, NoJob
  <2>2. QED
    BY <2>1 DEF Pending
<1>6. m \in DownMessages(made)
  BY <1>1, <1>2, JobFields, TypeFacts DEF DownMessages
<1>7. ASSUME NEW p \in Pages PROVE PageStory(H, p)'
  <2>1. Incoming(p)' = IF conn[p] \in clients THEN Append(Incoming(p), m) ELSE Incoming(p)
    BY <1>1, <1>2, Delivered
  <2>2. Incoming(p) \in Seq(DownMessages(made)) /\ Coming(p) \in Seq(DownMessages(made))
    BY ComingType
  <2>3. stale'[p] = (stale[p] \/ (Informed(p) /\ ~(conn[p] \in clients)))
    BY <1>1 DEF Lost
  <2>4. IsBoot(p)' <=> IsBoot(p)
    BY <1>1 DEF IsBoot
  <2>5. Commands(p)' = Commands(p)
    BY <1>1 DEF Commands
  <2>6. CASE conn[p] \in clients
    <3>1. Coming(p)' = Coming(p)
      <4>1. Coming(p)' = Append(Incoming(p), m) \o <<>> /\ Coming(p) = Incoming(p) \o <<m>>
        BY <1>4, <1>5, <2>1, <2>6 DEF Coming
      <4>2. QED
        BY <1>6, <2>2, <4>1, AppendIsJoin
    <3>2. Tracked(p)' => Tracked(p)
      BY <1>1, <2>3, <2>4, <3>1, TrackedKept
    <3>3. Evolves(H, made, Leaves(tree), H, made', Leaves(tree'))
      BY <1>1, TypeFacts, Unmoved
    <3>4. PageStory(H, p)
      BY DEF Story
    <3>5. Tracked(p)' => /\ H = H /\ Leaves(tree') = Leaves(tree) /\ Tracked(p)
                         /\ ~unsynced'[p] => /\ ~unsynced[p]
                                             /\ \A G : Exact(H, G, tree, view[p], Coming(p), Commands(p)) =>
                                                         Exact(H, G, tree', view[p], Coming(p), Commands(p)')
      BY <1>1, <2>5, <3>2
    <3>6. QED
      BY <1>1, <2>3, <2>4, <3>1, <3>3, <3>4, <3>5, PageKept
  <2>7. CASE conn[p] \notin clients
    <3>1. Coming(p)' = Incoming(p)
      <4>1. Coming(p)' = Incoming(p) \o <<>>
        BY <1>5, <2>1, <2>7 DEF Coming
      <4>2. QED
        BY <1>6, <2>2, <4>1, AppendIsJoin
    <3>2. Slice(Incoming(p), Coming(p), 0)
      <4>1. Pending \in Seq(DownMessages(made))
        BY ComingType
      <4>2. QED
        BY <2>2, <4>1, JoinedSlices DEF Coming
    <3>3. PageOk(H, made, Leaves(tree), stale'[p], view[p], IsBoot(p), Incoming(p))
      <4> DEFINE n == made
                 L == Leaves(tree)
                 st == stale[p]
                 st2 == stale'[p]
                 v == view[p]
                 b == IsBoot(p)
                 q == Coming(p)
                 q2 == Incoming(p)
      <4>1. /\ PageOk(H, n, L, st, v, b, q) /\ Slice(q2, q, 0) /\ Evolves(H, n, L, H, n, L)
            /\ st \in BOOLEAN /\ st2 \in BOOLEAN /\ (st => st2) /\ b \in BOOLEAN
        BY <2>3, <3>2, TypeFacts, Unmoved DEF Story, PageStory, TypeInv, IsBoot
      <4> HIDE DEF n, L, st, st2, v, b, q, q2
      <4>2. PageOk(H, n, L, st, v, b, q2)
        BY <4>1, SlicePage
      <4>3. PageOk(H, n, L, st2, v, b, q2)
        BY <4>1, <4>2, PageEvolves
      <4>4. QED
        BY <4>3 DEF n, L, st2, v, b, q2
    <3>4. PageOk(H, made, Leaves(tree), stale[p], view[p], IsBoot(p), Coming(p))'
      <4> DEFINE b2 == IsBoot(p)'
                 q2 == Coming(p)'
      <4>1. b2 = IsBoot(p) /\ q2 = Incoming(p)
        BY <2>4, <3>1 DEF IsBoot
      <4> HIDE DEF b2, q2
      <4>2. PageOk(H, made', Leaves(tree'), stale'[p], view'[p], b2, q2)
        BY <1>1, <3>3, <4>1
      <4>3. QED
        BY <4>2 DEF b2, q2
    <3>5. ~Tracked(p)'
      <4>1. SUFFICES ASSUME Tracked(p)' PROVE FALSE
        OBVIOUS
      <4>2. (\E i \in DOMAIN Coming(p) : GreetAt(Coming(p), i))' => \E i \in DOMAIN Coming(p)' : GreetAt(Coming(p)', i)
        BY DEF GreetAt
      <4>3. view[p] # Blank \/ (IsBoot(p) /\ \E i \in DOMAIN Incoming(p) : GreetAt(Incoming(p), i))
        BY <1>1, <2>4, <3>1, <4>1, <4>2 DEF Tracked
      <4>4. Informed(p)
        BY <4>3, ConnectedInformed DEF GreetAt, Informed
      <4>5. stale'[p]
        BY <2>3, <2>7, <4>4
      <4>6. QED
        BY <4>1, <4>5 DEF Tracked
    <3>6. QED
      BY <3>4, <3>5 DEF PageStory
  <2>8. QED
    BY <2>6, <2>7
<1>8. \A d \in Conns : UpdatesOk(H, made', Leaves(tree'), view'[pageOf'[d]], up'[d])
  BY <1>1 DEF Story
<1>9. Grown(H, made') /\ Sound(H, made', tree')
  BY <1>1 DEF Story
<1>10. (\A d, e \in Telling : d = e)' /\ (\A d \in Telling : Created(job[d].message) =>
         job[d].message.session \in Leaves(tree) \/ \A k \in Leaves(tree) : k > job[d].message.session)'
  BY <1>5
<1>11. QED
  BY <1>7, <1>8, <1>9, <1>10 DEF Story

-----------------------------------------------------------------------------
(* Greeting, evicting and receiving *)

\* A message that is no edit is put on its way to a page.
QuietPut(H, p, m) ==
  /\ tree' = tree /\ made' = made /\ TellKept
  /\ view'[p] = view[p] /\ conn'[p] = conn[p] /\ boot'[p] = boot[p] /\ phase'[p] = phase[p] /\ unsynced'[p] = unsynced[p]
  /\ Commands(p)' = Commands(p) /\ (stale[p] => stale'[p])
  /\ Incoming(p)' = Append(Incoming(p), m) /\ m \in DownMessages(made)
  /\ ~IsEdit(m) /\ Fits(H, made, Leaves(tree), m)
  /\ IsBoot(p) /\ view[p] = Blank /\ Connected(m) => After(stale'[p], m.layout, Coming(p)', Len(Incoming(p)) + 1)

\* It comes before what is pending.
LEMMA PutComing ==
  ASSUME TypeInv, TypeInv', NEW H, NEW p \in Pages, NEW m, QuietPut(H, p, m)
  PROVE /\ Inserted(Coming(p)', Coming(p), Len(Incoming(p)), m) /\ Coming(p)' = Append(Incoming(p), m) \o Pending
        /\ IsSeq(Coming(p)) /\ IsSeq(Coming(p)') /\ Pending' = Pending
<1>1. Pending' = Pending
  BY TellingKept DEF QuietPut
<1>2. Pending \in Seq(DownMessages(made)) /\ Incoming(p) \in Seq(DownMessages(made)) /\ m \in DownMessages(made)
  BY ComingType DEF QuietPut
<1>3. Coming(p)' = Append(Incoming(p), m) \o Pending /\ Coming(p) = Incoming(p) \o Pending
  BY <1>1 DEF QuietPut, Coming
<1>4. Inserted(Append(Incoming(p), m) \o Pending, Incoming(p) \o Pending, Len(Incoming(p)), m)
  BY <1>2, PutIn
<1>5. QED
  BY <1>1, <1>3, <1>4 DEF Inserted

\* A message that is no edit fits a page's queue.
LEMMA PutPage ==
  ASSUME TypeInv, TypeInv', NEW H, Story(H), NEW p \in Pages, NEW m, QuietPut(H, p, m)
  PROVE PageOk(H, made, Leaves(tree), stale[p], view[p], IsBoot(p), Coming(p))'
<1>1. IsBoot(p)' <=> IsBoot(p)
  BY DEF IsBoot, QuietPut
<1> DEFINE n == made
           L == Leaves(tree)
           st == stale[p]
           st2 == stale'[p]
           v == view[p]
           b == IsBoot(p)
           b2 == IsBoot(p)'
           q == Coming(p)
           q2 == Coming(p)'
           a == Len(Incoming(p))
<1>2. /\ PageOk(H, n, L, st, v, b, q) /\ Inserted(q2, q, a, m) /\ Evolves(H, n, L, H, n, L)
      /\ st \in BOOLEAN /\ st2 \in BOOLEAN /\ (st => st2) /\ b \in BOOLEAN /\ ~IsEdit(m) /\ Fits(H, n, L, m)
  BY PutComing, TypeFacts, Unmoved DEF Story, PageStory, TypeInv, IsBoot, QuietPut
<1>3. b /\ v = Blank /\ Connected(m) => After(st2, m.layout, q2, a + 1)
  BY DEF QuietPut
<1>4. /\ b2 = b /\ made' = n /\ Leaves(tree') = L /\ view'[p] = v
  BY <1>1 DEF QuietPut, IsBoot
<1> HIDE DEF n, L, st, st2, v, b, q, q2, a, b2
<1>5. PageOk(H, n, L, st2, v, b, q)
  BY <1>2, PageEvolves
<1>6. PageOk(H, n, L, st2, v, b, q2)
  BY <1>2, <1>3, <1>5, QuietPage
<1>7. PageOk(H, made', Leaves(tree'), st2, view'[p], b2, q2)
  BY <1>4, <1>6
<1>8. QED
  BY <1>7 DEF st2, b2, q2

\* The message before which there is only disconnected.
LEMMA GreetBefore ==
  ASSUME NEW q2, NEW q, NEW a, NEW m, Inserted(q2, q, a, m), NEW i \in DOMAIN q2, GreetAt(q2, i), ~Connected(m)
  PROVE \E j \in DOMAIN q : GreetAt(q, j)
<1>1. /\ Len(q) \in Nat /\ DOMAIN q = 1 .. Len(q) /\ DOMAIN q2 = 1 .. Len(q) + 1 /\ a \in 0 .. Len(q) /\ q2[a + 1] = m
      /\ \A j \in 1 .. a : q2[j] = q[j]
      /\ \A j \in a + 1 .. Len(q) : q2[j + 1] = q[j]
  BY DEF Inserted, IsSeq
<1>2. CASE i <= a
  <2>1. i \in DOMAIN q /\ i \in 1 .. a /\ \A j \in 1 .. i - 1 : j \in 1 .. a
    BY <1>1, <1>2
  <2>2. QED
    BY <1>1, <2>1 DEF GreetAt
<1>3. CASE i = a + 1
  BY <1>1, <1>3 DEF GreetAt
<1>4. CASE i > a + 1
  <2>1. i - 1 \in a + 1 .. Len(q) /\ (i - 1) + 1 = i /\ i - 1 \in DOMAIN q
    BY <1>1, <1>4
  <2>2. Connected(q[i - 1])
    BY <1>1, <2>1 DEF GreetAt
  <2>3. ASSUME NEW j \in 1 .. (i - 1) - 1 PROVE q[j].type = "disconnected"
    <3>1. CASE j <= a
      <4>1. j \in 1 .. a /\ j \in 1 .. i - 1
        BY <1>1, <2>1, <3>1
      <4>2. QED
        BY <1>1, <4>1 DEF GreetAt
    <3>2. CASE j > a
      <4>1. j \in a + 1 .. Len(q) /\ j + 1 \in 1 .. i - 1
        BY <1>1, <2>1, <3>2
      <4>2. QED
        BY <1>1, <4>1 DEF GreetAt
    <3>3. QED
      BY <1>1, <2>1, <3>1, <3>2
  <2>4. QED
    BY <2>1, <2>2, <2>3 DEF GreetAt
<1>5. QED
  BY <1>1, <1>2, <1>3, <1>4

\* disconnected, or connected to a page that shows something.
LEMMA PutStory ==
  ASSUME TypeInv, TypeInv', NEW H, Story(H), NEW p \in Pages, NEW m, QuietPut(H, p, m), Connected(m) => view[p] # Blank
  PROVE PageStory(H, p)'
<1>1. PageOk(H, made, Leaves(tree), stale[p], view[p], IsBoot(p), Coming(p))'
  BY PutPage
<1>2. ASSUME Tracked(p)' PROVE TrackOk(H, tree, view[p], Coming(p), Commands(p), unsynced[p])'
  <2> DEFINE q == Coming(p)
             q2 == Coming(p)'
             a == Len(Incoming(p))
  <2>1. Inserted(q2, q, a, m) /\ IsSeq(q)
    BY PutComing
  <2>2. (\E i \in DOMAIN Coming(p) : GreetAt(Coming(p), i))' => \E i \in DOMAIN q2 : GreetAt(q2, i)
    BY DEF GreetAt
  <2>3. Tracked(p)
    <3>1. CASE view[p] # Blank
      BY <1>2, <3>1 DEF Tracked, QuietPut
    <3>2. CASE view[p] = Blank
      <4>1. /\ ~stale[p] /\ phase[p] # "gone" /\ IsBoot(p) /\ phase[p] \in {"first", "prompted"}
            /\ \E i \in DOMAIN q2 : GreetAt(q2, i)
        BY <1>2, <2>2, <3>2 DEF Tracked, QuietPut, IsBoot
      <4> HIDE DEF q, q2, a
      <4>2. \E j \in DOMAIN q : GreetAt(q, j)
        BY <2>1, <3>2, <4>1, GreetBefore
      <4>3. QED
        BY <4>1, <4>2 DEF Tracked, q
    <3>3. QED
      BY <3>1, <3>2
  <2> DEFINE v == view[p]
             K == ShownIn(v)
             L == Leaves(tree)
             w == Commands(p)
  <2>4. TrackOk(H, tree, v, q, w, unsynced[p])
    BY <2>3 DEF Story, PageStory
  <2>5. v # Blank => K # {}
    <3>1. v # Blank => \E u \in Layouts : v = ReconstructLayout(u)
      BY DEF Story, PageStory, PageOk
    <3>2. QED
      BY <3>1, ShownTree, LeavesType
  <2>6. ~Created(m) /\ ~Closed(m)
    BY DEF QuietPut, IsEdit, Created, Closed
  <2>h. a \in 0 .. Len(q) /\ Len(q) \in Nat
    BY <2>1 DEF Inserted, IsSeq
  <2>7. \E ls : Follows(ls, q2, K, L)
    <3>1. PICK ks : Follows(ks, q, K, L)
      BY <2>4 DEF TrackOk
    <3> HIDE DEF q, q2, a, v, K, L
    <3>2. Connected(m) => ks[a] # {}
      <4>1. Connected(m) => v # Blank
        BY DEF v
      <4>2. ks[0] = K /\ \A j \in 0 .. Len(q) : ks[0] # {} => ks[j] # {}
        <5>1. 0 \in 0 .. Len(q) /\ \A j \in 0 .. Len(q) : j \in 0 .. Len(q)
          BY <2>h
        <5>2. QED
          BY <3>1, <5>1 DEF Follows
      <4>3. QED
        BY <2>5, <2>h, <4>1, <4>2
    <3>3. Shows(ks[a], m) = ks[a]
      BY <2>6, <3>2 DEF Shows
    <3>4. QED
      BY <2>1, <2>6, <3>1, <3>3, FollowsQuiet
  <2>8. \A G : Exact(H, G, tree, v, q, w) => Exact(H, G, tree, v, q2, w)
    <3>1. v = Blank => ~Connected(m)
      OBVIOUS
    <3> HIDE DEF q, q2, a, v, w
    <3>2. QED
      BY <2>1, <2>6, <3>1, ExactQuiet
  <2>9. TrackOk(H, tree, v, q2, w, unsynced[p])
    BY <2>4, <2>7, <2>8 DEF TrackOk
  <2>10. tree' = tree /\ view'[p] = v /\ Commands(p)' = w /\ unsynced'[p] = unsynced[p]
    BY DEF QuietPut
  <2> HIDE DEF v, w
  <2>11. QED
    BY <2>9, <2>10
<1>3. QED
  BY <1>1, <1>2 DEF PageStory

\* DisconnectTabOwner.
LEMMA EvictStory ==
  ASSUME TypeInv, TypeInv', ControlInv, NEW H, Story(H), NEW c \in Conns, Evict(c)
  PROVE Story(H)'
<1> USE ControlTypes
<1>1. PICK m : m = [type |-> "disconnected"]
  OBVIOUS
<1>2. /\ tree' = tree /\ made' = made /\ job' = job /\ up' = up /\ pageOf' = pageOf /\ conn' = conn /\ phase' = phase
      /\ boot' = boot /\ view' = view /\ stale' = stale /\ unsynced' = unsynced /\ Deliver(clients, m)
  BY <1>1 DEF Evict, server, pages, history
<1>3. TellKept
  BY <1>2 DEF TellKept
<1>4. ~Created(m) /\ ~Closed(m) /\ ~Connected(m) /\ ~IsEdit(m) /\ m \in DownMessages(made)
  BY <1>1 DEF Created, Closed, Connected, IsEdit, DownMessages
<1>5. ASSUME NEW p \in Pages PROVE PageStory(H, p)'
  <2>1. Incoming(p)' = IF conn[p] \in clients THEN Append(Incoming(p), m) ELSE Incoming(p)
    BY <1>2, Delivered
  <2>2. Commands(p)' = Commands(p)
    BY <1>2 DEF Commands
  <2>3. CASE conn[p] \in clients
    <3>1. QuietPut(H, p, m)
      BY <1>2, <1>3, <1>4, <2>1, <2>2, <2>3 DEF QuietPut, Fits
    <3>2. QED
      BY <1>4, <3>1, PutStory
  <2>4. CASE conn[p] \notin clients
    <3>1. KeptPage(H, H, p)
      BY <1>2, <2>1, <2>4 DEF KeptPage, Incoming
    <3>2. Evolves(H, made, Leaves(tree), H, made', Leaves(tree'))
      BY <1>2, TypeFacts, Unmoved
    <3>3. QED
      BY <1>3, <3>1, <3>2, KeptPageStory
  <2>5. QED
    BY <2>3, <2>4
<1>6. \A d \in Conns : UpdatesOk(H, made, Leaves(tree), view'[pageOf'[d]], up'[d])
  BY <1>2 DEF Story
<1>7. QED
  BY <1>2, <1>3, <1>5, <1>6, StillStory

\* The splits that come after a connected message are pending: the page is stale then.
LEMMA GreetAfter ==
  ASSUME TypeInv, NEW H, Story(H), NEW a, a \in Seq(DownMessages(made)), NEW m \in DownMessages(made), m.layout = tree,
         NEW st, Telling # {} => st
  PROVE After(st, m.layout, Append(a, m) \o Pending, Len(a) + 1)
<1> DEFINE b == Pending
           t == Append(a, m)
           q == t \o b
           S == DownMessages(made)
<1>1. b \in Seq(S) /\ t \in Seq(S) /\ Len(t) = Len(a) + 1 /\ Len(a) \in Nat
  BY ComingType
<1> HIDE DEF t, S
<1>2. IsJoined(S, q, t, b)
  BY <1>1, Joining
<1> HIDE DEF b, q
<1>3. /\ q \in Seq(S) /\ Len(q) = Len(t) + Len(b) /\ Len(b) \in Nat /\ DOMAIN q = 1 .. Len(q)
      /\ \A i \in 1 .. Len(b) : q[i + Len(t)] = b[i]
  BY <1>2, SeqIs DEF IsJoined, IsSeq
<1>4. SUFFICES ASSUME NEW j \in DOMAIN q, j > Len(t), Created(q[j])
               PROVE Again(st, tree, q[j]) /\ \A k \in Len(t) + 1 .. j - 1 : ~IsEdit(q[k])
  <2>1. After(st, tree, q, Len(t)) => After(st, m.layout, Append(a, m) \o Pending, Len(a) + 1)
    BY <1>1 DEF q, b, t
  <2>2. QED
    BY <2>1 DEF After
<1>5. Telling # {}
  <2>1. Len(b) # 0
    BY <1>1, <1>3, <1>4
  <2>2. QED
    BY <2>1 DEF b, Pending
<1>6. PICK c \in Telling : TRUE
  BY <1>5
<1>7. b = <<job[c].message>>
  BY <1>6, PendingIs DEF b, Story
<1>8. Len(b) = 1 /\ b[1] = job[c].message
  BY <1>7
<1>9. j = Len(t) + 1 /\ 1 + Len(t) = j /\ 1 \in 1 .. Len(b)
  BY <1>1, <1>3, <1>4, <1>8
<1>10. q[j] = job[c].message
  BY <1>3, <1>8, <1>9
<1>11. Distinct(tree)
  BY TypeFacts DEF Proper
<1>12. Again(st, tree, q[j])
  BY <1>4, <1>5, <1>6, <1>10, <1>11 DEF Again, Story
<1>13. \A k \in Len(t) + 1 .. j - 1 : ~IsEdit(q[k])
  BY <1>1, <1>9
<1>14. QED
  BY <1>12, <1>13

\* A page that shows nothing gets the tree as it is.
LEMMA GreetBlank ==
  ASSUME TypeInv, TypeInv', ControlInv, NEW H, Story(H), NEW p \in Pages, NEW m, QuietPut(H, p, m), Connected(m), m.layout = tree,
         conn[p] # None, hs[conn[p]] = "registered", view[p] = Blank, IsBoot(p) => (Telling # {} => stale'[p])
  PROVE PageStory(H, p)'
<1> USE ControlTypes
<1>1. PageOk(H, made, Leaves(tree), stale[p], view[p], IsBoot(p), Coming(p))'
  BY PutPage
<1>2. ASSUME Tracked(p)' PROVE TrackOk(H, tree, view[p], Coming(p), Commands(p), unsynced[p])'
  <2>1. (\E i \in DOMAIN Coming(p) : GreetAt(Coming(p), i))' => \E i \in DOMAIN Coming(p)' : GreetAt(Coming(p)', i)
    BY DEF GreetAt
  <2>2. ~stale'[p] /\ IsBoot(p) /\ \E i \in DOMAIN Coming(p)' : GreetAt(Coming(p)', i)
    BY <1>2, <2>1 DEF Tracked, QuietPut, IsBoot
  <2>3. Telling = {} /\ Pending = <<>>
    BY <2>2 DEF Pending
  <2>4. conn[p] \in Conns /\ pageOf[conn[p]] = p
    BY OwnConnection
  <2>5. Incoming(p) = down[conn[p]] /\ Commands(p) = up[conn[p]]
    BY DEF Incoming, Commands
  <2>6. \A i \in DOMAIN Incoming(p) : ~Connected(Incoming(p)[i])
    BY <2>4, <2>5 DEF ControlInv, ConnControl
  <2>7. UpdatesOk(H, made, Leaves(tree), view[p], Commands(p))
    BY StoryWithin
  <2>8. \A i \in DOMAIN Commands(p) : ~IsUpdate(Commands(p)[i])
    BY <2>7 DEF UpdatesOk
  <2> DEFINE q == Incoming(p)
             q2 == Append(q, m)
             L == Leaves(tree)
             w == Commands(p)
  <2>9. q \in Seq(DownMessages(made)) /\ m \in DownMessages(made)
    BY ComingType DEF QuietPut
  <2>10. Coming(p)' = q2
    <3>1. Coming(p)' = q2 \o <<>>
      <4>1. Incoming(p)' = q2
        BY DEF QuietPut
      <4>2. Pending' = Pending
        BY TellingKept DEF QuietPut
      <4>3. Coming(p)' = Incoming(p)' \o Pending'
        BY DEF Coming
      <4> HIDE DEF q, q2
      <4>4. QED
        BY <2>3, <4>1, <4>2, <4>3
    <3>2. QED
      BY <2>9, <3>1, AppendIsJoin, Appended
  <2>11. \E i \in DOMAIN q2 : GreetAt(q2, i)
    BY <2>2, <2>10
  <2>12. \A i \in DOMAIN q : ~Connected(q[i])
    BY <2>6
  <2>13. L \in SUBSET Sessions /\ L # {} /\ Grown(H, made) /\ Sound(H, made, tree) /\ \A i \in DOMAIN w : ~IsUpdate(w[i])
    BY <2>8, TypeFacts, LeavesType DEF Proper, Story
  <2>14. IsSeq(q2) /\ Len(q2) # 0 /\ Connected(q2[Len(q2)]) /\ q2[Len(q2)].layout = tree
         /\ \A i \in 1 .. Len(q2) - 1 : q2[i].type = "disconnected"
    <3> HIDE DEF q
    <3>1. Len(q) \in Nat /\ Len(q2) = Len(q) + 1 /\ q2[Len(q) + 1] = m /\ DOMAIN q = 1 .. Len(q) /\ DOMAIN q2 = 1 .. Len(q2)
          /\ \A i \in 1 .. Len(q) : q2[i] = q[i]
      BY <2>9
    <3>2. PICK i \in DOMAIN q2 : GreetAt(q2, i)
      BY <2>11
    <3>3. i = Len(q) + 1
      BY <2>12, <3>1, <3>2 DEF GreetAt
    <3>4. \A j \in 1 .. Len(q2) - 1 : q2[j].type = "disconnected"
      BY <3>1, <3>2, <3>3 DEF GreetAt
    <3>5. IsSeq(q2) /\ Len(q2) # 0
      BY <3>1 DEF IsSeq
    <3>6. QED
      BY <3>1, <3>4, <3>5
  <2> HIDE DEF q2, L, w
  <2>15. \E ks : Follows(ks, q2, {}, L)
    <3>1. Leaves(q2[Len(q2)].layout) = L
      BY <2>14 DEF L
    <3>2. QED
      BY <2>13, <2>14, <3>1, FollowsGreet
  <2>16. \E G : Exact(H, G, tree, Blank, q2, w)
    BY <2>13, <2>14, ExactGreet
  <2>17. TrackOk(H, tree, Blank, q2, w, unsynced[p])
    BY <2>15, <2>16, ShownBlank DEF TrackOk, L
  <2>18. tree' = tree /\ view'[p] = Blank /\ Commands(p)' = w /\ unsynced'[p] = unsynced[p]
    BY DEF QuietPut, w
  <2>19. QED
    BY <2>10, <2>17, <2>18
<1>3. QED
  BY <1>1, <1>2 DEF PageStory

\* The connected message.
LEMMA GreetStory ==
  ASSUME TypeInv, TypeInv', ControlInv, NEW H, Story(H), NEW c \in Conns, Greet(c)
  PROVE Story(H)'
<1> USE ControlTypes
<1>1. PICK m : m = [type |-> "connected", token |-> token[c], layout |-> tree]
  OBVIOUS
<1>2. /\ tree' = tree /\ made' = made /\ job' = job /\ up' = up /\ pageOf' = pageOf /\ conn' = conn /\ phase' = phase
      /\ boot' = boot /\ view' = view /\ unsynced' = unsynced /\ Deliver({c}, m) /\ hs[c] = "registered"
      /\ \A p \in Pages : stale'[p] = (stale[p] \/ (p = pageOf[c] /\ boot[p] = c /\ \E d \in Conns : job[d].at = "tell"))
  BY <1>1 DEF Greet, server, pages, Lost
<1>3. TellKept
  BY <1>2 DEF TellKept
<1>4. ~Created(m) /\ ~Closed(m) /\ Connected(m) /\ ~IsEdit(m) /\ m \in DownMessages(made) /\ m.layout = tree
  <2>1. tree \in ServerTrees(made)
    BY TypeFacts DEF ServerTrees, Proper
  <2>2. m \in [type : {"connected"}, token : Conns \cup {None}, layout : ServerTrees(made)]
    BY <1>1, <2>1 DEF TypeInv
  <2>3. QED
    BY <1>1, <2>2 DEF Created, Closed, Connected, IsEdit, DownMessages
<1>5. Fits(H, made, Leaves(tree), m)
  BY <1>4 DEF Fits, Story
<1>6. ASSUME NEW p \in Pages PROVE PageStory(H, p)'
  <2>1. Incoming(p)' = IF conn[p] \in {c} THEN Append(Incoming(p), m) ELSE Incoming(p)
    <3>1. {c} \in SUBSET Conns /\ Deliver({c}, m) /\ UNCHANGED <<conn, pageOf>>
      BY <1>2
    <3>2. QED
      BY <3>1, Delivered
  <2>2. Commands(p)' = Commands(p)
    BY <1>2 DEF Commands
  <2>3. CASE conn[p] = c
    <3>1. conn[p] # None /\ pageOf[c] = p
      BY <2>3, OwnConnection
    <3>2. IsBoot(p) => (Telling # {} => stale'[p])
      BY <1>2, <2>3, <3>1 DEF IsBoot, Telling
    <3>3. IsBoot(p) => After(stale'[p], m.layout, Coming(p)', Len(Incoming(p)) + 1)
      <4>1. Coming(p)' = Append(Incoming(p), m) \o Pending
        BY <1>3, <2>1, <2>3, TellingKept DEF Coming
      <4>2. Incoming(p) \in Seq(DownMessages(made))
        BY ComingType
      <4>3. IsBoot(p) => After(stale'[p], m.layout, Append(Incoming(p), m) \o Pending, Len(Incoming(p)) + 1)
        BY <1>4, <3>2, <4>2, GreetAfter
      <4>4. QED
        BY <4>1, <4>3
    <3>4. QuietPut(H, p, m)
      BY <1>2, <1>3, <1>4, <1>5, <2>1, <2>2, <2>3, <3>3 DEF QuietPut
    <3>5. CASE view[p] = Blank
      BY <1>2, <1>4, <2>3, <3>1, <3>2, <3>4, <3>5, GreetBlank
    <3>6. CASE view[p] # Blank
      BY <3>4, <3>6, PutStory
    <3>7. QED
      BY <3>5, <3>6
  <2>4. CASE conn[p] # c
    <3>1. KeptPage(H, H, p)
      BY <1>2, <2>1, <2>4 DEF KeptPage, Incoming
    <3>2. Evolves(H, made, Leaves(tree), H, made', Leaves(tree'))
      BY <1>2, TypeFacts, Unmoved
    <3>3. QED
      BY <1>3, <3>1, <3>2, KeptPageStory
  <2>5. QED
    BY <2>3, <2>4
<1>7. \A d \in Conns : UpdatesOk(H, made, Leaves(tree), view'[pageOf'[d]], up'[d])
  BY <1>2 DEF Story
<1>8. QED
  BY <1>2, <1>3, <1>6, <1>7, StillStory

\* A page that shows something passes over messages that are no edits.
LEMMA TrackPassed ==
  ASSUME NEW H, NEW t, NEW u \in Layouts, NEW v, v = ReconstructLayout(u), NEW q, NEW w, NEW un, TrackOk(H, t, v, q, w, un),
         NEW q2, NEW a, Slice(q2, q, a), Len(q2) + a = Len(q), \A i \in 1 .. a : ~IsEdit(q[i])
  PROVE TrackOk(H, t, v, q2, w, un)
<1> DEFINE K == ShownIn(v)
           L == Leaves(t)
<1>1. v # Blank /\ K # {}
  BY ShownTree, LeavesType
<1> HIDE DEF K, L
<1>2. \E ls : Follows(ls, q2, K, L)
  <2>1. PICK ks : Follows(ks, q, K, L)
    BY DEF TrackOk, K, L
  <2>2. IsSeq(q) /\ a \in 0 .. Len(q)
    BY DEF Slice, IsSeq
  <2>3. ks[a] = K
    BY <1>1, <2>1, <2>2, FollowsNothing
  <2>4. \E ls : Follows(ls, q2, ks[a], L)
    BY <2>1, FollowsRest
  <2>5. QED
    BY <2>3, <2>4
<1>3. \A G : Exact(H, G, t, v, q, w) => Exact(H, G, t, v, q2, w)
  <2>1. v = Blank => \A i \in 1 .. a : q[i].type = "disconnected"
    BY <1>1
  <2>2. QED
    BY <2>1, ExactSlice
<1>4. QED
  BY <1>2, <1>3 DEF TrackOk, K, L

\* A page's connection ends.
LEMMA PageLost ==
  ASSUME TypeInv, ControlInv, NEW H, Story(H), NEW p \in Pages, conn[p] # None, conn' = [conn EXCEPT ![p] = None],
         tree' = tree, made' = made, TellKept, view'[p] = view[p], stale'[p] \in BOOLEAN, stale[p] => stale'[p]
  PROVE /\ PageOk(H, made, Leaves(tree), stale[p], view[p], IsBoot(p), Coming(p))'
        /\ Coming(p)' = Pending /\ Commands(p)' = <<>> /\ ~IsBoot(p)'
        /\ Slice(Pending, Coming(p), Len(Incoming(p))) /\ Len(Pending) + Len(Incoming(p)) = Len(Coming(p))
<1> USE ControlTypes
<1>1. conn'[p] = None
  OBVIOUS
<1>2. Incoming(p)' = <<>> /\ Commands(p)' = <<>> /\ ~IsBoot(p)'
  BY <1>1 DEF Incoming, Commands, IsBoot
<1>3. Pending' = Pending /\ Pending \in Seq(DownMessages(made)) /\ Incoming(p) \in Seq(DownMessages(made))
  BY TellingKept, ComingType
<1>4. Coming(p)' = Pending
  BY <1>2, <1>3, NothingBefore DEF Coming
<1>5. Slice(Pending, Coming(p), Len(Incoming(p))) /\ Len(Pending) + Len(Incoming(p)) = Len(Coming(p))
  BY <1>3, JoinedSlices DEF Coming
<1> DEFINE n == made
           L == Leaves(tree)
           st == stale[p]
           st2 == stale'[p]
           v == view[p]
           b == IsBoot(p)
           b2 == IsBoot(p)'
           q == Coming(p)
           q2 == Pending
           q3 == Coming(p)'
           a == Len(Incoming(p))
<1>6. /\ PageOk(H, n, L, st, v, b, q) /\ Slice(q2, q, a) /\ Evolves(H, n, L, H, n, L)
      /\ st \in BOOLEAN /\ st2 \in BOOLEAN /\ (st => st2) /\ b \in BOOLEAN /\ b2 = FALSE
      /\ made' = n /\ Leaves(tree') = L /\ view'[p] = v /\ q3 = q2
  BY <1>2, <1>4, <1>5, TypeFacts, Unmoved DEF Story, PageStory, TypeInv, IsBoot
<1> HIDE DEF n, L, st, st2, v, b, b2, q, q2, q3, a
<1>7. PageOk(H, n, L, st, v, b, q2)
  BY <1>6, SlicePage
<1>8. PageOk(H, n, L, st2, v, b2, q2)
  <2>1. b2 \in BOOLEAN /\ (b2 => b)
    BY <1>6
  <2>2. QED
    BY <1>6, <1>7, <2>1, PageEvolves
<1>9. PageOk(H, made', Leaves(tree'), st2, view'[p], b2, q3)
  BY <1>6, <1>8
<1>10. PageOk(H, made, Leaves(tree), stale[p], view[p], IsBoot(p), Coming(p))'
  BY <1>9 DEF st2, b2, q3
<1>11. QED
  BY <1>2, <1>4, <1>5, <1>10

\* ws.onclose.
LEMMA LoseTabStory ==
  ASSUME TypeInv, TypeInv', ControlInv, NEW H, Story(H), NEW p \in Pages, LoseTab(p)
  PROVE Story(H)'
<1> USE ControlTypes
<1>1. PICK c : c = conn[p]
  OBVIOUS
<1>2. c # None /\ c \in Conns /\ pageOf[c] = p /\ conn[p] = c /\ \A r \in Pages : r # p => conn[r] # c
  BY <1>1, OwnConnection DEF LoseTab
<1>3. /\ tree' = tree /\ made' = made /\ job' = job /\ up' = up /\ pageOf' = pageOf /\ boot' = boot /\ view' = view
      /\ conn' = [conn EXCEPT ![p] = None] /\ down' = [down EXCEPT ![c] = <<>>]
      /\ unsynced' = [unsynced EXCEPT ![p] = @ \/ HasUpdate(c)]
      /\ \A r \in Pages : r # p => phase'[r] = phase[r] /\ stale'[r] = stale[r]
      /\ stale'[p] = (stale[p] \/ HasEdit(c))
  BY <1>1 DEF LoseTab, server, handlers, Lost
<1>4. TellKept
  BY <1>3 DEF TellKept
<1>5. OnePage(H, p)
  BY <1>2, <1>3, <1>4 DEF OnePage, KeptPage
<1>6. \A d \in Conns : UpdatesOk(H, made, Leaves(tree), view'[pageOf'[d]], up'[d])
  BY <1>3 DEF Story
<1>7. stale'[p] \in BOOLEAN
  BY DEF TypeInv
<1>8. /\ PageOk(H, made, Leaves(tree), stale[p], view[p], IsBoot(p), Coming(p))'
      /\ Coming(p)' = Pending /\ Commands(p)' = <<>> /\ ~IsBoot(p)'
      /\ Slice(Pending, Coming(p), Len(Incoming(p))) /\ Len(Pending) + Len(Incoming(p)) = Len(Coming(p))
  BY <1>2, <1>3, <1>4, <1>7, PageLost
<1>9. ASSUME Tracked(p)' PROVE TrackOk(H, tree, view[p], Coming(p), Commands(p), unsynced[p])'
  <2>1. ~stale[p] /\ ~HasEdit(c) /\ view[p] # Blank /\ phase[p] # "gone"
    BY <1>2, <1>3, <1>8, <1>9 DEF Tracked, ControlInv, PageControl
  <2>2. TrackOk(H, tree, view[p], Coming(p), Commands(p), unsynced[p])
    BY <2>1 DEF Tracked, Story, PageStory
  <2>3. PICK u \in Layouts : view[p] = ReconstructLayout(u)
    BY <2>1 DEF Story, PageStory, PageOk
  <2>4. Incoming(p) = down[c] /\ Commands(p) = up[c]
    BY <1>2 DEF Incoming, Commands
  <2>5. \A i \in 1 .. Len(Incoming(p)) : ~IsEdit(Coming(p)[i])
    <3>1. IsJoined(DownMessages(made), Coming(p), Incoming(p), Pending)
      BY ComingType, Joining DEF Coming
    <3>2. DOMAIN Incoming(p) = 1 .. Len(Incoming(p))
      BY ComingType, SeqIs DEF IsSeq
    <3>3. \A i \in 1 .. Len(Incoming(p)) : Coming(p)[i] = Incoming(p)[i]
      BY <3>1 DEF IsJoined
    <3>4. QED
      BY <2>1, <2>4, <3>2, <3>3 DEF HasEdit
  <2> DEFINE v == view[p]
             q == Coming(p)
             q2 == Pending
             w == Commands(p)
             a == Len(Incoming(p))
             un == unsynced[p]
             un2 == unsynced'[p]
  <2>6. /\ TrackOk(H, tree, v, q, w, un) /\ v = ReconstructLayout(u) /\ Slice(q2, q, a) /\ Len(q2) + a = Len(q)
        /\ \A i \in 1 .. a : ~IsEdit(q[i])
        /\ ~un2 => ~un /\ \A i \in DOMAIN w : ~IsUpdate(w[i])
    BY <1>3, <1>8, <2>2, <2>3, <2>4, <2>5 DEF HasUpdate, IsUpdate
  <2>7. tree' = tree /\ view'[p] = v /\ Coming(p)' = q2 /\ Commands(p)' = <<>> /\ unsynced'[p] = un2
    BY <1>3, <1>8
  <2> HIDE DEF v, q, q2, w, a, un, un2
  <2>8. TrackOk(H, tree, v, q2, w, un)
    BY <2>6, TrackPassed
  <2>9. ~un2 => \E G : Exact(H, G, tree, v, q2, <<>>)
    <3>1. SUFFICES ASSUME ~un2 PROVE \E G : Exact(H, G, tree, v, q2, <<>>)
      OBVIOUS
    <3>2. PICK G : Exact(H, G, tree, v, q2, w)
      BY <2>6, <2>8, <3>1 DEF TrackOk
    <3>3. Exact(H, G, tree, v, q2, <<>>)
      BY <2>6, <3>1, <3>2, ExactUnsent
    <3>4. QED
      BY <3>3
  <2>10. TrackOk(H, tree, v, q2, <<>>, un2)
    BY <2>8, <2>9 DEF TrackOk
  <2>11. QED
    BY <2>7, <2>10
<1>10. PageStory(H, p)'
  BY <1>8, <1>9 DEF PageStory
<1>11. QED
  BY <1>5, <1>6, <1>10, OnePageStory

\* A step of Receive that keeps the connection.
ReceiveStep(p) ==
  /\ conn[p] # None /\ down[conn[p]] # <<>> /\ down' = [down EXCEPT ![conn[p]] = Tail(@)]
  /\ UNCHANGED <<server, handlers, up, pageOf, boot, unsynced, sent, conn>>
  /\ view' = [view EXCEPT ![p] = view'[p]]
  /\ \A r \in Pages : r # p => phase'[r] = phase[r] /\ stale'[r] = stale[r]
  /\ (stale[p] => stale'[p]) /\ stale'[p] \in BOOLEAN

\* The first of the messages on their way is received.
LEMMA Received ==
  ASSUME TypeInv, ControlInv, NEW p \in Pages, ReceiveStep(p)
  PROVE /\ Slice(Coming(p)', Coming(p), 1) /\ Len(Coming(p)') + 1 = Len(Coming(p)) /\ Coming(p)[1] = Head(down[conn[p]])
        /\ 1 \in DOMAIN Coming(p) /\ Head(down[conn[p]]) \in DownMessages(made)
        /\ Commands(p)' = Commands(p) /\ (IsBoot(p)' <=> IsBoot(p)) /\ TellKept
        /\ tree' = tree /\ made' = made /\ unsynced' = unsynced
<1> USE ControlTypes
<1>1. /\ conn[p] \in Conns /\ conn' = conn /\ boot' = boot /\ job' = job /\ tree' = tree /\ made' = made /\ up' = up
      /\ unsynced' = unsynced
  BY OwnConnection DEF ReceiveStep, server, handlers
<1>2. TellKept
  BY <1>1 DEF TellKept
<1>3. Pending' = Pending /\ Pending \in Seq(DownMessages(made)) /\ Incoming(p) \in Seq(DownMessages(made))
  BY <1>2, TellingKept, ComingType
<1> DEFINE S == DownMessages(made)
           a == Incoming(p)
           b == Pending
<1>4. a = down[conn[p]] /\ Incoming(p)' = Tail(a) /\ a # <<>>
  BY <1>1 DEF ReceiveStep, Incoming
<1>5. Coming(p) = a \o b /\ Coming(p)' = Tail(a) \o b
  BY <1>3, <1>4 DEF Coming
<1>6. a \in Seq(S) /\ b \in Seq(S)
  BY <1>3
<1>7. Head(down[conn[p]]) \in S
  BY <1>4, <1>6, HeadAndTail
<1>8. Commands(p)' = Commands(p) /\ (IsBoot(p)' <=> IsBoot(p))
  BY <1>1 DEF Commands, IsBoot
<1> HIDE DEF S, b
<1>9. /\ Slice(Tail(a) \o b, a \o b, 1) /\ Len(Tail(a) \o b) + 1 = Len(a \o b) /\ (a \o b)[1] = Head(a)
  BY <1>4, <1>6, TailSlice
<1>10. 1 \in DOMAIN (a \o b)
  BY <1>9 DEF Slice, IsSeq
<1>11. QED
  BY <1>1, <1>2, <1>4, <1>5, <1>7, <1>8, <1>9, <1>10 DEF S

\* The pages that do not receive it, and the updates.
LEMMA ReceiveRest ==
  ASSUME TypeInv, TypeInv', ControlInv, NEW H, Story(H), NEW p \in Pages, ReceiveStep(p), PageStory(H, p)',
         view[p] # Blank => view'[p] # Blank
  PROVE Story(H)'
<1> USE ControlTypes
<1>1. /\ conn[p] \in Conns /\ conn' = conn /\ boot' = boot /\ job' = job /\ tree' = tree /\ made' = made /\ up' = up
      /\ unsynced' = unsynced /\ pageOf' = pageOf /\ \A r \in Pages : r # p => conn[r] # conn[p]
  BY OwnConnection DEF ReceiveStep, server, handlers
<1>2. TellKept
  BY Received
<1>3. OnePage(H, p)
  BY <1>1, <1>2 DEF OnePage, KeptPage, ReceiveStep
<1>4. \A d \in Conns : UpdatesOk(H, made, Leaves(tree), view'[pageOf'[d]], up'[d])
  <2>1. SUFFICES ASSUME NEW d \in Conns PROVE UpdatesOk(H, made, Leaves(tree), view'[pageOf[d]], up[d])
    BY <1>1
  <2> DEFINE n == made
             L == Leaves(tree)
             v == view[pageOf[d]]
             v2 == view'[pageOf[d]]
             w == up[d]
  <2>2. UpdatesOk(H, n, L, v, w) /\ Evolves(H, n, L, H, n, L)
    BY TypeFacts, Unmoved DEF Story
  <2>3. CASE pageOf[d] = None
    BY <2>3, NoUpdates
  <2>4. CASE pageOf[d] \in Pages
    <3>1. DOMAIN view = Pages
      OBVIOUS
    <3>2. v # Blank => v2 # Blank
      BY <2>4, <3>1 DEF ReceiveStep
    <3> HIDE DEF n, L, v, v2, w
    <3>3. UpdatesOk(H, n, L, v2, w)
      BY <2>2, <3>2, UpdatesEvolve
    <3>4. QED
      BY <3>3 DEF n, L, v2, w
  <2>5. QED
    BY <2>3, <2>4
<1>5. QED
  BY <1>3, <1>4, OnePageStory

\* The page's tree stays.
LEMMA PassedPage ==
  ASSUME TypeInv, ControlInv, NEW H, Story(H), NEW p \in Pages, ReceiveStep(p), view'[p] = view[p]
  PROVE PageOk(H, made, Leaves(tree), stale[p], view[p], IsBoot(p), Coming(p))'
<1>0. Slice(Coming(p)', Coming(p), 1) /\ (IsBoot(p)' <=> IsBoot(p)) /\ tree' = tree /\ made' = made
  BY Received
<1> DEFINE n == made
           L == Leaves(tree)
           st == stale[p]
           st2 == stale'[p]
           v == view[p]
           b == IsBoot(p)
           b2 == IsBoot(p)'
           q == Coming(p)
           q2 == Coming(p)'
<1>1. /\ PageOk(H, n, L, st, v, b, q) /\ Slice(q2, q, 1) /\ Evolves(H, n, L, H, n, L)
      /\ st \in BOOLEAN /\ st2 \in BOOLEAN /\ (st => st2) /\ b \in BOOLEAN /\ b2 = b
      /\ made' = n /\ Leaves(tree') = L /\ view'[p] = v
  BY <1>0, TypeFacts, Unmoved DEF Story, PageStory, TypeInv, IsBoot, ReceiveStep
<1> HIDE DEF n, L, st, st2, v, b, b2, q, q2
<1>2. PageOk(H, n, L, st, v, b, q2)
  BY <1>1, SlicePage
<1>3. PageOk(H, n, L, st2, v, b, q2)
  BY <1>1, <1>2, PageEvolves
<1>4. PageOk(H, made', Leaves(tree'), st2, view'[p], b2, q2)
  BY <1>1, <1>3
<1>5. QED
  BY <1>4 DEF st2, b2, q2

\* The page gets its layout.
LEMMA GreetedPage ==
  ASSUME NEW H, NEW n, NEW L, NEW st, NEW q, PageOk(H, n, L, st, Blank, TRUE, q), NEW q2, Slice(q2, q, 1),
         1 \in DOMAIN q, Connected(q[1]), NEW b2
  PROVE q[1].layout \in Layouts /\ PageOk(H, n, L, st, ReconstructLayout(q[1].layout), b2, q2)
<1> DEFINE u == q[1].layout
<1>1. QueueOk(H, n, L, q) /\ After(st, u, q, 1) /\ Sound(H, n, u) /\ u \in Layouts
  BY DEF PageOk, QueueOk, Fits, Sound, Proper
<1>2. QueueOk(H, n, L, q2)
  BY <1>1, SliceQueue
<1> HIDE DEF u
<1>3. After(st, u, q2, 0)
  <2>1. 0 \in Nat /\ 0 + 1 = 1
    OBVIOUS
  <2>2. QED
    BY <1>1, <2>1, SliceAfter
<1>4. ReconstructLayout(u) # Blank
  BY <1>1, ShownTree
<1>5. PageOk(H, n, L, st, ReconstructLayout(u), b2, q2)
  BY <1>1, <1>2, <1>3, <1>4 DEF PageOk, ViewOk
<1>6. QED
  BY <1>1, <1>5 DEF u

\* A page that was blank gets its layout.
LEMMA GreetedTrack ==
  ASSUME NEW H, NEW t, NEW q, NEW w, NEW un, TrackOk(H, t, Blank, q, w, un), NEW q2, Slice(q2, q, 1), Len(q2) + 1 = Len(q),
         Connected(q[1]), q[1].layout \in Layouts
  PROVE TrackOk(H, t, ReconstructLayout(q[1].layout), q2, w, un)
<1> DEFINE u == q[1].layout
           v == ReconstructLayout(u)
           L == Leaves(t)
<1>1. ShownIn(v) = Leaves(u) /\ v # Blank
  BY ShownTree
<1>2. 1 \in DOMAIN q /\ IsSeq(q)
  BY DEF Slice, IsSeq
<1>3. \E ls : Follows(ls, q2, Leaves(u), L)
  <2>1. PICK ks : Follows(ks, q, {}, L)
    BY ShownBlank DEF TrackOk
  <2>2. ks[1] = Shows(ks[1 - 1], q[1]) /\ ks[0] = {}
    BY <1>2, <2>1 DEF Follows
  <2>3. ks[1] = Leaves(u)
    <3>1. ks[1 - 1] = {}
      BY <2>2
    <3>2. QED
      BY <2>2, <3>1 DEF Shows, Connected, Created, Closed
  <2>4. \E ls : Follows(ls, q2, ks[1], L)
    BY <2>1, FollowsRest
  <2>5. QED
    BY <2>3, <2>4
<1>4. ASSUME NEW G, Exact(H, G, t, Blank, q, w) PROVE Exact(H, G, t, v, q2, w)
  <2>1. Left(G, u)
    BY <1>2, <1>4 DEF Exact, GreetAt
  <2> HIDE DEF u
  <2>2. u \in Layouts
    BY DEF u
  <2>3. QED
    BY <1>4, <2>1, <2>2, ExactView
<1> HIDE DEF u, L, v
<1>5. TrackOk(H, t, v, q2, w, un)
  BY <1>1, <1>3, <1>4 DEF TrackOk, L
<1>6. QED
  BY <1>5 DEF v, u

\* A page that waits for its layout is told that somebody else has the tab.
LEMMA DisconnectedTrack ==
  ASSUME NEW H, NEW t, NEW v, NEW q, NEW w, NEW un, TrackOk(H, t, v, q, w, un), NEW q2, Slice(q2, q, 1), Len(q2) + 1 = Len(q),
         q[1].type = "disconnected"
  PROVE TrackOk(H, t, v, q2, w, un)
<1> DEFINE K == ShownIn(v)
           L == Leaves(t)
<1> HIDE DEF K, L
<1>1. 1 \in DOMAIN q /\ IsSeq(q)
  BY DEF Slice, IsSeq
<1>2. \E ls : Follows(ls, q2, K, L)
  <2>1. PICK ks : Follows(ks, q, K, L)
    BY DEF TrackOk, K, L
  <2>2. ks[1] = Shows(K, q[1])
    BY <1>1, <2>1 DEF Follows
  <2>3. ks[1] = K
    BY <2>2 DEF Shows, Connected, Created, Closed
  <2>4. \E ls : Follows(ls, q2, ks[1], L)
    BY <2>1, FollowsRest
  <2>5. QED
    BY <2>3, <2>4
<1>3. \A i \in 1 .. 1 : q[i].type = "disconnected"
  OBVIOUS
<1>4. \A G : Exact(H, G, t, v, q, w) => Exact(H, G, t, v, q2, w)
  BY <1>3, ExactSlice
<1>5. QED
  BY <1>2, <1>4 DEF TrackOk, K, L

\* A page that shows a tree edits it.
LEMMA LivePage ==
  ASSUME NEW H, NEW n, NEW L, NEW st, NEW v, NEW b, NEW q, PageOk(H, n, L, st, v, b, q), NEW q2, Slice(q2, q, 1),
         NEW u, NEW m, NEW w \in Layouts, Applied(H, n, L, st, u, w, m, q2), NEW b2
  PROVE PageOk(H, n, L, st, ReconstructLayout(w), b2, q2)
<1>1. QueueOk(H, n, L, q2)
  BY SliceQueue DEF PageOk
<1>2. ReconstructLayout(w) # Blank /\ ViewOk(H, n, L, st, w, q2)
  BY ShownTree DEF Applied
<1>3. QED
  BY <1>1, <1>2 DEF PageOk

\* A page applies an edit.
LEMMA LiveTrack ==
  ASSUME NEW H, NEW n, NEW L, NEW t, NEW u \in Layouts, NEW q, NEW c, NEW un, TrackOk(H, t, ReconstructLayout(u), q, c, un),
         NEW q2, Slice(q2, q, 1), Len(q2) + 1 = Len(q), NEW m, m = q[1], NEW st, ~st, NEW w \in Layouts,
         Applied(H, n, L, st, u, w, m, q2)
  PROVE TrackOk(H, t, ReconstructLayout(w), q2, c, un)
<1> DEFINE v == ReconstructLayout(u)
           K == Leaves(u)
           M == Leaves(t)
<1>1. 1 \in DOMAIN q /\ IsSeq(q)
  BY DEF Slice, IsSeq
<1>2. ShownIn(v) = K /\ ShownIn(ReconstructLayout(w)) = Leaves(w)
  BY ShownTree
<1>3. /\ Leaves(w) = Shows(K, m)
      /\ \A G : Plain(G) = H /\ Left(G, u) /\ (Created(m) => Born(G, m)) /\ LastOne(K, m) => Left(G, w)
  BY DEF Applied
<1> HIDE DEF v, K, M
<1>4. PICK ks : Follows(ks, q, K, M)
  BY <1>2 DEF TrackOk, M, v
<1>5. ks[1] = Shows(K, m) /\ LastOne(K, m)
  BY <1>1, <1>4 DEF Follows
<1>6. \E ls : Follows(ls, q2, Leaves(w), M)
  <2>1. ks[1] = Leaves(w)
    BY <1>3, <1>5
  <2>2. \E ls : Follows(ls, q2, ks[1], M)
    BY <1>4, FollowsRest
  <2>3. QED
    BY <2>1, <2>2
<1>7. ASSUME NEW G, Exact(H, G, t, v, q, c) PROVE Exact(H, G, t, ReconstructLayout(w), q2, c)
  <2>1. Plain(G) = H /\ Left(G, u) /\ (Created(m) => Born(G, m))
    BY <1>1, <1>7 DEF Exact, v
  <2>2. Left(G, w)
    BY <1>3, <1>5, <2>1
  <2>3. QED
    BY <1>7, <2>2, ExactView
<1>8. QED
  BY <1>2, <1>6, <1>7 DEF TrackOk, M, v

\* The message received.
First(p) == Head(down[conn[p]])

\* The disjuncts of Receive.
Greeted(p) ==
  /\ phase[p] \in {"first", "prompted"} /\ Connected(First(p)) /\ phase'[p] = "live" /\ stale'[p] = stale[p]
  /\ IsBoot(p) => view'[p] = ReconstructLayout(First(p).layout)
  /\ ~IsBoot(p) => view'[p] = view[p]
Ignored(p) ==
  /\ phase[p] \in {"prompted", "deaf"} \/ phase'[p] = "deaf"
  /\ phase[p] \in {"first", "prompted", "deaf"} /\ (phase[p] = "prompted" => ~Connected(First(p)) /\ phase'[p] = "prompted")
  /\ phase'[p] \in {"prompted", "deaf"} /\ (phase'[p] = "prompted" => phase[p] = "prompted")
  /\ stale'[p] = (stale[p] \/ IsEdit(First(p))) /\ view'[p] = view[p]
Edited(p) ==
  /\ phase[p] = "live" /\ phase'[p] = "live" /\ view'[p] = View(p, First(p)) /\ stale'[p] = stale[p]
Severed(p) ==
  /\ conn[p] # None /\ conn' = [conn EXCEPT ![p] = None] /\ phase' = [phase EXCEPT ![p] = "gone"]
  /\ down' = [down EXCEPT ![conn[p]] = <<>>]
  /\ UNCHANGED <<server, handlers, up, pageOf, boot, unsynced, sent, view, stale>>

\* What receiving can do.
LEMMA ReceiveCases ==
  ASSUME TypeInv, ControlInv, NEW p \in Pages, Receive(p)
  PROVE (ReceiveStep(p) /\ (Greeted(p) \/ Ignored(p) \/ Edited(p))) \/ Severed(p)
<1> USE ControlTypes
<1> DEFINE c == conn[p]
           m == Head(down[c])
<1>1. c # None /\ c \in Conns /\ down[c] # <<>> /\ UNCHANGED <<server, handlers, up, pageOf, boot, unsynced, sent>>
  BY DEF Receive
<1>2. down' = [down EXCEPT ![c] = IF conn'[p] = None THEN <<>> ELSE Tail(@)]
  BY DEF Receive
<1>3. \A f : (f = [r \in Pages |-> f[r]]) => f = [f EXCEPT ![p] = f[p]]
  OBVIOUS
<1>4. view = [view EXCEPT ![p] = view[p]]
  BY <1>3 DEF TypeInv
<1>5. CASE /\ phase[p] \in {"first", "prompted"} /\ m.type = "connected"
           /\ phase' = [phase EXCEPT ![p] = "live"]
           /\ known' = [known EXCEPT ![p] = m.token]
           /\ view' = [view EXCEPT ![p] = IF c = boot[p] THEN ReconstructLayout(m.layout) ELSE @]
           /\ UNCHANGED <<conn, stale>>
  <2>1. view'[p] = IF c = boot[p] THEN ReconstructLayout(m.layout) ELSE view[p]
    BY <1>5
  <2>2. view' = [view EXCEPT ![p] = view'[p]]
    BY <1>5, <2>1
  <2>3. ReceiveStep(p)
    BY <1>1, <1>2, <1>5, <2>2 DEF ReceiveStep
  <2>4. Greeted(p)
    BY <1>1, <1>5, <2>1 DEF Greeted, First, Connected, IsBoot
  <2>5. QED
    BY <2>3, <2>4
<1>6. CASE /\ phase[p] \in {"first", "prompted", "deaf"} /\ (m.type # "connected" \/ phase[p] = "deaf")
           /\ phase' = [phase EXCEPT ![p] = IF @ = "first" THEN "deaf" ELSE @]
           /\ Lost(IF IsEdit(m) THEN {p} ELSE {})
           /\ UNCHANGED <<conn, known, view>>
  <2>1. /\ stale'[p] = (stale[p] \/ IsEdit(m)) /\ stale'[p] \in BOOLEAN
        /\ \A r \in Pages : r # p => stale'[r] = stale[r]
    BY <1>6 DEF Lost, IsEdit
  <2>2. view' = [view EXCEPT ![p] = view'[p]]
    BY <1>4, <1>6
  <2>3. ReceiveStep(p)
    BY <1>1, <1>2, <1>6, <2>1, <2>2 DEF ReceiveStep
  <2>4. Ignored(p)
    BY <1>6, <2>1 DEF Ignored, First, Connected
  <2>5. QED
    BY <2>3, <2>4
<1>7. CASE /\ phase[p] = "live" /\ m.type # "disconnected"
           /\ view' = [view EXCEPT ![p] = View(p, m)]
           /\ UNCHANGED <<conn, phase, known, stale>>
  <2> DEFINE v == View(p, m)
  <2>1. view' = [view EXCEPT ![p] = v]
    BY <1>7
  <2> HIDE DEF v
  <2>2. view'[p] = v /\ view' = [view EXCEPT ![p] = view'[p]]
    BY <2>1
  <2>3. ReceiveStep(p)
    BY <1>1, <1>2, <1>7, <2>2 DEF ReceiveStep
  <2>4. Edited(p)
    BY <1>7, <2>2 DEF Edited, First, v
  <2>5. QED
    BY <2>3, <2>4
<1>8. CASE /\ phase[p] = "live" /\ m.type = "disconnected"
           /\ conn' = [conn EXCEPT ![p] = None]
           /\ phase' = [phase EXCEPT ![p] = "gone"]
           /\ UNCHANGED <<known, view, stale>>
  <2>1. conn'[p] = None
    BY <1>8
  <2>2. Severed(p)
    BY <1>1, <1>2, <1>8, <2>1 DEF Severed
  <2>3. QED
    BY <2>2
<1>9. QED
  BY <1>5, <1>6, <1>7, <1>8 DEF Receive

-----------------------------------------------------------------------------
\* The first disjunct: connected.
LEMMA GreetedStory ==
  ASSUME TypeInv, TypeInv', ControlInv, NEW H, Story(H), NEW p \in Pages, ReceiveStep(p), Greeted(p)
  PROVE PageStory(H, p)' /\ (view[p] # Blank => view'[p] # Blank)
<1> USE ControlTypes
<1>0. /\ Slice(Coming(p)', Coming(p), 1) /\ Len(Coming(p)') + 1 = Len(Coming(p)) /\ Coming(p)[1] = First(p)
      /\ 1 \in DOMAIN Coming(p) /\ Connected(First(p)) /\ First(p) \in DownMessages(made)
      /\ Commands(p)' = Commands(p) /\ (IsBoot(p)' <=> IsBoot(p)) /\ tree' = tree /\ made' = made /\ unsynced' = unsynced
  BY Received DEF First, Greeted
<1> DEFINE st == stale[p]
           st2 == stale'[p]
           v == view[p]
           v2 == view'[p]
           b == IsBoot(p)
           b2 == IsBoot(p)'
           q == Coming(p)
           q2 == Coming(p)'
           w == Commands(p)
           w2 == Commands(p)'
           un == unsynced[p]
           un2 == unsynced'[p]
           m == First(p)
           L == Leaves(tree)
<1>1. CASE IsBoot(p)
  <2>1. v = Blank /\ v2 = ReconstructLayout(m.layout) /\ st2 = st
    BY <1>1 DEF Greeted, ControlInv, PageControl
  <2>2. PageOk(H, made, L, st, v, TRUE, q)
    <3>1. (IsBoot(p) <=> TRUE) /\ IsBoot(p) \in BOOLEAN
      BY <1>1 DEF IsBoot
    <3>2. PageOk(H, made, L, st, v, b, q)
      BY DEF Story, PageStory
    <3>3. QED
      BY <3>1, <3>2
  <2>3. ASSUME Tracked(p)' PROVE TrackOk(H, tree, v, q, w, un)
    <3>1. ~st /\ GreetAt(q, 1)
      BY <1>0, <2>1, <2>3 DEF Tracked, GreetAt
    <3>2. Tracked(p)
      BY <1>0, <1>1, <3>1 DEF Tracked, Greeted
    <3>3. QED
      BY <3>2 DEF Story, PageStory
  <2>4. /\ Slice(q2, q, 1) /\ Len(q2) + 1 = Len(q) /\ q[1] = m /\ Connected(m) /\ 1 \in DOMAIN q
        /\ w2 = w /\ un2 = un /\ Leaves(tree') = L /\ made' = made /\ tree' = tree
    BY <1>0
  <2> DEFINE T == Tracked(p)'
  <2>5. T => TrackOk(H, tree, v, q, w, un)
    BY <2>3
  <2>6. PageStory(H, p)' <=> PageOk(H, made', Leaves(tree'), st2, v2, b2, q2) /\ (T => TrackOk(H, tree', v2, q2, w2, un2))
    BY DEF PageStory
  <2> HIDE DEF st, st2, v, v2, b2, q, q2, w, w2, un, un2, m, L, T
  <2>7. m.layout \in Layouts /\ PageOk(H, made, L, st, v2, b2, q2)
    BY <2>1, <2>2, <2>4, GreetedPage
  <2>8. T => TrackOk(H, tree, v2, q2, w, un)
    BY <2>1, <2>4, <2>5, <2>7, GreetedTrack
  <2>9. PageStory(H, p)'
    BY <2>1, <2>4, <2>6, <2>7, <2>8
  <2>10. QED
    BY <2>1, <2>9 DEF v
<1>2. CASE ~IsBoot(p)
  <2>1. v2 = v /\ st2 = st /\ phase'[p] = "live"
    BY <1>2 DEF Greeted
  <2>2. PageOk(H, made, Leaves(tree), stale[p], view[p], IsBoot(p), Coming(p))'
    BY <2>1, PassedPage
  <2>3. ASSUME Tracked(p)' PROVE TrackOk(H, tree, v, q, w, un) /\ \E u \in Layouts : v = ReconstructLayout(u)
    <3>1. ~st /\ v # Blank
      BY <2>1, <2>3 DEF Tracked
    <3>2. Tracked(p)
      BY <3>1 DEF Tracked, Greeted
    <3>3. QED
      BY <3>1, <3>2 DEF Story, PageStory, PageOk
  <2>4. /\ Slice(q2, q, 1) /\ Len(q2) + 1 = Len(q) /\ ~IsEdit(q[1])
        /\ w2 = w /\ un2 = un /\ tree' = tree
    BY <1>0 DEF IsEdit, Connected
  <2> DEFINE T == Tracked(p)'
  <2>5. T => TrackOk(H, tree, v, q, w, un) /\ \E u \in Layouts : v = ReconstructLayout(u)
    BY <2>3
  <2>6. PageStory(H, p)' <=> PageOk(H, made, Leaves(tree), stale[p], view[p], IsBoot(p), Coming(p))'
                             /\ (T => TrackOk(H, tree', v2, q2, w2, un2))
    BY DEF PageStory
  <2> HIDE DEF st, st2, v, v2, q, q2, w, w2, un, un2, T
  <2>7. \A i \in 1 .. 1 : ~IsEdit(q[i])
    BY <2>4
  <2>8. T => TrackOk(H, tree, v, q2, w, un)
    BY <2>4, <2>5, <2>7, TrackPassed
  <2>9. PageStory(H, p)'
    BY <2>1, <2>2, <2>4, <2>6, <2>8
  <2>10. QED
    BY <2>1, <2>9 DEF v, v2
<1>3. QED
  BY <1>1, <1>2

\* The second: a message the page does not look at.
LEMMA IgnoredStory ==
  ASSUME TypeInv, TypeInv', ControlInv, NEW H, Story(H), NEW p \in Pages, ReceiveStep(p), Ignored(p)
  PROVE PageStory(H, p)'
<1> USE ControlTypes
<1>0. /\ Slice(Coming(p)', Coming(p), 1) /\ Len(Coming(p)') + 1 = Len(Coming(p)) /\ Coming(p)[1] = First(p)
      /\ 1 \in DOMAIN Coming(p) /\ First(p) \in DownMessages(made)
      /\ Commands(p)' = Commands(p) /\ (IsBoot(p)' <=> IsBoot(p)) /\ tree' = tree /\ made' = made /\ unsynced' = unsynced
  BY Received DEF First
<1> DEFINE st == stale[p]
           st2 == stale'[p]
           v == view[p]
           v2 == view'[p]
           q == Coming(p)
           q2 == Coming(p)'
           w == Commands(p)
           w2 == Commands(p)'
           un == unsynced[p]
           un2 == unsynced'[p]
           m == First(p)
<1>1. v2 = v
  BY DEF Ignored
<1>2. PageOk(H, made, Leaves(tree), stale[p], view[p], IsBoot(p), Coming(p))'
  BY <1>1, PassedPage
<1>3. /\ Slice(q2, q, 1) /\ Len(q2) + 1 = Len(q) /\ q[1] = m
      /\ w2 = w /\ un2 = un /\ tree' = tree
  BY <1>0
<1>4. made \in Nat /\ m \in DownMessages(made)
  BY <1>0, TypeFacts
<1>5. ASSUME Tracked(p)' PROVE TrackOk(H, tree', v2, q2, w2, un2)
  <2>1. ~st /\ ~IsEdit(m) /\ phase[p] # "gone"
    BY <1>5 DEF Tracked, Ignored
  <2>2. CASE v # Blank
    <3>1. Tracked(p)
      BY <2>1, <2>2 DEF Tracked
    <3>2. TrackOk(H, tree, v, q, w, un) /\ \E u \in Layouts : v = ReconstructLayout(u)
      BY <2>2, <3>1 DEF Story, PageStory, PageOk
    <3>3. ~IsEdit(q[1])
      BY <1>3, <2>1
    <3> HIDE DEF st, st2, v, v2, q, q2, w, w2, un, un2, m
    <3>4. \A i \in 1 .. 1 : ~IsEdit(q[i])
      BY <3>3
    <3>5. TrackOk(H, tree, v, q2, w, un)
      BY <1>3, <3>2, <3>4, TrackPassed
    <3>6. QED
      BY <1>1, <1>3, <3>5
  <2>3. CASE v = Blank
    <3>1. IsBoot(p)' /\ phase'[p] \in {"first", "prompted"} /\ \E i \in DOMAIN q2 : GreetAt(q2, i)
      BY <1>1, <1>5, <2>3 DEF Tracked, GreetAt
    <3>2. IsBoot(p) /\ phase[p] = "prompted" /\ ~Connected(m)
      BY <1>0, <3>1 DEF Ignored
    <3>3. m.type = "disconnected"
      BY <1>4, <2>1, <3>2, DownFields DEF IsEdit, Connected
    <3>4. q[1].type = "disconnected"
      BY <1>3, <3>3
    <3>5. PICK i \in DOMAIN q2 : GreetAt(q2, i)
      BY <3>1
    <3>6. \E k \in DOMAIN q : GreetAt(q, k)
      <4> HIDE DEF q, q2
      <4>1. /\ Len(q2) \in Nat /\ Len(q) \in Nat /\ DOMAIN q2 = 1 .. Len(q2) /\ DOMAIN q = 1 .. Len(q)
            /\ Len(q2) + 1 = Len(q) /\ \A j \in 1 .. Len(q2) : q2[j] = q[j + 1]
        BY <1>3 DEF Slice, IsSeq
      <4>2. i \in Nat /\ i >= 1 /\ i + 1 \in DOMAIN q /\ q[i + 1] = q2[i]
        BY <3>5, <4>1
      <4>3. ASSUME NEW j \in 1 .. (i + 1) - 1 PROVE q[j].type = "disconnected"
        <5>1. CASE j = 1
          BY <3>4, <5>1
        <5>2. CASE j # 1
          <6>1. j - 1 \in 1 .. i - 1 /\ j - 1 \in 1 .. Len(q2) /\ (j - 1) + 1 = j
            BY <3>5, <4>1, <4>2, <5>2
          <6>2. q2[j - 1] = q[j] /\ q2[j - 1].type = "disconnected"
            BY <3>5, <4>1, <6>1 DEF GreetAt
          <6>3. QED
            BY <6>2
        <5>3. QED
          BY <5>1, <5>2
      <4>4. GreetAt(q, i + 1)
        BY <3>5, <4>2, <4>3 DEF GreetAt
      <4>5. QED
        BY <4>2, <4>4
    <3>7. Tracked(p)
      BY <2>1, <3>2, <3>6 DEF Tracked
    <3>8. TrackOk(H, tree, v, q, w, un)
      BY <3>7 DEF Story, PageStory
    <3> HIDE DEF st, st2, v, v2, q, q2, w, w2, un, un2, m
    <3>9. TrackOk(H, tree, v, q2, w, un)
      BY <1>3, <3>4, <3>8, DisconnectedTrack
    <3>10. QED
      BY <1>1, <1>3, <3>9
  <2>4. QED
    BY <2>2, <2>3
<1>6. QED
  BY <1>2, <1>5 DEF PageStory

-----------------------------------------------------------------------------
\* The third: the page applies the message to its tree.
LEMMA NothingToEdit == \A m : EditOf(Blank, m) = Blank
<1>1. \A s : PanesOf(Blank, s) = {}
  BY DEF PanesOf, Blank
<1>2. QED
  BY <1>1 DEF EditOf, ApplySplit, ApplyClosePane

\* A page that applies an edit keeps its story: it shows what is left of the
\* joints.
LEMMA EditedStory ==
  ASSUME TypeInv, TypeInv', ControlInv, NEW H, Story(H), NEW p \in Pages, ReceiveStep(p), Edited(p)
  PROVE PageStory(H, p)' /\ (view[p] # Blank => view'[p] # Blank)
<1> USE ControlTypes
<1>0. /\ Slice(Coming(p)', Coming(p), 1) /\ Len(Coming(p)') + 1 = Len(Coming(p)) /\ Coming(p)[1] = First(p)
      /\ Commands(p)' = Commands(p) /\ (IsBoot(p)' <=> IsBoot(p)) /\ tree' = tree /\ made' = made /\ unsynced' = unsynced
  BY Received DEF First
<1> DEFINE st == stale[p]
           st2 == stale'[p]
           v == view[p]
           v2 == view'[p]
           b == IsBoot(p)
           b2 == IsBoot(p)'
           q == Coming(p)
           q2 == Coming(p)'
           w == Commands(p)
           w2 == Commands(p)'
           un == unsynced[p]
           un2 == unsynced'[p]
           m == First(p)
           L == Leaves(tree)
<1>1. v2 = EditOf(v, m) /\ st2 = st
  BY DEF Edited, View, EditOf, Created, Closed
<1>2. CASE v = Blank
  <2>1. v2 = v
    BY <1>1, <1>2, NothingToEdit
  <2>2. PageOk(H, made, Leaves(tree), stale[p], view[p], IsBoot(p), Coming(p))'
    BY <2>1, PassedPage
  <2>3. ~Tracked(p)'
    BY <1>2, <2>1 DEF Tracked, Edited
  <2>4. QED
    BY <1>2, <2>2, <2>3 DEF PageStory
<1>3. CASE v # Blank
  <2>1. QueueOk(H, made, L, q) /\ \E u \in Layouts : v = ReconstructLayout(u) /\ ViewOk(H, made, L, st, u, q)
    BY <1>3 DEF Story, PageStory, PageOk
  <2>2. PICK u \in Layouts : v = ReconstructLayout(u) /\ ViewOk(H, made, L, st, u, q)
    BY <2>1
  <2>3. made \in Nat /\ made <= MaxSessions /\ st \in BOOLEAN /\ st2 = st
    BY <1>1, TypeFacts
  <2>4. Tracked(p)' => Tracked(p) /\ ~st
    BY <1>3, <2>3 DEF Tracked, Edited
  <2>5. PageOk(H, made, L, st, v, b, q) /\ (Tracked(p) => TrackOk(H, tree, v, q, w, un))
    BY DEF Story, PageStory
  <2>6. /\ Slice(q2, q, 1) /\ Len(q2) + 1 = Len(q) /\ m = q[1]
        /\ w2 = w /\ un2 = un /\ Leaves(tree') = L /\ made' = made /\ tree' = tree
    BY <1>0
  <2> DEFINE T == Tracked(p)'
             T1 == Tracked(p)
  <2>7. PageStory(H, p)' <=> PageOk(H, made', Leaves(tree'), st2, v2, b2, q2) /\ (T => TrackOk(H, tree', v2, q2, w2, un2))
    BY DEF PageStory
  <2>8. (T => T1 /\ ~st) /\ (T1 => TrackOk(H, tree, v, q, w, un))
    BY <2>4, <2>5
  <2> HIDE DEF st, st2, v, v2, b, b2, q, q2, w, w2, un, un2, m, L, T, T1
  <2>9. \E x \in Layouts : Applied(H, made, L, st, u, x, m, q2)
    <3>1. QueueOk(H, made, L, q) /\ ViewOk(H, made, L, st, u, q) /\ Slice(q2, q, 1) /\ m = q[1]
      BY <2>1, <2>2, <2>6
    <3>2. QED
      BY <2>3, <3>1, LiveMessage
  <2>10. PICK x \in Layouts : Applied(H, made, L, st, u, x, m, q2)
    BY <2>9
  <2>11. v2 = ReconstructLayout(x) /\ v2 # Blank
    BY <1>1, <2>2, <2>10, ShownTree DEF Applied
  <2>12. PageOk(H, made, L, st, v2, b2, q2)
    BY <2>5, <2>6, <2>10, <2>11, LivePage
  <2>13. T => TrackOk(H, tree, v2, q2, w, un)
    BY <2>2, <2>6, <2>8, <2>10, <2>11, LiveTrack
  <2>14. PageStory(H, p)'
    BY <2>3, <2>6, <2>7, <2>12, <2>13
  <2>15. QED
    BY <2>11, <2>14 DEF v2
<1>4. QED
  BY <1>2, <1>3

-----------------------------------------------------------------------------
\* The last: somebody else has taken the tab over.
LEMMA SeveredStory ==
  ASSUME TypeInv, TypeInv', ControlInv, NEW H, Story(H), NEW p \in Pages, Severed(p)
  PROVE Story(H)'
<1> USE ControlTypes
<1>1. PICK c : c = conn[p]
  OBVIOUS
<1>2. c # None /\ c \in Conns /\ pageOf[c] = p /\ conn[p] = c /\ \A r \in Pages : r # p => conn[r] # c
  BY <1>1, OwnConnection DEF Severed
<1>3. /\ tree' = tree /\ made' = made /\ job' = job /\ up' = up /\ pageOf' = pageOf /\ boot' = boot /\ view' = view
      /\ conn' = [conn EXCEPT ![p] = None] /\ down' = [down EXCEPT ![c] = <<>>]
      /\ unsynced' = unsynced /\ stale' = stale
      /\ \A r \in Pages : r # p => phase'[r] = phase[r]
      /\ phase'[p] = "gone"
  BY <1>1 DEF Severed, server, handlers
<1>4. TellKept
  BY <1>3 DEF TellKept
<1>5. OnePage(H, p)
  BY <1>2, <1>3, <1>4 DEF OnePage, KeptPage
<1>6. \A d \in Conns : UpdatesOk(H, made, Leaves(tree), view'[pageOf'[d]], up'[d])
  BY <1>3 DEF Story
<1>7. PageOk(H, made, Leaves(tree), stale[p], view[p], IsBoot(p), Coming(p))'
  BY <1>2, <1>3, <1>4, PageLost
<1>8. ~Tracked(p)'
  BY <1>3 DEF Tracked
<1>9. PageStory(H, p)'
  BY <1>7, <1>8 DEF PageStory
<1>10. QED
  BY <1>5, <1>6, <1>9, OnePageStory

\* handleTabWSMessage.
LEMMA ReceiveStory ==
  ASSUME TypeInv, TypeInv', ControlInv, NEW H, Story(H), NEW p \in Pages, Receive(p)
  PROVE Story(H)'
<1>1. CASE ReceiveStep(p) /\ Greeted(p)
  BY <1>1, GreetedStory, ReceiveRest
<1>2. CASE ReceiveStep(p) /\ Ignored(p)
  <2>1. PageStory(H, p)' /\ view'[p] = view[p]
    BY <1>2, IgnoredStory DEF Ignored
  <2>2. QED
    BY <1>2, <2>1, ReceiveRest
<1>3. CASE ReceiveStep(p) /\ Edited(p)
  BY <1>3, EditedStory, ReceiveRest
<1>4. CASE Severed(p)
  BY <1>4, SeveredStory
<1>5. QED
  BY <1>1, <1>2, <1>3, <1>4, ReceiveCases

-----------------------------------------------------------------------------
(* Updates and drags *)

\* A layout the server accepts comes from what it knows of the joints.
LEMMA AcceptedTree ==
  ASSUME TypeInv, ControlInv, NEW H, Story(H), NEW c \in Conns, UpdateLayout(c)
  PROVE Sound(H, made, tree')
<1> USE ControlTypes
<1> DEFINE u == Head(up[c]).layout
           L == Leaves(tree)
<1>1. CASE tree' = tree
  BY <1>1 DEF Story
<1>2. CASE LayoutMatchesSessionSet(u, SessionIDs(tree)) /\ tree' = u
  <2>1. u \in Layouts /\ tree \in Layouts /\ Distinct(tree) /\ IsUpdate(Head(up[c]))
    BY UpdatedTree DEF TypeInv, Proper
  <2>2. Leaves(u) = L /\ Distinct(u)
    BY <1>2, <2>1, MatchingLayout
  <2>3. 1 \in DOMAIN up[c] /\ up[c][1] = Head(up[c])
    <3>1. up[c] \in Seq(UpMessages) /\ up[c] # <<>>
      BY DEF UpdateLayout
    <3>2. QED
      BY <3>1, HeadAndTail
  <2>4. Sound(H, made, u) \/ \E k \in 1 .. made : Wrong(L, u, k)
    BY <2>1, <2>3 DEF Story, UpdatesOk
  <2>5. \A k : ~Wrong(L, u, k)
    BY <2>2 DEF Wrong, Twice, Distinct
  <2>6. QED
    BY <1>2, <2>4, <2>5
<1>3. QED
  BY <1>1, <1>2, UpdatedTree

\* UpdateTab.
LEMMA UpdateStory ==
  ASSUME TypeInv, TypeInv', ControlInv, NEW H, Story(H), NEW c \in Conns, UpdateLayout(c)
  PROVE Story(H)'
<1> USE ControlTypes
<1> DEFINE m == Head(up[c])
<1>1. /\ job' = job /\ hs' = hs /\ clients' = clients /\ token' = token /\ down' = down /\ made' = made
      /\ pageOf' = pageOf /\ conn' = conn /\ phase' = phase /\ boot' = boot /\ view' = view /\ stale' = stale
      /\ up' = [up EXCEPT ![c] = Tail(@)] /\ up[c] # <<>> /\ up[c] \in Seq(UpMessages)
  BY DEF UpdateLayout, handlers, pages
<1>2. TellKept
  BY <1>1 DEF TellKept
<1>3. Leaves(tree') = Leaves(tree) /\ IsUpdate(m) /\ m.layout \in Layouts
  BY UpdatedTree
<1>4. Grown(H, made') /\ Sound(H, made', tree')
  BY <1>1, AcceptedTree DEF Story
<1>5. Slice(Tail(up[c]), up[c], 1) /\ Len(Tail(up[c])) + 1 = Len(up[c]) /\ up[c][1] = m
  BY <1>1, ReadUp
<1>6. \A d \in Conns : UpdatesOk(H, made', Leaves(tree'), view'[pageOf'[d]], up'[d])
  <2>1. SUFFICES ASSUME NEW d \in Conns PROVE UpdatesOk(H, made, Leaves(tree), view[pageOf[d]], up'[d])
    BY <1>1, <1>3
  <2> DEFINE n == made
             L == Leaves(tree)
             v == view[pageOf[d]]
             w == up[d]
             w2 == up'[d]
  <2>2. UpdatesOk(H, n, L, v, w)
    BY DEF Story
  <2>3. w2 = w \/ Slice(w2, w, 1)
    BY <1>1, <1>5
  <2> HIDE DEF n, L, v, w, w2
  <2>4. UpdatesOk(H, n, L, v, w2)
    BY <2>2, <2>3, UpdatesSlice
  <2>5. QED
    BY <2>4 DEF n, L, v, w2
<1>7. ASSUME NEW p \in Pages PROVE PageStory(H, p)'
  <2>1. ASSUME Tracked(p), ~unsynced'[p]
        PROVE /\ ~unsynced[p]
              /\ \A G : Exact(H, G, tree, view[p], Coming(p), Commands(p)) =>
                          Exact(H, G, tree', view[p], Coming(p), Commands(p)')
    <3>1. CASE /\ tree' = m.layout
               /\ \A r \in Pages : unsynced'[r] = (unsynced[r] \/ (r # pageOf[c] /\ Informed(r)))
      <4>1. ~unsynced[p] /\ pageOf[c] = p
        BY <2>1, <3>1, TrackedInformed
      <4>2. HasUpdate(c)
        <5>1. 1 \in DOMAIN up[c] /\ up[c][1].type = "update_layout"
          BY <1>1, <1>3, <1>5, HeadAndTail DEF IsUpdate
        <5>2. QED
          BY <5>1 DEF HasUpdate
      <4>3. conn[p] = c
        BY <2>1, <4>1, <4>2 DEF ControlInv, ConnControl, Tracked
      <4>4. Commands(p) = up[c] /\ Commands(p)' = Tail(up[c])
        BY <1>1, <4>3 DEF Commands
      <4> DEFINE v == view[p]
                 q == Coming(p)
                 w == up[c]
                 w2 == Tail(up[c])
      <4>5. Slice(w2, w, 1) /\ Len(w2) + 1 = Len(w) /\ tree' = IF IsUpdate(w[1]) THEN w[1].layout ELSE tree
        BY <1>3, <1>5, <3>1
      <4> HIDE DEF v, q, w, w2, m
      <4>6. PICK t2 : t2 = tree'
        OBVIOUS
      <4>7. t2 = IF IsUpdate(w[1]) THEN w[1].layout ELSE tree
        BY <4>5, <4>6
      <4>8. \A G : Exact(H, G, tree, v, q, w) => Exact(H, G, t2, v, q, w2)
        BY <4>5, <4>7, ExactRead, ZenonT(60)
      <4>9. QED
        BY <4>1, <4>4, <4>6, <4>8 DEF v, q, w, w2
    <3>2. CASE /\ tree' = tree
               /\ \A r \in Pages : unsynced'[r] = (unsynced[r] \/ r = pageOf[c])
      <4>1. ~unsynced[p] /\ pageOf[c] # p
        BY <2>1, <3>2
      <4>2. conn[p] # None => conn[p] \in Conns /\ conn[p] # c
        BY <4>1, OwnConnection
      <4>3. Commands(p)' = Commands(p)
        BY <1>1, <4>2 DEF Commands
      <4>4. QED
        BY <3>2, <4>1, <4>3
    <3>3. QED
      BY <3>1, <3>2, UpdatedTree
  <2>2. QED
    BY <1>1, <1>2, <1>3, <2>1, PageCommands
<1>8. \A d \in Telling : Created(job[d].message) =>
        job[d].message.session \in Leaves(tree') \/ \A k \in Leaves(tree') : k > job[d].message.session
  BY <1>3 DEF Story
<1>9. QED
  BY <1>2, <1>4, <1>6, <1>7, <1>8, StoryParts

\* The trees u and w differ in ratios only.
SamePanes(u, w) == SessionIDs(w) = SessionIDs(u) /\ Plain(Joints(w)) = Plain(Joints(u))

\* Ratios say nothing about the panes.
LEMMA SamePanesView ==
  ASSUME NEW u \in Layouts, NEW w \in Layouts, SamePanes(u, w), NEW H, NEW n, NEW L, NEW st, NEW q, ViewOk(H, n, L, st, u, q)
  PROVE /\ ViewOk(H, n, L, st, w, q) /\ Leaves(w) = Leaves(u) /\ (Sound(H, n, u) => Sound(H, n, w))
        /\ Leaves(w) \subseteq 1 .. n
        /\ Sound(H, n, w) \/ \E k \in 1 .. n : Wrong(L, w, k)
<1>1. /\ Leaves(w) = Leaves(u) /\ Size(w) = Size(u) /\ (Distinct(w) <=> Distinct(u))
      /\ \A k : Twice(w, k) <=> Twice(u, k)
  BY DEF SamePanes, Leaves, Size, Distinct, Twice
<1>2. Sound(H, n, u) => Sound(H, n, w)
  BY <1>1 DEF Sound, Proper, SamePanes
<1>3. \A k : Wrong(L, u, k) <=> Wrong(L, w, k)
  BY <1>1 DEF Wrong
<1>4. Twisted(n, L, st, u, q) => Twisted(n, L, st, w, q)
  BY <1>1, <1>3 DEF Twisted
<1>5. After(st, u, q, 0) => After(st, w, q, 0)
  BY <1>1 DEF After, Again
<1>6. ViewOk(H, n, L, st, w, q)
  BY <1>2, <1>4, <1>5 DEF ViewOk
<1>7. Leaves(w) \subseteq 1 .. n /\ (Sound(H, n, w) \/ \E k \in 1 .. n : Wrong(L, w, k))
  BY <1>6 DEF ViewOk, Sound, Proper, Twisted
<1>8. QED
  BY <1>1, <1>2, <1>6, <1>7

\* The page that shows u shows w, with another ratio, and sends it if it can.
Dragged(p, u, w) ==
  /\ view[p] = ReconstructLayout(u) /\ view' = [view EXCEPT ![p] = ReconstructLayout(w)] /\ SamePanes(u, w)
  /\ conn[p] # None => Send(p, [type |-> "update_layout", layout |-> w]) /\ unsynced' = unsynced
  /\ conn[p] = None => unsynced' = [unsynced EXCEPT ![p] = TRUE] /\ up' = up
  /\ UNCHANGED <<server, handlers, down, pageOf, conn, phase, boot, known, stale>>

\* A drag changes a ratio of the page's tree.
LEMMA DraggedTree ==
  ASSUME TypeInv, ControlInv, NEW H, Story(H), NEW p \in Pages, NEW x, NEW r \in Ratios, DragHandle(p, x, r)
  PROVE \E u \in Layouts, w \in Layouts : Dragged(p, u, w) /\ ViewOk(H, made, Leaves(tree), stale[p], u, Coming(p))
<1> DEFINE v == view[p]
           v2 == SetRatio(v, x, r)
           layout == SerializeTree(v2)
<1>1. PICK y \in v : ~IsPane(y) /\ x = y.path
  <2>1. x \in Splits(v)
    BY DEF DragHandle
  <2>2. QED
    BY <2>1 DEF Splits, Panes
<1>2. v # Blank
  BY <1>1 DEF Blank
<1>3. PICK u \in Layouts : v = ReconstructLayout(u) /\ ViewOk(H, made, Leaves(tree), stale[p], u, Coming(p))
  BY <1>2 DEF Story, PageStory, PageOk
<1>4. \E w \in Layouts : IsRated(w, u, y, r)
  <2>1. u \in Level[MaxSessions] /\ MaxSessions \in Nat /\ MaxSessions <= MaxSessions /\ r \in Ratios \cup {Half}
    BY TypeFacts DEF Layouts
  <2>2. y \in ReconstructLayout(u) /\ ~IsPane(y)
    BY <1>1, <1>3
  <2>3. \E w \in Level[MaxSessions] : IsRated(w, u, y, r)
    BY <2>1, <2>2, PageDrags
  <2>4. QED
    BY <2>3 DEF Layouts
<1>5. PICK w \in Layouts : IsRated(w, u, y, r)
  BY <1>4
<1>6. v2 = ReconstructLayout(w) /\ SamePanes(u, w)
  BY <1>1, <1>3, <1>5 DEF IsRated, SamePanes
<1>7. layout = w
  BY <1>6, SerializeReconstructed
<1>8. /\ view' = [view EXCEPT ![p] = v2]
      /\ conn[p] # None => Send(p, [type |-> "update_layout", layout |-> layout]) /\ unsynced' = unsynced
      /\ conn[p] = None => unsynced' = [unsynced EXCEPT ![p] = TRUE] /\ up' = up
      /\ UNCHANGED <<server, handlers, down, pageOf, conn, phase, boot, known, stale>>
  BY DEF DragHandle
<1> HIDE DEF v2, layout
<1>9. Dragged(p, u, w)
  BY <1>3, <1>6, <1>7, <1>8 DEF Dragged
<1>10. QED
  BY <1>3, <1>9

-----------------------------------------------------------------------------
\* The page still fits its messages.
LEMMA DraggedPage ==
  ASSUME NEW H, NEW n, NEW L, NEW st, NEW v, NEW b, NEW q, PageOk(H, n, L, st, v, b, q),
         NEW w \in Layouts, ViewOk(H, n, L, st, w, q), NEW b2
  PROVE PageOk(H, n, L, st, ReconstructLayout(w), b2, q)
<1>1. ReconstructLayout(w) # Blank
  BY ShownTree
<1>2. QED
  BY <1>1 DEF PageOk

\* The ratios the page knows are those of the update it sends.
LEMMA DraggedExact ==
  ASSUME NEW H, NEW n \in Nat, NEW L, NEW st, ~st, NEW u \in Layouts, NEW q, IsSeq(q), QueueOk(H, n, L, q),
         ViewOk(H, n, L, st, u, q), NEW w \in Layouts, SamePanes(u, w), NEW t, NEW c, NEW G, Exact(H, G, t, ReconstructLayout(u), q, c),
         NEW m, IsUpdate(m), m.layout = w, NEW c2, Inserted(c2, c, Len(c), m)
  PROVE \E G2 : Exact(H, G2, t, ReconstructLayout(w), q, c2)
<1>1. Sound(H, n, u) /\ After(st, u, q, 0)
  BY DEF ViewOk, Twisted
<1>2. Leaves(w) = Leaves(u) /\ Plain(Joints(w)) = Plain(Joints(u))
  BY DEF SamePanes, Leaves
<1>3. ASSUME NEW i \in DOMAIN q, Created(q[i])
      PROVE q[i].session \in Nat /\ q[i].session # 0 /\ Leaves(u) \subseteq 1 .. q[i].session - 1
  <2>1. q[i].session \in 1 .. n
    BY <1>3 DEF QueueOk, Fits, CreatedFits
  <2>2. Below(Leaves(u), q[i].session)
    <3>1. i > 0
      BY <1>3 DEF IsSeq
    <3>2. QED
      BY <1>1, <1>3, <3>1 DEF After, Again
  <2>3. Leaves(u) \subseteq 1 .. n
    BY <1>1 DEF Sound, Proper
  <2> DEFINE s == q[i].session
             K == Leaves(u)
  <2>4. s \in 1 .. n /\ K \subseteq 1 .. n /\ \A k \in K : k < s
    BY <2>1, <2>2, <2>3 DEF Below
  <2> HIDE DEF s, K
  <2>5. s \in Nat /\ s # 0 /\ K \subseteq 1 .. s - 1
    BY <2>4
  <2>6. QED
    BY <2>5 DEF s, K
<1>4. Exact(H, Graft(G, Joints(w), Leaves(u)), t, ReconstructLayout(w), q, c2)
  BY <1>1, <1>2, <1>3, ExactDrag
<1>5. QED
  BY <1>4

\* The story of the page that drags.
LEMMA DragPageStory ==
  ASSUME TypeInv, TypeInv', ControlInv, NEW H, Story(H), NEW p \in Pages, NEW u \in Layouts, NEW w \in Layouts, Dragged(p, u, w),
         ViewOk(H, made, Leaves(tree), stale[p], u, Coming(p))
  PROVE PageStory(H, p)'
<1> USE ControlTypes
<1>1. /\ tree' = tree /\ made' = made /\ job' = job /\ down' = down /\ pageOf' = pageOf /\ conn' = conn /\ phase' = phase
      /\ boot' = boot /\ stale' = stale /\ view'[p] = ReconstructLayout(w) /\ view[p] = ReconstructLayout(u)
  BY DEF Dragged, server, handlers
<1>2. TellKept
  BY <1>1 DEF TellKept
<1>3. Coming(p)' = Coming(p) /\ (IsBoot(p)' <=> IsBoot(p))
  BY <1>1, <1>2, SameComing DEF IsBoot
<1> DEFINE n == made
           L == Leaves(tree)
           st == stale[p]
           v == view[p]
           v2 == view'[p]
           b == IsBoot(p)
           b2 == IsBoot(p)'
           q == Coming(p)
           q2 == Coming(p)'
           c == Commands(p)
           c2 == Commands(p)'
           un == unsynced[p]
           un2 == unsynced'[p]
           T == Tracked(p)
           T2 == Tracked(p)'
           m == [type |-> "update_layout", layout |-> w]
<1>4. v # Blank /\ v2 # Blank
  BY <1>1, ShownTree
<1>5. T2 => T /\ ~st
  BY <1>1, <1>4 DEF Tracked
<1>6. /\ PageOk(H, n, L, st, v, b, q) /\ QueueOk(H, n, L, q) /\ ViewOk(H, n, L, st, u, q)
      /\ T => TrackOk(H, tree, v, q, c, un)
  BY DEF Story, PageStory, PageOk
<1>7. n \in Nat /\ IsSeq(q) /\ SamePanes(u, w)
  BY TypeFacts, ComingType, SeqIs DEF Dragged
<1>8. ~un2 => ~un /\ Inserted(c2, c, Len(c), m)
  <2>1. CASE conn[p] = None
    BY <2>1 DEF Dragged
  <2>2. CASE conn[p] # None
    <3>1. conn[p] \in Conns /\ unsynced' = unsynced /\ up' = [up EXCEPT ![conn[p]] = Append(@, m)]
      BY <2>2, OwnConnection DEF Dragged, Send
    <3>2. c = up[conn[p]] /\ c2 = Append(up[conn[p]], m) /\ c \in Seq(UpMessages)
      BY <1>1, <2>2, <3>1 DEF Commands
    <3>3. m \in UpMessages
      BY DEF UpMessages
    <3> HIDE DEF m, c, c2
    <3>4. Inserted(c2, c, Len(c), m)
      BY <3>2, <3>3, AppendInserted
    <3>5. QED
      BY <3>1, <3>4
  <2>3. QED
    BY <2>1, <2>2
<1>9. IsUpdate(m) /\ m.layout = w
  BY DEF IsUpdate
<1>10. PageStory(H, p)' <=> PageOk(H, made', Leaves(tree'), stale'[p], v2, b2, q2) /\ (T2 => TrackOk(H, tree', v2, q2, c2, un2))
  BY DEF PageStory
<1>11. made' = n /\ Leaves(tree') = L /\ stale'[p] = st /\ tree' = tree /\ q2 = q /\ v = ReconstructLayout(u) /\ v2 = ReconstructLayout(w)
  BY <1>1, <1>3
<1> HIDE DEF n, L, st, v, v2, b, b2, q, q2, c, c2, un, un2, T, T2, m
<1>12. ViewOk(H, n, L, st, w, q) /\ Leaves(w) = Leaves(u)
  BY <1>6, <1>7, SamePanesView
<1>13. PageOk(H, n, L, st, v2, b2, q)
  BY <1>6, <1>11, <1>12, DraggedPage
<1>14. ASSUME T2 PROVE TrackOk(H, tree, v2, q, c2, un2)
  <2>1. TrackOk(H, tree, v, q, c, un) /\ ~st
    BY <1>5, <1>6, <1>14
  <2>2. ShownIn(v) = Leaves(u) /\ ShownIn(v2) = Leaves(w)
    BY <1>11, ShownTree
  <2>3. \E ks : Follows(ks, q, ShownIn(v2), Leaves(tree))
    BY <1>12, <2>1, <2>2 DEF TrackOk
  <2>4. ASSUME ~un2 PROVE \E G : Exact(H, G, tree, v2, q, c2)
    <3>1. ~un /\ Inserted(c2, c, Len(c), m)
      BY <1>8, <2>4
    <3>2. PICK G : Exact(H, G, tree, v, q, c)
      BY <2>1, <3>1 DEF TrackOk
    <3>3. Exact(H, G, tree, ReconstructLayout(u), q, c)
      BY <1>11, <3>2
    <3>4. \E G2 : Exact(H, G2, tree, ReconstructLayout(w), q, c2)
      BY <1>6, <1>7, <1>9, <2>1, <3>1, <3>3, DraggedExact
    <3>5. QED
      BY <1>11, <3>4
  <2>5. QED
    BY <2>3, <2>4 DEF TrackOk
<1>15. QED
  BY <1>10, <1>11, <1>13, <1>14

\* The layouts on their way to the server, with one more.
LEMMA DragUpdates ==
  ASSUME TypeInv, TypeInv', ControlInv, NEW H, Story(H), NEW p \in Pages, NEW u \in Layouts, NEW w \in Layouts, Dragged(p, u, w),
         ViewOk(H, made, Leaves(tree), stale[p], u, Coming(p)), NEW d \in Conns
  PROVE UpdatesOk(H, made, Leaves(tree), view'[pageOf'[d]], up'[d])
<1> USE ControlTypes
<1>1. pageOf' = pageOf /\ view' = [view EXCEPT ![p] = ReconstructLayout(w)] /\ SamePanes(u, w)
  BY DEF Dragged
<1> DEFINE n == made
           L == Leaves(tree)
           v == view[pageOf[d]]
           v2 == view'[pageOf[d]]
           c == up[d]
           c2 == up'[d]
           m == [type |-> "update_layout", layout |-> w]
<1>2. UpdatesOk(H, n, L, v, c) /\ n \in Nat
  BY TypeFacts DEF Story
<1>3. CASE pageOf[d] = None
  <2>1. d # conn[p]
    BY <1>3, OwnConnection
  <2>2. up'[d] = up[d]
    BY <2>1 DEF Dragged, Send
  <2>3. QED
    BY <1>1, <1>3, <2>2, NoUpdates
<1>4. CASE pageOf[d] \in Pages
  <2>1. DOMAIN view = Pages /\ ReconstructLayout(w) # Blank
    BY ShownTree
  <2>2. v # Blank => v2 # Blank
    BY <1>1, <1>4, <2>1
  <2>3. c2 = c \/ (v2 # Blank /\ c2 = Append(c, m) /\ c \in Seq(UpMessages))
    <3>1. CASE d = conn[p]
      <4>1. d # None /\ pageOf[d] = p
        BY <3>1, OwnConnection
      <4>2. v2 = ReconstructLayout(w)
        BY <1>1, <2>1, <4>1
      <4>3. c2 = Append(c, m)
        BY <3>1, <4>1 DEF Dragged, Send
      <4>4. QED
        BY <2>1, <4>2, <4>3
    <3>2. CASE d # conn[p]
      BY <3>2 DEF Dragged, Send
    <3>3. QED
      BY <3>1, <3>2
  <2>4. Leaves(w) \subseteq 1 .. n /\ (Sound(H, n, w) \/ \E k \in 1 .. n : Wrong(L, w, k))
    BY <1>1, SamePanesView
  <2>5. m \in UpMessages /\ m.layout = w
    BY DEF UpMessages
  <2> HIDE DEF n, L, v, v2, c, c2, m
  <2>6. UpdatesOk(H, n, L, v2, c)
    BY <1>2, <2>2, Unmoved, UpdatesEvolve
  <2>7. UpdatesOk(H, n, L, v2, c2)
    <3>1. CASE c2 = c
      BY <2>6, <3>1
    <3>2. CASE v2 # Blank /\ c2 = Append(c, m) /\ c \in Seq(UpMessages)
      <4>1. Inserted(c2, c, Len(c), m)
        BY <2>5, <3>2, AppendInserted
      <4>2. QED
        BY <2>4, <2>5, <2>6, <3>2, <4>1, UpdatesAppend
    <3>3. QED
      BY <2>3, <3>1, <3>2
  <2>8. QED
    BY <1>1, <2>7 DEF n, L, v2, c2
<1>5. QED
  BY <1>3, <1>4

\* The end of a drag.
LEMMA DragStory ==
  ASSUME TypeInv, TypeInv', ControlInv, NEW H, Story(H), NEW p \in Pages, NEW x, NEW r \in Ratios, DragHandle(p, x, r)
  PROVE Story(H)'
<1> USE ControlTypes
<1>1. PICK u \in Layouts, w \in Layouts : Dragged(p, u, w) /\ ViewOk(H, made, Leaves(tree), stale[p], u, Coming(p))
  BY DraggedTree
<1>2. PageStory(H, p)'
  BY <1>1, DragPageStory
<1>3. \A d \in Conns : UpdatesOk(H, made, Leaves(tree), view'[pageOf'[d]], up'[d])
  BY <1>1, DragUpdates
<1>4. /\ tree' = tree /\ made' = made /\ job' = job /\ conn' = conn /\ boot' = boot /\ phase' = phase /\ stale' = stale
      /\ down' = down
  BY <1>1 DEF Dragged, server, handlers
<1>5. TellKept
  BY <1>4 DEF TellKept
<1>6. ASSUME NEW s \in Pages, s # p PROVE KeptPage(H, H, s)
  <2>1. view'[s] = view[s] /\ (unsynced[s] => unsynced'[s])
    BY <1>1, <1>6 DEF Dragged
  <2>2. conn[s] # None => up'[conn[s]] = up[conn[s]]
    <3>1. SUFFICES ASSUME conn[s] # None PROVE up'[conn[s]] = up[conn[s]]
      OBVIOUS
    <3>2. conn[s] \in Conns /\ conn[p] # conn[s]
      BY <1>6, <3>1, OwnConnection
    <3>3. QED
      BY <1>1, <3>2 DEF Dragged, Send
  <2>3. QED
    BY <1>4, <2>1, <2>2 DEF KeptPage
<1>7. OnePage(H, p)
  BY <1>4, <1>5, <1>6 DEF OnePage
<1>8. QED
  BY <1>2, <1>3, <1>7, OnePageStory

-----------------------------------------------------------------------------
(* The theorems *)

\* The invariant.  Once every page is stale, there is nothing to say of the pages.
IInv == TypeInv /\ ControlInv /\ (Calm => \E H : Story(H))

\* At first there is one pane and no joint.
LEMMA InitStory == Init => Story({})
<1> SUFFICES ASSUME Init PROVE Story({})
  OBVIOUS
<1>1. TypeInv /\ ControlInv
  BY InitType, InitControl
<1>2. made = 1 /\ tree = Pane(1) /\ 1 \in Sessions
  BY TypeFacts, <1>1 DEF Init
<1>3. \A c \in Conns : job[c] = NoJob /\ up[c] = <<>>
  BY DEF Init
<1>4. Telling = {} /\ Pending = <<>>
  BY <1>3 DEF Telling, Pending, NoJob
<1>5. Grown({}, 1)
  BY DEF Grown, Plain
<1>6. Sound({}, 1, Pane(1))
  <2>1. Proper(Pane(1), 1) /\ Pane(1) \in Layouts
    BY <1>2, PaneProper DEF Proper
  <2>2. Joints(Pane(1)) = {}
    BY <2>1, JointsEquation DEF Pane
  <2>3. Plain(Joints(Pane(1))) = {} /\ \A K : Rest({}, K) = {}
    BY <2>2 DEF Plain, Rest
  <2>4. QED
    BY <2>1, <2>3 DEF Sound
<1>7. ASSUME NEW c \in Conns PROVE UpdatesOk({}, made, Leaves(tree), view[pageOf[c]], up[c])
  <2>1. up[c] = <<>> /\ DOMAIN <<>> = {}
    BY <1>3
  <2>2. QED
    BY <2>1 DEF UpdatesOk
<1>8. ASSUME NEW p \in Pages PROVE PageStory({}, p)
  <2>1. view[p] = Blank /\ conn[p] = None
    BY <1>8 DEF Init
  <2>2. Incoming(p) = <<>> /\ ~IsBoot(p)
    BY <2>1 DEF Incoming, IsBoot
  <2>3. <<>> \o <<>> = <<>>
    OBVIOUS
  <2>4. Coming(p) = <<>>
    BY <1>4, <2>2, <2>3 DEF Coming
  <2>5. \A H, n, L, st, b : b = FALSE => PageOk(H, n, L, st, Blank, b, <<>>)
    BY DEF PageOk, QueueOk
  <2>6. IsBoot(p) = FALSE
    BY <2>2 DEF IsBoot
  <2>7. ~Tracked(p)
    BY <2>1, <2>2 DEF Tracked
  <2>8. PageOk({}, made, Leaves(tree), stale[p], view[p], IsBoot(p), Coming(p))
    BY <2>1, <2>4, <2>5, <2>6
  <2>9. QED
    BY <2>7, <2>8 DEF PageStory
<1>9. QED
  BY <1>2, <1>4, <1>5, <1>6, <1>7, <1>8 DEF Story

\* A change that was lost for a page stays lost.
LEMMA StaleStays ==
  ASSUME TypeInv, [Next]_vars PROVE \A p \in Pages : stale[p] => stale'[p]
<1>1. CASE stale' = stale
  BY <1>1
<1>2. CASE \E ps : Lost(ps)
  BY <1>2 DEF Lost
<1>3. ASSUME NEW p \in Pages, NEW ps, stale' = [stale EXCEPT ![p] = @ \/ ps] PROVE \A r \in Pages : stale[r] => stale'[r]
  BY <1>3 DEF TypeInv
<1>4. ASSUME NEW p \in Pages, PageStep(p) PROVE stale' = stale \/ \E ps : Lost(ps)
  BY <1>4 DEF PageStep, OpenTab, LoseTab, Receive, RequestClosePane, SplitPane, DragHandle, history
<1>5. ASSUME NEW c \in Conns, HandlerStep(c) PROVE stale' = stale \/ \E ps : Lost(ps)
  BY <1>5 DEF HandlerStep, Resume, Register, ChooseTakeover, ChooseNew, NoChoice, Replace, ReplaceFails, Evict, Greet,
              ReadCommand, UpdateLayout, InsertPane, RemovePane, ReplacePane, CommandFails, Broadcast, EndReadLoop, history
<1>6. UNCHANGED vars => stale' = stale
  BY DEF vars
<1>7. QED
  BY <1>1, <1>2, <1>4, <1>5, <1>6 DEF Next

\* Nothing happens.
LEMMA UnchangedStory ==
  ASSUME TypeInv, TypeInv', ControlInv, NEW H, Story(H), UNCHANGED vars PROVE Story(H)'
<1> USE ControlTypes
<1>1. /\ tree' = tree /\ made' = made /\ job' = job /\ up' = up /\ down' = down /\ pageOf' = pageOf /\ conn' = conn
      /\ phase' = phase /\ boot' = boot /\ view' = view /\ stale' = stale /\ unsynced' = unsynced
  BY DEF vars
<1>2. TellKept
  BY <1>1 DEF TellKept
<1>3. \A p \in Pages : KeptPage(H, H, p)
  BY <1>1 DEF KeptPage
<1>4. Evolves(H, made, Leaves(tree), H, made', Leaves(tree'))
  BY <1>1, TypeFacts, Unmoved
<1>5. \A p \in Pages : PageStory(H, p)'
  BY <1>2, <1>3, <1>4, KeptPageStory
<1>6. \A c \in Conns : UpdatesOk(H, made, Leaves(tree), view'[pageOf'[c]], up'[c])
  BY <1>1 DEF Story
<1>7. QED
  BY <1>1, <1>2, <1>5, <1>6, StillStory

\* Every step keeps the story, of the same joints or of one more.
LEMMA StoryStep ==
  ASSUME TypeInv, TypeInv', ControlInv, ControlInv', NEW H, Story(H), Calm', [Next]_vars
  PROVE \E H2 : Story(H2)'
<1>1. ASSUME NEW p \in Pages, PageStep(p) PROVE Story(H)'
  <2>1. CASE \E c \in Conns : OpenTab(p, c)
    BY <2>1, OpenTabStory
  <2>2. CASE LoseTab(p)
    BY <2>2, LoseTabStory
  <2>3. CASE Receive(p)
    BY <2>3, ReceiveStory
  <2>4. CASE \E s \in 1 .. MaxSessions : RequestClosePane(p, s) \/ \E d \in Directions : SplitPane(p, s, d)
    BY <2>4, CommandsStory DEF Sessions
  <2>5. CASE \E x \in Splits(view[p]), r \in Ratios : DragHandle(p, x, r)
    BY <2>5, DragStory
  <2>6. QED
    BY <1>1, <2>1, <2>2, <2>3, <2>4, <2>5 DEF PageStep
<1>2. ASSUME NEW c \in Conns, HandlerStep(c) PROVE \E H2 : Story(H2)'
  <2>1. CASE \/ Resume(c) \/ Register(c) \/ ChooseTakeover(c) \/ ChooseNew(c) \/ NoChoice(c)
             \/ ReplaceFails(c) \/ CommandFails(c)
    BY <2>1, HandshakeStory
  <2>2. CASE Replace(c)
    BY <2>2, ReplaceStory
  <2>3. CASE Evict(c) \/ Greet(c) \/ Broadcast(c) \/ EndReadLoop(c)
    BY <2>3, EvictStory, GreetStory, BroadcastStory, EndStory
  <2>4. CASE ReadCommand(c) \/ UpdateLayout(c)
    BY <2>4, ReadCommandStory, UpdateStory
  <2>5. CASE InsertPane(c)
    BY <2>5, InsertNothingStory, InsertStory
  <2>6. CASE RemovePane(c)
    BY <2>6, RemoveNothingStory, RemoveStory
  <2>7. CASE ReplacePane(c)
    BY <2>7, ReplacePaneStory
  <2>8. QED
    BY <1>2, <2>1, <2>2, <2>3, <2>4, <2>5, <2>6, <2>7 DEF HandlerStep
<1>3. CASE UNCHANGED vars
  BY <1>3, UnchangedStory
<1>4. QED
  BY <1>1, <1>2, <1>3 DEF Next

\* Init satisfies the invariant.
LEMMA InitInv == Init => IInv
<1>1. Init => \E H : Story(H)
  BY InitStory
<1>2. QED
  BY <1>1, InitType, InitControl DEF IInv

\* Every step keeps it.
LEMMA NextInv == IInv /\ [Next]_vars => IInv'
<1> SUFFICES ASSUME IInv, [Next]_vars PROVE IInv'
  OBVIOUS
<1>1. TypeInv /\ ControlInv /\ (Calm => \E H : Story(H))
  BY DEF IInv
<1>2. TypeInv' /\ ControlInv'
  BY <1>1, TypeStep, ControlStep
<1>3. Calm' => Calm
  BY <1>1, StaleStays DEF Calm
<1>4. ASSUME Calm' PROVE \E H : Story(H)'
  <2>1. PICK H : Story(H)
    BY <1>1, <1>3, <1>4
  <2>2. \E H2 : Story(H2)'
    BY <1>1, <1>2, <1>4, <2>1, StoryStep
  <2>3. QED
    BY <2>2
<1>5. QED
  BY <1>2, <1>4 DEF IInv

\* TypeInv is narrower than TypeOK.
LEMMA TypeInvOK == TypeInv => TypeOK
<1> SUFFICES ASSUME TypeInv PROVE TypeOK
  OBVIOUS
<1>1. tree \in Layouts /\ Distinct(tree) /\ Leaves(tree) \subseteq 1 .. made
  BY DEF TypeInv, Proper
<1>2. Size(tree) = Cardinality(Leaves(tree))
  BY <1>1, LeavesType
<1>3. ToSet(SessionIDs(tree)) \subseteq 1 .. made /\ Len(SessionIDs(tree)) = Cardinality(ToSet(SessionIDs(tree)))
  BY <1>1, <1>2 DEF Leaves, Size
<1>4. \A c \in Conns : job[c].at \in {"none", "replace", "split", "close", "closeLast", "tell"}
  BY ControlTypes, TypeFacts, JobFields
<1>5. \A p \in Pages : \A x \in Panes(view[p]) : x.label.session \in 1 .. made
  BY DEF TypeInv, GoodNode, Panes
<1>6. QED
  BY <1>3, <1>4, <1>5 DEF TypeInv, TypeOK

\* A settled page that missed nothing: its joints are those of the server's tree.
LEMMA SettledPage ==
  ASSUME TypeInv, NEW H, Story(H), NEW p \in Pages, Settled(p), ~stale[p]
  PROVE /\ Shape(view[p]) = Shape(ReconstructLayout(tree))
        /\ unsynced[p] \/ view[p] = ReconstructLayout(tree)
<1> USE ControlTypes
<1>1. conn[p] \in Conns /\ conn[p] # None /\ up[conn[p]] = <<>> /\ down[conn[p]] = <<>> /\ phase[p] = "live" /\ view[p] # Blank
  BY DEF Settled
<1>2. Coming(p) = <<>> /\ Commands(p) = <<>>
  <2>1. Telling = {}
    BY DEF Telling, Settled, NoJob
  <2>2. Pending = <<>> /\ Incoming(p) = <<>> /\ Commands(p) = <<>>
    BY <1>1, <2>1 DEF Pending, Incoming, Commands
  <2>3. <<>> \o <<>> = <<>>
    OBVIOUS
  <2>4. QED
    BY <2>2, <2>3 DEF Coming
<1>3. Tracked(p)
  BY <1>1 DEF Tracked
<1>4. TrackOk(H, tree, view[p], <<>>, <<>>, unsynced[p])
  BY <1>2, <1>3 DEF Story, PageStory
<1>5. PICK u \in Layouts : view[p] = ReconstructLayout(u) /\ Sound(H, made, u)
  BY <1>1 DEF Story, PageStory, PageOk, ViewOk, Twisted
<1>6. Sound(H, made, tree) /\ tree \in Layouts
  BY DEF Story, Sound, Proper
<1>7. Leaves(u) = Leaves(tree)
  <2>1. PICK ks : Follows(ks, <<>>, ShownIn(view[p]), Leaves(tree))
    BY <1>4 DEF TrackOk
  <2>2. Len(<<>>) = 0
    OBVIOUS
  <2>3. ks[0] = ShownIn(view[p]) /\ ks[Len(<<>>)] = Leaves(tree)
    BY <2>1 DEF Follows
  <2>4. QED
    BY <1>5, <2>2, <2>3, ShownTree
<1>8. Distinct(u) /\ Distinct(tree) /\ Plain(Joints(u)) = Plain(Joints(tree))
  BY <1>5, <1>6, <1>7 DEF Sound, Proper
<1>9. Shape(ReconstructLayout(u)) = Shape(ReconstructLayout(tree)) /\ (Joints(u) = Joints(tree) => u = tree)
  BY <1>6, <1>7, <1>8, SameJoints
<1>10. ASSUME ~unsynced[p] PROVE u = tree
  <2>1. PICK G : Exact(H, G, tree, view[p], <<>>, <<>>)
    BY <1>4, <1>10 DEF TrackOk
  <2>2. Left(G, u) /\ Left(G, tree)
    BY <1>5, <2>1 DEF Exact
  <2>3. QED
    BY <1>7, <1>9, <2>2 DEF Left
<1>11. QED
  BY <1>5, <1>9, <1>10

\* Once settled, no message is on its way: what a page shows is the server's
\* tree.
LEMMA InvShows == IInv => PageShowsLayout
<1> SUFFICES ASSUME IInv, NEW p \in Pages, Settled(p), ~stale[p]
             PROVE /\ Shape(view[p]) = Shape(ReconstructLayout(tree))
                   /\ unsynced[p] \/ view[p] = ReconstructLayout(tree)
  BY DEF PageShowsLayout
<1>1. PICK H : Story(H)
  BY DEF IInv, Calm
<1>2. QED
  BY <1>1, SettledPage DEF IInv

\* An update the server accepts differs from its tree in ratios only.
LEMMA UpdateShape ==
  ASSUME IInv, NEW c \in Conns, UpdateLayout(c), ~stale[pageOf[c]]
  PROVE Shape(ReconstructLayout(tree')) = Shape(ReconstructLayout(tree))
<1>1. TypeInv /\ ControlInv
  BY DEF IInv
<1> USE ControlTypes, <1>1
<1>2. pageOf[c] \in Pages
  BY DEF UpdateLayout, ControlInv, ConnControl
<1>3. PICK H : Story(H)
  BY <1>2 DEF IInv, Calm
<1>4. PICK t2 : t2 = tree'
  OBVIOUS
<1>5. Sound(H, made, t2) /\ Leaves(t2) = Leaves(tree)
  BY <1>3, <1>4, AcceptedTree, UpdatedTree
<1>6. Sound(H, made, tree)
  BY <1>3 DEF Story
<1>7. t2 \in Layouts /\ tree \in Layouts /\ Distinct(t2) /\ Distinct(tree) /\ Plain(Joints(t2)) = Plain(Joints(tree))
  BY <1>5, <1>6 DEF Sound, Proper
<1>8. Shape(ReconstructLayout(t2)) = Shape(ReconstructLayout(tree))
  BY <1>5, <1>7, SameJoints
<1>9. QED
  BY <1>4, <1>8

\* The inductive invariant: what is on its way, and on every page, tells the
\* same story as the tree (handleTabWS, app.js).
THEOREM Invariance == Spec => []IInv
<1>1. Init => IInv
  BY InitInv
<1>2. IInv /\ [Next]_vars => IInv'
  BY NextInv
<1>3. QED
  BY <1>1, <1>2, PTL DEF Spec

\* Type correctness: the server's tree shows sessions made so far, none twice,
\* whatever layouts the pages send, no page shows a session that was never
\* made, and every handler and page is in a state of its own (Tab.Layout,
\* handleTabWS, app.js).
THEOREM TypeCorrect == Spec => []TypeOK
<1>1. IInv => TypeOK
  BY TypeInvOK DEF IInv
<1>2. QED
  BY <1>1, Invariance, PTL

\* Once a tab has settled, a page that missed no event shows exactly the
\* server's layout, panes, splits and order, however the edits of several
\* pages, the broadcasts and the takeovers interleaved; and the ratios too,
\* unless an update of its own was rejected or lost (handleTabWS, app.js
\* handleServerMessage).
THEOREM Synchronised == Spec => []PageShowsLayout
<1>1. IInv => PageShowsLayout
  BY InvShows
<1>2. QED
  BY <1>1, Invariance, PTL

\* A layout that UpdateTab accepts from a page that missed no event never
\* changes the shape of the tree: LayoutMatchesSessionSet compares only the
\* sessions, yet the sessions determine the splits (SessionManager.UpdateTab).
THEOREM UpdatesKeepShape == Spec => UpdateKeepsShape
<1>1. IInv /\ [Next]_vars =>
        [\A c \in Conns : UpdateLayout(c) /\ ~stale[pageOf[c]] =>
           Shape(ReconstructLayout(tree')) = Shape(ReconstructLayout(tree))]_vars
  BY UpdateShape
<1>2. QED
  BY <1>1, Invariance, PTL DEF Spec, UpdateKeepsShape
=============================================================================
