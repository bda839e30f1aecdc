--------------------------- MODULE TerminalProofs ---------------------------
(***************************************************************************)
(* Proofs about Terminal, for any characters, sizes, output and length of  *)
(* the scrollback: every operation takes a well-formed terminal to a well- *)
(* formed one, whatever is written and whenever it is resized; printing    *)
(* does not split a wide character; a change of height keeps the lines.    *)
(*                                                                         *)
(* One lemma per operation of Screen says which parts of the terminal it   *)
(* changes.  Feed and PushRows compute step by step; what they compute     *)
(* follows by induction on the number of steps (StepsExist, StepsAgree).   *)
(***************************************************************************)
EXTENDS Terminal, TLAPS, WellFoundedInduction, NaturalsInduction

-----------------------------------------------------------------------------
(* Induction *)

Precedes == {p \in Nat \X Nat : p[1] < p[2]}

LEMMA PrecedesWellFounded == IsWellFoundedOn(Precedes, Nat)
BY NatLessThanWellFounded DEF OpToRel, Precedes

\* A set of naturals has a least element.
LEMMA LeastNatural ==
  ASSUME NEW T, T \subseteq Nat, T # {}
  PROVE \E x \in T : \A y \in T : x <= y
<1>1. PICK x \in T : \A y \in T : ~ (<<y, x>> \in Precedes)
  BY PrecedesWellFounded, WFMin
<1>2. ASSUME NEW y \in T PROVE x <= y
  <2>1. x \in Nat /\ y \in Nat
    OBVIOUS
  <2>2. y < x => <<y, x>> \in Precedes
    BY <2>1 DEF Precedes
  <2>3. QED
    BY <1>1, <2>1, <2>2
<1>3. QED
  BY <1>2

\* A set that has 0 and the successor of each of its naturals has them all.
LEMMA Induction ==
  ASSUME NEW T, 0 \in T, \A n \in Nat : n \in T => n + 1 \in T
  PROVE Nat \subseteq T
<1> SUFFICES ASSUME Nat \ T # {} PROVE FALSE
  OBVIOUS
<1>1. PICK x \in Nat \ T : \A y \in Nat \ T : x <= y
  BY LeastNatural
<1>2. x - 1 \in Nat /\ x - 1 \notin Nat \ T
  BY <1>1
<1>3. QED
  BY <1>1, <1>2

\* A set of integers between bounds has a greatest element.
LEMMA MaxOfBounded ==
  ASSUME NEW T, NEW n \in Nat, T \subseteq 0..n, T # {}
  PROVE Max(T) \in T /\ \A y \in T : Max(T) >= y
<1> DEFINE U == {u \in Nat : n - u \in T}
<1>1. \A y \in T : n - y \in U
  OBVIOUS
<1>2. PICK u \in U : \A v \in U : u <= v
  <2>1. U \subseteq Nat /\ U # {}
    BY <1>1
  <2> HIDE DEF U
  <2>2. QED
    BY <2>1, LeastNatural
<1>3. PICK x \in T : u = n - x
  BY <1>2
<1>4. ASSUME NEW y \in T PROVE x >= y
  <2>1. u <= n - y
    BY <1>1, <1>2
  <2>2. QED
    BY <1>3, <2>1
<1>5. QED
  BY <1>3, <1>4 DEF Max

LEMMA MinOfBounded ==
  ASSUME NEW T, T \subseteq Nat, T # {}
  PROVE Min(T) \in T /\ \A y \in T : Min(T) <= y
BY LeastNatural DEF Min

\* A value computed step by step from t0; the function may depend on the number
\* of the step.
Steps(N, X) == [1..N -> [X -> X]]
Computed(f, X, N, t0, g) == f \in [0..N -> X] /\ f[0] = t0 /\ \A i \in 1..N : f[i] = g[i][f[i - 1]]

LEMMA StepsExist ==
  ASSUME NEW X, NEW t0 \in X, NEW N \in Nat, NEW g \in Steps(N, X)
  PROVE \E f : Computed(f, X, N, t0, g)
<1> DEFINE Good(n) == \E f \in [0..n -> X] : f[0] = t0 /\ \A i \in 1..n : f[i] = g[i][f[i - 1]]
           T == {n \in Nat : n <= N => Good(n)}
<1>1. 0 \in T
  <2> DEFINE h == [i \in 0..0 |-> t0]
  <2>1. h \in [0..0 -> X] /\ h[0] = t0 /\ \A i \in 1..0 : h[i] = g[i][h[i - 1]]
    OBVIOUS
  <2> HIDE DEF h
  <2>2. Good(0)
    BY <2>1
  <2>3. QED
    BY <2>2
<1>2. ASSUME NEW n \in Nat, n \in T PROVE n + 1 \in T
  <2> SUFFICES ASSUME n + 1 <= N PROVE Good(n + 1)
    OBVIOUS
  <2>1. PICK f \in [0..n -> X] : f[0] = t0 /\ \A i \in 1..n : f[i] = g[i][f[i - 1]]
    BY <1>2
  <2> DEFINE h == [i \in 0..n + 1 |-> IF i = n + 1 THEN g[n + 1][f[n]] ELSE f[i]]
  <2>2. g[n + 1] \in [X -> X] /\ f[n] \in X
    BY <2>1 DEF Steps
  <2>3. h \in [0..n + 1 -> X] /\ h[0] = t0
    BY <2>1, <2>2
  <2>4. ASSUME NEW i \in 1..n + 1 PROVE h[i] = g[i][h[i - 1]]
    <3>1. CASE i = n + 1
      BY <3>1, <2>1
    <3>2. CASE i \in 1..n
      BY <3>2, <2>1
    <3>3. QED
      BY <3>1, <3>2
  <2> HIDE DEF h
  <2>5. QED
    BY <2>3, <2>4
<1>3. N \in T
  <2> HIDE DEF T
  <2>1. QED
    BY <1>1, <1>2, Induction
<1>4. QED
  BY <1>3 DEF Computed

\* Two functions computed by the same steps from the same value.
SameSteps(f, F, N) == f[0] = F[0] /\ \A i \in 1..N : f[i - 1] = F[i - 1] => f[i] = F[i]
SameValues(f, F, N) == \A i \in 0..N : f[i] = F[i]

LEMMA StepsAgree ==
  ASSUME NEW N \in Nat, NEW f, NEW F, SameSteps(f, F, N)
  PROVE SameValues(f, F, N)
<1> DEFINE T == {n \in Nat : n <= N => f[n] = F[n]}
<1>1. 0 \in T
  BY DEF SameSteps
<1>2. ASSUME NEW n \in Nat, n \in T PROVE n + 1 \in T
  <2>1. n + 1 <= N => n + 1 \in 1..N /\ (n + 1) - 1 = n /\ f[n] = F[n]
    BY <1>2
  <2>2. QED
    BY <2>1 DEF SameSteps
<1> HIDE DEF T
<1>3. Nat \subseteq T
  BY <1>1, <1>2, Induction
<1>4. QED
  BY <1>3 DEF T, SameValues

-----------------------------------------------------------------------------
(* Sequences *)

\* The functions on 1..n are the sequences of length n.
LEMMA FunctionIsSequence ==
  ASSUME NEW X, NEW n \in Nat, NEW f \in [1..n -> X]
  PROVE f \in Seq(X) /\ Len(f) = n
OBVIOUS

LEMMA SequenceIsFunction ==
  ASSUME NEW X, NEW f \in Seq(X)
  PROVE f \in [1..Len(f) -> X] /\ Len(f) \in Nat /\ DOMAIN f = 1..Len(f)
OBVIOUS

LEMMA PartOf ==
  ASSUME NEW X, NEW s \in Seq(X), NEW m \in 1..Len(s) + 1, NEW n \in m - 1..Len(s)
  PROVE /\ SubSeq(s, m, n) \in Seq(X) /\ Len(SubSeq(s, m, n)) = n - m + 1
        /\ \A i \in 1..n - m + 1 : SubSeq(s, m, n)[i] = s[m + i - 1]
OBVIOUS

LEMMA RowsUpMoves ==
  ASSUME NEW X, NEW h \in Nat, NEW rows \in [1..h -> X], NEW from \in 1..h, NEW to \in from..h,
         NEW n \in 0..to - from + 1, NEW fill \in X
  PROVE RowsUp(rows, from, to, n, fill) \in [1..h -> X]
<1> DEFINE a == SubSeq(rows, 1, from - 1)
           b == SubSeq(rows, from + n, to)
           c == [i \in 1..n |-> fill]
           d == SubSeq(rows, to + 1, h)
           s == a \o b \o c \o d
<1>1. rows \in Seq(X) /\ Len(rows) = h
  OBVIOUS
<1>2. a \in Seq(X) /\ Len(a) = from - 1
  BY <1>1, PartOf
<1>3. b \in Seq(X) /\ Len(b) = to - from - n + 1
  BY <1>1, PartOf
<1>4. c \in Seq(X) /\ Len(c) = n
  OBVIOUS
<1>5. d \in Seq(X) /\ Len(d) = h - to
  BY <1>1, PartOf
<1>6. RowsUp(rows, from, to, n, fill) = s
  BY <1>1 DEF RowsUp
<1> HIDE DEF a, b, c, d
<1>7. s \in Seq(X) /\ Len(s) = Len(a) + Len(b) + Len(c) + Len(d)
  <2>1. a \in Seq(X) /\ b \in Seq(X) /\ c \in Seq(X) /\ d \in Seq(X)
    BY <1>2, <1>3, <1>4, <1>5
  <2>2. QED
    BY <2>1
<1> HIDE DEF s
<1>8. Len(s) = h
  BY <1>2, <1>3, <1>4, <1>5, <1>7
<1>9. QED
  BY <1>6, <1>7, <1>8, SequenceIsFunction

LEMMA RowsDownMoves ==
  ASSUME NEW X, NEW h \in Nat, NEW rows \in [1..h -> X], NEW from \in 1..h, NEW to \in from..h,
         NEW n \in 0..to - from + 1, NEW fill \in X
  PROVE RowsDown(rows, from, to, n, fill) \in [1..h -> X]
<1> DEFINE a == SubSeq(rows, 1, from - 1)
           b == [i \in 1..n |-> fill]
           c == SubSeq(rows, from, to - n)
           d == SubSeq(rows, to + 1, h)
           s == a \o b \o c \o d
<1>1. rows \in Seq(X) /\ Len(rows) = h
  OBVIOUS
<1>2. a \in Seq(X) /\ Len(a) = from - 1
  BY <1>1, PartOf
<1>3. b \in Seq(X) /\ Len(b) = n
  OBVIOUS
<1>4. c \in Seq(X) /\ Len(c) = to - n - from + 1
  BY <1>1, PartOf
<1>5. d \in Seq(X) /\ Len(d) = h - to
  BY <1>1, PartOf
<1>6. RowsDown(rows, from, to, n, fill) = s
  BY <1>1 DEF RowsDown
<1> HIDE DEF a, b, c, d
<1>7. s \in Seq(X) /\ Len(s) = Len(a) + Len(b) + Len(c) + Len(d)
  <2>1. a \in Seq(X) /\ b \in Seq(X) /\ c \in Seq(X) /\ d \in Seq(X)
    BY <1>2, <1>3, <1>4, <1>5
  <2>2. QED
    BY <2>1
<1> HIDE DEF s
<1>8. Len(s) = h
  BY <1>2, <1>3, <1>4, <1>5, <1>7
<1>9. QED
  BY <1>6, <1>7, <1>8, SequenceIsFunction

-----------------------------------------------------------------------------
(* Screens and terminals *)

LEMMA ActiveScreen ==
  ASSUME NEW w, NEW h, NEW t \in TerminalsOf(w, h)
  PROVE /\ S(t) \in ScreensOf(w, h) /\ t.w = w /\ t.h = h
        /\ t.altActive => S(t).sb = <<>>
        /\ t.pen \in Styles /\ t.modes \in SUBSET Switched /\ t.altActive \in BOOLEAN
        /\ t.ok \in BOOLEAN
BY DEF TerminalsOf, S

\* Everything but the screens is the same.
SameRegisters(t, u) ==
  /\ u.w = t.w /\ u.h = t.h /\ u.altActive = t.altActive /\ u.ok = t.ok
  /\ u.pen = t.pen /\ u.modes = t.modes /\ u.g = t.g /\ u.gl = t.gl /\ u.last = t.last

LEMMA OnScreen ==
  ASSUME NEW w, NEW h, NEW t \in TerminalsOf(w, h), NEW s \in ScreensOf(w, h),
         t.altActive => s.sb = <<>>
  PROVE On(t, s) \in TerminalsOf(w, h) /\ S(On(t, s)) = s /\ SameRegisters(t, On(t, s))
BY DEF TerminalsOf, S, On, SameRegisters

LEMMA ScreenType ==
  ASSUME NEW w, NEW h, NEW s \in ScreensOf(w, h)
  PROVE /\ s.rows \in [1..h -> RowsOf(w)]
        /\ s.x \in 1..w /\ s.y \in 1..h /\ s.pw \in BOOLEAN /\ s.saved \in Saves(w, h)
        /\ s.top \in 1..h /\ s.bot \in 1..h /\ (s.top < s.bot \/ (s.top = 1 /\ s.bot = h))
        /\ s.sb \in Seq(ScrollbackLines) /\ Len(s.sb) <= MaxScrollback
BY DEF ScreensOf

\* Any new cursor.
-----------------------------------------------------------------------------
(* Cells, rows and lines *)

LEMMA BlankIsCell ==
  ASSUME NEW st \in Styles
  PROVE Blank(st) \in Cells /\ Blank(st).w = 1
<1>1. EraseStyle(st) \in Styles
  BY DEF EraseStyle, Styles
<1>2. QED
  BY <1>1 DEF Blank, Cell, Cells

LEMMA BlankRow ==
  ASSUME NEW st \in Styles, NEW w \in Nat
  PROVE /\ Blanks(w, st) \in [1..w -> Cells]
        /\ \A i \in 1..w : Blanks(w, st)[i] = Blank(st)
        /\ [cells |-> Blanks(w, st), wrapped |-> FALSE] \in RowsOf(w)
BY BlankIsCell DEF Blanks, RowsOf

\* A row is a line.
LEMMA RowIsLine ==
  ASSUME NEW w \in Nat, NEW r \in RowsOf(w)
  PROVE r \in ScrollbackLines /\ Len(r.cells) = w
<1>1. r.cells \in [1..w -> Cells] /\ r.wrapped \in BOOLEAN /\ r = [cells |-> r.cells, wrapped |-> r.wrapped]
  BY DEF RowsOf
<1>2. r.cells \in Seq(Cells) /\ Len(r.cells) = w
  BY <1>1, FunctionIsSequence
<1>3. QED
  BY <1>1, <1>2 DEF ScrollbackLines

\* What LastVisible returns: the last cell that is not blank.
LEMMA LastVisibleCell ==
  ASSUME NEW r \in ScrollbackLines
  PROVE /\ LastVisible(r) \in 0..Len(r.cells)
        /\ LastVisible(r) > 0 => ~IsBlank(r.cells[LastVisible(r)])
        /\ \A i \in 1..Len(r.cells) : i > LastVisible(r) => IsBlank(r.cells[i])
<1> DEFINE T == {0} \cup {i \in DOMAIN r.cells : ~IsBlank(r.cells[i])}
<1>1. r.cells \in Seq(Cells)
  BY DEF ScrollbackLines
<1>2. DOMAIN r.cells = 1..Len(r.cells) /\ Len(r.cells) \in Nat
  BY <1>1
<1>3. T \subseteq 0..Len(r.cells) /\ T # {}
  BY <1>2
<1>4. LastVisible(r) = Max(T)
  BY DEF LastVisible
<1>5. Max(T) \in T /\ \A y \in T : Max(T) >= y
  <2> HIDE DEF T
  <2>1. QED
    BY <1>2, <1>3, MaxOfBounded
<1>6. \A i \in 1..Len(r.cells) : i > Max(T) => IsBlank(r.cells[i])
  BY <1>2, <1>5
<1>7. QED
  BY <1>2, <1>3, <1>4, <1>5, <1>6

LEMMA TrimmedLine ==
  ASSUME NEW r \in ScrollbackLines
  PROVE /\ Trimmed(r) \in ScrollbackLines
        /\ Len(Trimmed(r).cells) = LastVisible(r)
        /\ \A i \in 1..LastVisible(r) : Trimmed(r).cells[i] = r.cells[i]
        /\ Trimmed(r).wrapped = r.wrapped
<1>1. r.cells \in Seq(Cells) /\ LastVisible(r) \in 0..Len(r.cells)
  BY LastVisibleCell DEF ScrollbackLines
<1>2. /\ SubSeq(r.cells, 1, LastVisible(r)) \in Seq(Cells)
      /\ Len(SubSeq(r.cells, 1, LastVisible(r))) = LastVisible(r)
      /\ \A i \in 1..LastVisible(r) : SubSeq(r.cells, 1, LastVisible(r))[i] = r.cells[i]
  BY <1>1, PartOf
<1>3. QED
  BY <1>2 DEF Trimmed, ScrollbackLines

LEMMA FittedRow ==
  ASSUME NEW r \in ScrollbackLines, NEW n \in Nat \ {0}
  PROVE /\ Fitted(r, n) \in RowsOf(n)
        /\ Fitted(r, n).wrapped = r.wrapped
        /\ \A i \in 1..n - 1 : Fitted(r, n).cells[i] = IF i <= Len(r.cells) THEN r.cells[i] ELSE Blank("plain")
        /\ LET last == IF n <= Len(r.cells) THEN r.cells[n] ELSE Blank("plain")
           IN Fitted(r, n).cells[n] = IF last.w = 2 THEN Blank("plain") ELSE last
<1> DEFINE b == Blanks(n, "plain")
           all == r.cells \o b
           c == SubSeq(all, 1, n)
<1>1. r.cells \in Seq(Cells) /\ Len(r.cells) \in Nat
  BY DEF ScrollbackLines
<1>2. b \in [1..n -> Cells] /\ \A i \in 1..n : b[i] = Blank("plain")
  BY BlankRow DEF Styles
<1>3. b \in Seq(Cells) /\ Len(b) = n
  BY <1>2, FunctionIsSequence
<1> HIDE DEF b
<1>4. /\ all \in Seq(Cells) /\ Len(all) = Len(r.cells) + Len(b)
      /\ \A i \in 1..Len(r.cells) : all[i] = r.cells[i]
      /\ \A i \in 1..Len(b) : all[Len(r.cells) + i] = b[i]
  BY <1>1, <1>3
<1> HIDE DEF all
<1>5. c \in Seq(Cells) /\ Len(c) = n /\ \A i \in 1..n : c[i] = all[i]
  BY <1>1, <1>3, <1>4, PartOf
<1> HIDE DEF c
<1>6. ASSUME NEW i \in 1..n PROVE c[i] = IF i <= Len(r.cells) THEN r.cells[i] ELSE Blank("plain")
  <2>1. CASE i <= Len(r.cells)
    BY <2>1, <1>1, <1>4, <1>5
  <2>2. CASE i > Len(r.cells)
    <3>1. i - Len(r.cells) \in 1..Len(b) /\ Len(r.cells) + (i - Len(r.cells)) = i
      BY <2>2, <1>1, <1>3
    <3>2. all[i] = b[i - Len(r.cells)]
      BY <3>1, <1>4
    <3>3. QED
      BY <2>2, <3>1, <3>2, <1>1, <1>2, <1>3, <1>5
  <2>3. QED
    BY <2>1, <2>2, <1>1
<1>7. c \in [1..n -> Cells] /\ Blank("plain") \in Cells
  BY <1>5, SequenceIsFunction, BlankIsCell DEF Styles
<1>8. Fitted(r, n) = [r EXCEPT !.cells = IF c[n].w = 2 THEN [c EXCEPT ![n] = Blank("plain")] ELSE c]
  BY DEF Fitted, c, all, b
<1> DEFINE f == IF c[n].w = 2 THEN [c EXCEPT ![n] = Blank("plain")] ELSE c
<1>9. /\ f \in [1..n -> Cells] /\ \A i \in 1..n - 1 : f[i] = c[i]
      /\ f[n] = IF c[n].w = 2 THEN Blank("plain") ELSE c[n]
  BY <1>7
<1>10. Fitted(r, n) = [r EXCEPT !.cells = f]
  BY <1>8
<1> HIDE DEF f
<1>11. Fitted(r, n) \in RowsOf(n) /\ Fitted(r, n).wrapped = r.wrapped /\ Fitted(r, n).cells = f
  BY <1>9, <1>10 DEF ScrollbackLines, RowsOf
<1>12. n \in 1..n /\ \A i \in 1..n - 1 : i \in 1..n
  OBVIOUS
<1>13. QED
  BY <1>6, <1>9, <1>11, <1>12

\* A line is pushed behind the others; what is dropped is at the other end.
LEMMA Pushed ==
  ASSUME NEW sb \in Seq(ScrollbackLines), Len(sb) <= MaxScrollback, NEW r \in ScrollbackLines
  PROVE LET new == PushScrollback(sb, r) IN
        /\ new \in Seq(ScrollbackLines) /\ Len(new) <= MaxScrollback
        /\ \A i \in 1..Len(new) : new[i] = Trimmed(r) \/ \E k \in 1..Len(sb) : new[i] = sb[k]
        /\ Len(sb) < MaxScrollback => new = Append(sb, Trimmed(r))
<1> DEFINE all == Append(sb, Trimmed(r))
           drop == Most(Len(all) - MaxScrollback, MaxScrollback \div 8)
<1>0. MaxScrollback \in Nat /\ Len(sb) \in Nat
  <2>1. Len(sb) \in Nat
    OBVIOUS
  <2>2. QED
    BY <2>1, ScreenAssumption
<1>1. Trimmed(r) \in ScrollbackLines
  BY TrimmedLine
<1>2. /\ all \in Seq(ScrollbackLines) /\ Len(all) = Len(sb) + 1
      /\ \A i \in 1..Len(all) : all[i] = Trimmed(r) \/ \E k \in 1..Len(sb) : all[i] = sb[k]
  BY <1>1
<1> HIDE DEF all
<1>3. CASE MaxScrollback = 0
  BY <1>3 DEF PushScrollback
<1>4. CASE MaxScrollback # 0 /\ Len(all) <= MaxScrollback
  <2>1. PushScrollback(sb, r) = all
    BY <1>4 DEF PushScrollback, all
  <2>2. QED
    BY <2>1, <1>2, <1>4 DEF all
<1>5. CASE MaxScrollback # 0 /\ Len(all) > MaxScrollback
  <2>1. MaxScrollback \in Nat /\ Len(sb) \in Nat
    BY <1>0
  <2>2. Len(all) = MaxScrollback + 1 /\ Len(sb) = MaxScrollback
    BY <2>1, <1>2, <1>5
  <2>3. MaxScrollback \div 8 \in 0..MaxScrollback
    BY <2>1
  <2>4. drop \in 1..Len(all)
    BY <2>1, <2>2, <2>3, <1>5 DEF Most
  <2> DEFINE new == SubSeq(all, drop + 1, Len(all))
  <2>5. PushScrollback(sb, r) = new
    <3>1. ~(Len(all) <= MaxScrollback)
      BY <2>1, <2>2
    <3>2. QED
      BY <1>5, <3>1, Zenon DEF PushScrollback, all
  <2> HIDE DEF drop
  <2>6. /\ new \in Seq(ScrollbackLines) /\ Len(new) = Len(all) - drop
        /\ \A i \in 1..Len(all) - drop : new[i] = all[drop + i]
    <3>1. drop + 1 \in 1..Len(all) + 1 /\ Len(all) \in drop..Len(all)
      BY <2>1, <2>2, <2>4
    <3>2. QED
      BY <3>1, <2>1, <2>2, <2>4, <1>2, PartOf
  <2> HIDE DEF new
  <2>7. ASSUME NEW i \in 1..Len(new) PROVE new[i] = Trimmed(r) \/ \E k \in 1..Len(sb) : new[i] = sb[k]
    <3>1. drop + i \in 1..Len(all) /\ new[i] = all[drop + i]
      BY <2>1, <2>2, <2>4, <2>6
    <3>2. QED
      BY <3>1, <1>2
  <2>8. QED
    BY <2>1, <2>2, <2>4, <2>5, <2>6, <2>7
<1>6. QED
  <2>1. Len(all) <= MaxScrollback \/ Len(all) > MaxScrollback
    BY <1>0, <1>2
  <2>2. QED
    BY <2>1, <1>3, <1>4, <1>5

-----------------------------------------------------------------------------
(* Scrolling *)

LEMMA EmptyRowType ==
  ASSUME NEW w \in Nat \ {0}, NEW h, NEW t \in TerminalsOf(w, h)
  PROVE EmptyRow(t) \in RowsOf(w) /\ \A i \in 1..w : EmptyRow(t).cells[i] = Blank(t.pen)
<1>1. t.w = w /\ t.pen \in Styles
  BY ActiveScreen
<1>2. QED
  BY <1>1, BlankRow DEF EmptyRow

\* Where the rows and lines of a screen come from when it has scrolled.
CameFrom(t, s, v) ==
  /\ \A y \in 1..t.h : v.rows[y].cells = EmptyRow(t).cells \/ \E k \in 1..t.h : v.rows[y].cells = s.rows[k].cells
  /\ \A i \in 1..Len(v.sb) : v.sb[i] = Trimmed(s.rows[1]) \/ \E k \in 1..Len(s.sb) : v.sb[i] = s.sb[k]

LEMMA Scrolled ==
  ASSUME NEW w \in Nat \ {0}, NEW h \in Nat \ {0}, NEW t \in TerminalsOf(w, h), NEW n \in Nat, NEW keep \in BOOLEAN
  PROVE LET u == Scroll(t, n, keep) IN
        /\ u \in TerminalsOf(w, h) /\ SameRegisters(t, u)
        /\ S(u).x = S(t).x /\ S(u).y = S(t).y /\ S(u).pw = S(t).pw
        /\ CameFrom(t, S(t), S(u))
<1> DEFINE s == S(t)
           m == Least(n, s.bot - s.top + 1)
           up == RowsUp(s.rows, s.top, s.bot, m, EmptyRow(t))
           rows == [up EXCEPT ![s.top].wrapped = FALSE]
           sb == IF keep /\ s.top = 1 /\ ~t.altActive THEN PushScrollback(s.sb, s.rows[1]) ELSE s.sb
           v == [s EXCEPT !.rows = rows, !.sb = sb]
<1>1. s \in ScreensOf(w, h) /\ t.w = w /\ t.h = h /\ (t.altActive => s.sb = <<>>)
  BY ActiveScreen
<1>2. /\ s.rows \in [1..h -> RowsOf(w)] /\ s.sb \in Seq(ScrollbackLines) /\ Len(s.sb) <= MaxScrollback
      /\ s.top \in 1..h /\ s.bot \in 1..h /\ s.top <= s.bot
  BY <1>1, ScreenType
<1>3. EmptyRow(t) \in RowsOf(w)
  BY EmptyRowType
<1>4. m \in 0..s.bot - s.top + 1 /\ s.bot \in s.top..h
  BY <1>2 DEF Least
<1> HIDE DEF s, m
<1>5. /\ up \in [1..h -> RowsOf(w)]
      /\ \A i \in 1..h : up[i] = EmptyRow(t) \/ \E k \in 1..h : up[i] = s.rows[k]
  <2> DEFINE Y == {EmptyRow(t)} \cup {s.rows[k] : k \in 1..h}
  <2>1. EmptyRow(t) \in Y /\ s.rows \in [1..h -> Y] /\ Y \subseteq RowsOf(w)
    BY <1>2, <1>3
  <2> HIDE DEF Y
  <2>2. up \in [1..h -> Y]
    BY <2>1, <1>2, <1>4, RowsUpMoves
  <2> HIDE DEF up
  <2>3. QED
    BY <2>1, <2>2 DEF Y
<1> HIDE DEF up
<1>6. /\ rows \in [1..h -> RowsOf(w)]
      /\ \A i \in 1..h : rows[i].cells = up[i].cells
  <2>1. up \in [1..h -> RowsOf(w)] /\ s.top \in 1..h
    BY <1>2, <1>5
  <2>2. QED
    BY <2>1 DEF RowsOf
<1> HIDE DEF rows
<1>7. s.rows[1] \in ScrollbackLines
  BY <1>2, RowIsLine
<1>8. /\ sb \in Seq(ScrollbackLines) /\ Len(sb) <= MaxScrollback /\ (t.altActive => sb = <<>>)
      /\ \A i \in 1..Len(sb) : sb[i] = Trimmed(s.rows[1]) \/ \E k \in 1..Len(s.sb) : sb[i] = s.sb[k]
  <2>1. CASE keep /\ s.top = 1 /\ ~t.altActive
    BY <2>1, <1>2, <1>7, Pushed
  <2>2. CASE ~(keep /\ s.top = 1 /\ ~t.altActive)
    BY <2>2, <1>1, <1>2
  <2>3. QED
    BY <2>1, <2>2
<1> HIDE DEF sb
<1>9. /\ v \in ScreensOf(w, h) /\ v.rows = rows /\ v.sb = sb
      /\ v.x = s.x /\ v.y = s.y /\ v.pw = s.pw
  BY <1>1, <1>6, <1>8 DEF ScreensOf
<1>10. CameFrom(t, s, v)
  BY <1>1, <1>5, <1>6, <1>8, <1>9 DEF CameFrom
<1>11. Scroll(t, n, keep) = On(t, v)
  BY DEF Scroll, v, rows, sb, up, m, s
<1> HIDE DEF v
<1>12. QED
  BY <1>1, <1>8, <1>9, <1>10, <1>11, OnScreen DEF s

LEMMA ScrolledDown ==
  ASSUME NEW w \in Nat \ {0}, NEW h \in Nat \ {0}, NEW t \in TerminalsOf(w, h), NEW n \in Nat
  PROVE ScrollDown(t, n) \in TerminalsOf(w, h) /\ SameRegisters(t, ScrollDown(t, n))
<1> DEFINE s == S(t)
           m == Least(n, s.bot - s.top + 1)
           rows == RowsDown(s.rows, s.top, s.bot, m, EmptyRow(t))
           v == [s EXCEPT !.rows = rows]
<1>1. s \in ScreensOf(w, h) /\ t.w = w /\ t.h = h /\ (t.altActive => s.sb = <<>>)
  BY ActiveScreen
<1>2. /\ s.rows \in [1..h -> RowsOf(w)]
      /\ s.top \in 1..h /\ s.bot \in 1..h /\ s.top <= s.bot
  BY <1>1, ScreenType
<1>3. m \in 0..s.bot - s.top + 1 /\ s.bot \in s.top..h
  BY <1>2 DEF Least
<1> HIDE DEF s, m
<1>4. rows \in [1..h -> RowsOf(w)]
  BY <1>2, <1>3, EmptyRowType, RowsDownMoves
<1> HIDE DEF rows
<1>5. v \in ScreensOf(w, h) /\ v.sb = s.sb
  BY <1>1, <1>4 DEF ScreensOf
<1>6. ScrollDown(t, n) = On(t, v)
  BY DEF ScrollDown, v, rows, m, s
<1> HIDE DEF v
<1>7. QED
  BY <1>1, <1>5, <1>6, OnScreen

\* A screen whose rows and lines are the same has come from the first, in one step more.
LEMMA CameFromSame ==
  ASSUME NEW t, NEW u, NEW s, NEW v, NEW x, SameRegisters(t, u), v.rows = s.rows, v.sb = s.sb
  PROVE /\ CameFrom(u, v, x) <=> CameFrom(t, s, x)
        /\ CameFrom(u, x, v) <=> CameFrom(t, x, s)
        /\ CameFrom(t, s, s)
BY DEF CameFrom, SameRegisters, EmptyRow

\* A line feed leaves the cursor in its column, on a row of the screen.
LEMMA LineFed ==
  ASSUME NEW w \in Nat \ {0}, NEW h \in Nat \ {0}, NEW t \in TerminalsOf(w, h)
  PROVE LET u == LineFeed(t) IN
        /\ u \in TerminalsOf(w, h) /\ SameRegisters(t, u)
        /\ S(u).x = S(t).x /\ S(u).pw = FALSE
        /\ CameFrom(t, S(t), S(u))
<1> DEFINE s == [S(t) EXCEPT !.pw = FALSE]
           t1 == On(t, s)
           v == [s EXCEPT !.y = Least(@ + 1, t.h)]
<1>1. S(t) \in ScreensOf(w, h) /\ t.w = w /\ t.h = h /\ (t.altActive => S(t).sb = <<>>)
  BY ActiveScreen
<1>2. /\ s \in ScreensOf(w, h) /\ s.rows = S(t).rows /\ s.sb = S(t).sb
      /\ s.x = S(t).x /\ s.pw = FALSE /\ s.y \in 1..h
  BY <1>1 DEF ScreensOf
<1> HIDE DEF s
<1>3. t1 \in TerminalsOf(w, h) /\ S(t1) = s /\ SameRegisters(t, t1)
  BY <1>1, <1>2, OnScreen
<1>4. LineFeed(t) = IF s.y = s.bot THEN Scroll(t1, 1, TRUE) ELSE On(t, v)
  BY DEF LineFeed, s
<1>5. CASE s.y = s.bot
  <2> DEFINE u == Scroll(t1, 1, TRUE)
  <2>1. /\ u \in TerminalsOf(w, h) /\ SameRegisters(t1, u)
        /\ S(u).x = S(t1).x /\ S(u).pw = S(t1).pw
        /\ CameFrom(t1, S(t1), S(u))
    <3> HIDE DEF t1
    <3>1. \A n \in Nat, keep \in BOOLEAN : LET z == Scroll(t1, n, keep) IN
            /\ z \in TerminalsOf(w, h) /\ SameRegisters(t1, z)
            /\ S(z).x = S(t1).x /\ S(z).y = S(t1).y /\ S(z).pw = S(t1).pw
            /\ CameFrom(t1, S(t1), S(z))
      BY <1>3, Scrolled
    <3>2. QED
      BY <3>1
  <2> HIDE DEF u, t1
  <2>2. CameFrom(t, S(t), S(u))
    BY <2>1, <1>2, <1>3, CameFromSame
  <2>3. SameRegisters(t, u)
    BY <2>1, <1>3 DEF SameRegisters
  <2>4. LineFeed(t) = u
    BY <1>4, <1>5 DEF u
  <2>5. QED
    BY <2>1, <2>2, <2>3, <2>4, <1>2, <1>3
<1>6. CASE s.y # s.bot
  <2>1. Least(s.y + 1, t.h) \in 1..h
    BY <1>1, <1>2 DEF Least
  <2>2. v \in ScreensOf(w, h) /\ v.rows = s.rows /\ v.sb = s.sb /\ v.x = s.x /\ v.pw = s.pw
    BY <2>1, <1>2 DEF ScreensOf
  <2> HIDE DEF v
  <2>3. /\ On(t, v) \in TerminalsOf(w, h) /\ S(On(t, v)) = v /\ SameRegisters(t, On(t, v))
    BY <2>2, <1>1, <1>2, OnScreen
  <2>4. CameFrom(t, S(t), v)
    BY <2>2, <1>2 DEF CameFrom
  <2>5. QED
    BY <2>2, <2>3, <2>4, <1>2, <1>4, <1>6
<1>7. QED
  BY <1>5, <1>6

LEMMA ReverseIndexed ==
  ASSUME NEW w \in Nat \ {0}, NEW h \in Nat \ {0}, NEW t \in TerminalsOf(w, h)
  PROVE ReverseIndex(t) \in TerminalsOf(w, h) /\ SameRegisters(t, ReverseIndex(t))
<1> DEFINE s == [S(t) EXCEPT !.pw = FALSE]
           t1 == On(t, s)
           v == [s EXCEPT !.y = Most(@ - 1, 1)]
<1>1. S(t) \in ScreensOf(w, h) /\ t.w = w /\ t.h = h /\ (t.altActive => S(t).sb = <<>>)
  BY ActiveScreen
<1>2. s \in ScreensOf(w, h) /\ s.sb = S(t).sb /\ s.y \in 1..h
  BY <1>1 DEF ScreensOf
<1> HIDE DEF s
<1>3. t1 \in TerminalsOf(w, h) /\ SameRegisters(t, t1)
  BY <1>1, <1>2, OnScreen
<1>4. ReverseIndex(t) = IF s.y = s.top THEN ScrollDown(t1, 1) ELSE On(t, v)
  BY DEF ReverseIndex, s
<1>5. ScrollDown(t1, 1) \in TerminalsOf(w, h) /\ SameRegisters(t, ScrollDown(t1, 1))
  <2> HIDE DEF t1
  <2>1. ScrollDown(t1, 1) \in TerminalsOf(w, h) /\ SameRegisters(t1, ScrollDown(t1, 1))
    BY <1>3, ScrolledDown
  <2>2. QED
    BY <2>1, <1>3 DEF SameRegisters
<1>6. On(t, v) \in TerminalsOf(w, h) /\ SameRegisters(t, On(t, v))
  <2>1. Most(s.y - 1, 1) \in 1..h
    BY <1>2 DEF Most
  <2>2. v \in ScreensOf(w, h) /\ v.sb = s.sb
    BY <2>1, <1>2 DEF ScreensOf
  <2> HIDE DEF v
  <2>3. QED
    BY <2>2, <1>1, <1>2, OnScreen
<1>7. QED
  BY <1>4, <1>5, <1>6

LEMMA WrappedLine ==
  ASSUME NEW w \in Nat \ {0}, NEW h \in Nat \ {0}, NEW t \in TerminalsOf(w, h)
  PROVE LET u == WrapToNextLine(t) IN
        /\ u \in TerminalsOf(w, h) /\ SameRegisters(t, u)
        /\ S(u).x = 1 /\ S(u).pw = FALSE
        /\ CameFrom(t, S(t), S(u))
<1> DEFINE s == [S(t) EXCEPT !.x = 1]
           t1 == On(t, s)
           t2 == LineFeed(t1)
           v == [S(t2) EXCEPT !.rows[S(t2).y].wrapped = TRUE]
<1>1. S(t) \in ScreensOf(w, h) /\ t.w = w /\ t.h = h /\ (t.altActive => S(t).sb = <<>>)
  BY ActiveScreen
<1>2. s \in ScreensOf(w, h) /\ s.rows = S(t).rows /\ s.sb = S(t).sb /\ s.x = 1
  BY <1>1 DEF ScreensOf
<1> HIDE DEF s
<1>3. t1 \in TerminalsOf(w, h) /\ S(t1) = s /\ SameRegisters(t, t1)
  BY <1>1, <1>2, OnScreen
<1> HIDE DEF t1
<1>4. /\ t2 \in TerminalsOf(w, h) /\ SameRegisters(t1, t2)
      /\ S(t2).x = 1 /\ S(t2).pw = FALSE
      /\ CameFrom(t1, S(t1), S(t2))
  BY <1>2, <1>3, LineFed
<1> HIDE DEF t2
<1>5. WrapToNextLine(t) = On(t2, v)
  BY DEF WrapToNextLine, t2, t1, s
<1>6. S(t2) \in ScreensOf(w, h) /\ (t2.altActive => S(t2).sb = <<>>)
  BY <1>4, ActiveScreen
<1>7. S(t2).rows \in [1..h -> RowsOf(w)] /\ S(t2).y \in 1..h
  BY <1>6, ScreenType
<1> DEFINE rows == [S(t2).rows EXCEPT ![S(t2).y].wrapped = TRUE]
<1>8. rows \in [1..h -> RowsOf(w)] /\ \A y \in 1..h : rows[y].cells = S(t2).rows[y].cells
  BY <1>7 DEF RowsOf
<1>9. v = [S(t2) EXCEPT !.rows = rows]
  BY <1>6, <1>7 DEF ScreensOf
<1> HIDE DEF rows, v
<1>10. v \in ScreensOf(w, h) /\ v.rows = rows /\ v.sb = S(t2).sb /\ v.x = S(t2).x /\ v.pw = S(t2).pw
  BY <1>6, <1>8, <1>9 DEF ScreensOf
<1>11. On(t2, v) \in TerminalsOf(w, h) /\ S(On(t2, v)) = v /\ SameRegisters(t2, On(t2, v))
  BY <1>4, <1>6, <1>10, OnScreen
<1>12. CameFrom(t, S(t), v)
  <2>1. CameFrom(t, S(t), S(t2))
    BY <1>2, <1>3, <1>4, CameFromSame
  <2>2. QED
    BY <2>1, <1>1, <1>8, <1>10 DEF CameFrom
<1>13. SameRegisters(t, On(t2, v))
  BY <1>3, <1>4, <1>11 DEF SameRegisters
<1>14. QED
  BY <1>4, <1>5, <1>10, <1>11, <1>12, <1>13

-----------------------------------------------------------------------------
(* Printing *)

\* Row y has other cells.
WithCells(s, y, c) == [s EXCEPT !.rows[y].cells = c]

LEMMA NewCells ==
  ASSUME NEW w \in Nat \ {0}, NEW h \in Nat \ {0}, NEW s \in ScreensOf(w, h), NEW y \in 1..h, NEW c \in [1..w -> Cells]
  PROVE LET v == WithCells(s, y, c) IN
        /\ v \in ScreensOf(w, h) /\ v.sb = s.sb
        /\ v.rows[y].cells = c /\ \A k \in 1..h : k # y => v.rows[k] = s.rows[k]
        /\ v.x = s.x /\ v.y = s.y /\ v.pw = s.pw
<1> DEFINE rows == [s.rows EXCEPT ![y].cells = c]
           v == WithCells(s, y, c)
<1>1. s.rows \in [1..h -> RowsOf(w)]
  BY ScreenType
<1>2. /\ rows \in [1..h -> RowsOf(w)] /\ rows[y].cells = c
      /\ \A k \in 1..h : k # y => rows[k] = s.rows[k]
  BY <1>1 DEF RowsOf
<1>3. v = [s EXCEPT !.rows = rows]
  BY DEF ScreensOf, WithCells
<1> HIDE DEF rows, v
<1>4. /\ v \in ScreensOf(w, h) /\ v.rows = rows /\ v.sb = s.sb
      /\ v.x = s.x /\ v.y = s.y /\ v.pw = s.pw
  BY <1>2, <1>3 DEF ScreensOf
<1>5. QED
  BY <1>2, <1>4 DEF v

\* The row the cursor is on.
LEMMA CursorRow ==
  ASSUME NEW w, NEW h, NEW s \in ScreensOf(w, h)
  PROVE s.y \in 1..h /\ s.rows[s.y].cells \in [1..w -> Cells]
BY DEF ScreensOf, RowsOf

LEMMA Combined ==
  ASSUME NEW w \in Nat \ {0}, NEW h \in Nat \ {0}, NEW t \in TerminalsOf(w, h)
  PROVE LET u == Combine(t) IN
        /\ u \in TerminalsOf(w, h) /\ SameRegisters(t, u)
        /\ S(u).sb = S(t).sb
        /\ \A y \in 1..h, i \in 1..w : S(u).rows[y].cells[i].w = S(t).rows[y].cells[i].w
<1> DEFINE s == S(t)
           cells == s.rows[s.y].cells
           last == IF s.pw THEN t.w ELSE s.x - 1
           x == IF last > 1 /\ cells[last].w = 0 THEN last - 1 ELSE last
           d == [cells[x] EXCEPT !.ch = IF @ = "" THEN " " ELSE @, !.mark = TRUE]
           c == [cells EXCEPT ![x] = d]
           v == WithCells(s, s.y, c)
<1>1. s \in ScreensOf(w, h) /\ t.w = w /\ t.h = h /\ (t.altActive => s.sb = <<>>)
  BY ActiveScreen
<1>2. s.y \in 1..h /\ cells \in [1..w -> Cells] /\ s.x \in 1..w /\ s.pw \in BOOLEAN
  BY <1>1, CursorRow, ScreenType
<1>3. CASE last = 0 \/ (cells[x].ch = "" /\ cells[x].w # 1)
  <2>1. Combine(t) = t
    BY <1>3 DEF Combine
  <2>2. QED
    BY <2>1 DEF SameRegisters
<1>4. CASE ~ (last = 0 \/ (cells[x].ch = "" /\ cells[x].w # 1))
  <2>1. Combine(t) = On(t, [s EXCEPT !.rows[s.y].cells[x] = d])
    BY <1>4 DEF Combine
  <2>2. [s EXCEPT !.rows[s.y].cells[x] = d] = v
    BY DEF WithCells
  <2>3. last \in 0..w
    BY <1>1, <1>2
  <2>4. x \in 1..w
    <3>1. last # 0
      BY <1>4
    <3> HIDE DEF last, cells
    <3>2. QED
      BY <3>1, <2>3
  <2> HIDE DEF x, cells
  <2>5. d \in Cells /\ d.w = cells[x].w
    BY <1>2, <2>4, ScreenAssumption DEF Cells
  <2> HIDE DEF d
  <2>6. c \in [1..w -> Cells] /\ \A i \in 1..w : c[i].w = cells[i].w
    BY <1>2, <2>4, <2>5
  <2> HIDE DEF c
  <2>7. /\ v \in ScreensOf(w, h) /\ v.sb = s.sb
        /\ v.rows[s.y].cells = c /\ \A k \in 1..h : k # s.y => v.rows[k] = s.rows[k]
    BY <1>1, <1>2, <2>6, NewCells
  <2> HIDE DEF v
  <2>8. On(t, v) \in TerminalsOf(w, h) /\ S(On(t, v)) = v /\ SameRegisters(t, On(t, v))
    BY <1>1, <2>7, OnScreen
  <2>9. \A y \in 1..h, i \in 1..w : v.rows[y].cells[i].w = s.rows[y].cells[i].w
    BY <2>6, <2>7 DEF cells
  <2>10. Combine(t) = On(t, v)
    BY <2>1, <2>2
  <2> HIDE DEF s
  <2>11. QED
    BY <2>7, <2>8, <2>9, <2>10, ZenonT(60) DEF s
<1>5. QED
  BY <1>3, <1>4

LEMMA InsertedCells ==
  ASSUME NEW w \in Nat \ {0}, NEW h \in Nat \ {0}, NEW t \in TerminalsOf(w, h), NEW n \in Nat \ {0}
  PROVE LET u == InsertCells(t, n) IN
        /\ u \in TerminalsOf(w, h) /\ SameRegisters(t, u)
        /\ S(u).x = S(t).x /\ S(u).y = S(t).y
<1> DEFINE s == S(t)
           m == Least(n, t.w - s.x + 1)
           old == s.rows[s.y].cells
           a == SubSeq(old, 1, s.x - 1)
           b == Blanks(m, t.pen)
           d == SubSeq(old, s.x, t.w - m)
           new == a \o b \o d
           c == IF new[t.w].w = 2 THEN [new EXCEPT ![t.w] = Blank(new[t.w].st)] ELSE new
           v == WithCells(s, s.y, c)
<1>1. s \in ScreensOf(w, h) /\ t.w = w /\ t.h = h /\ (t.altActive => s.sb = <<>>) /\ t.pen \in Styles
  BY ActiveScreen
<1>2. s.y \in 1..h /\ old \in [1..w -> Cells] /\ s.x \in 1..w
  BY <1>1, CursorRow, ScreenType
<1>3. m \in 1..w - s.x + 1
  BY <1>1, <1>2 DEF Least
<1>4. InsertCells(t, n) = On(t, v)
  BY DEF InsertCells, WithCells
<1> HIDE DEF m, old, s
<1>5. old \in Seq(Cells) /\ Len(old) = w
  BY <1>2, FunctionIsSequence
<1>6. a \in Seq(Cells) /\ Len(a) = s.x - 1
  BY <1>2, <1>5, PartOf
<1>7. b \in Seq(Cells) /\ Len(b) = m
  <2>1. m \in Nat
    BY <1>2, <1>3
  <2>2. b \in [1..m -> Cells]
    BY <1>1, <2>1, BlankRow
  <2>3. QED
    BY <2>1, <2>2, FunctionIsSequence
<1>8. d \in Seq(Cells) /\ Len(d) = w - m - s.x + 1
  BY <1>1, <1>2, <1>3, <1>5, PartOf
<1> HIDE DEF a, b, d
<1>9. new \in Seq(Cells) /\ Len(new) = Len(a) + Len(b) + Len(d)
  <2>1. a \in Seq(Cells) /\ b \in Seq(Cells) /\ d \in Seq(Cells)
    BY <1>6, <1>7, <1>8
  <2>2. QED
    BY <2>1
<1> HIDE DEF new
<1>10. Len(new) = w
  BY <1>2, <1>3, <1>6, <1>7, <1>8, <1>9, SMTT(30)
<1>11. new \in [1..w -> Cells]
  BY <1>9, <1>10, SequenceIsFunction
<1>12. c \in [1..w -> Cells]
  <2>1. new[w] \in Cells
    BY <1>11
  <2>2. new[w].st \in Styles
    BY <2>1 DEF Cells
  <2>3. Blank(new[w].st) \in Cells
    BY <2>2, BlankIsCell
  <2>4. QED
    BY <2>3, <1>1, <1>11
<1> HIDE DEF c
<1>13. v \in ScreensOf(w, h) /\ v.sb = s.sb /\ v.x = s.x /\ v.y = s.y
  BY <1>1, <1>2, <1>12, NewCells
<1> HIDE DEF v
<1>14. On(t, v) \in TerminalsOf(w, h) /\ S(On(t, v)) = v /\ SameRegisters(t, On(t, v))
  BY <1>1, <1>13, OnScreen
<1>15. QED
  BY <1>4, <1>13, <1>14 DEF s

\* What Overwrite leaves in column i.
LEMMA Overwritten ==
  ASSUME NEW w \in Nat \ {0}, NEW cells \in [1..w -> Cells], NEW x \in 1..w, NEW c \in Runes, NEW n \in 1..2,
         NEW st \in Styles
  PROVE LET new == Overwrite(cells, x, c, n, st) IN
        /\ new \in [1..w -> Cells]
        /\ new[x].w = n
        /\ n = 2 /\ x + 1 \in 1..w => new[x + 1].w = 0
        /\ \A i \in 1..w :
             i # x /\ ~(n = 2 /\ i = x + 1) =>
               new[i].w = IF \/ i = x - 1 /\ cells[x].w = 0
                             \/ i = x + 1 /\ n = 1 /\ cells[x].w = 2
                             \/ i = x + 2 /\ n = 2 /\ cells[x + 1].w = 2
                          THEN 1 ELSE cells[i].w
<1> DEFINE new == Overwrite(cells, x, c, n, st)
           here == Cell(IF c = " " THEN "" ELSE c, n, st)
           half == Cell("", 0, st)
<1>1. here \in Cells /\ here.w = n /\ half \in Cells /\ half.w = 0
  <2>1. \A ch \in Runes \cup {""}, m \in 0..2 : Cell(ch, m, st) \in Cells /\ Cell(ch, m, st).w = m
    BY DEF Cell, Cells
  <2>2. (IF c = " " THEN "" ELSE c) \in Runes \cup {""}
    <3>1. c \in Runes \cup {""} /\ "" \in Runes \cup {""}
      OBVIOUS
    <3>2. QED
      BY <3>1, Zenon
  <2>3. n \in 0..2 /\ 0 \in 0..2 /\ "" \in Runes \cup {""}
    OBVIOUS
  <2>4. QED
    BY <2>1, <2>2, <2>3
<1>2. \A i \in 1..w : Blank(cells[i].st) \in Cells /\ Blank(cells[i].st).w = 1
  <2>1. \A i \in 1..w : cells[i].st \in Styles
    BY DEF Cells
  <2>2. QED
    BY <2>1, BlankIsCell
<1> DEFINE B(i) == Blank(cells[i].st)
           f == [i \in 1..w |->
             CASE i = x -> here
               [] i = x + 1 /\ n = 2 -> half
               [] \/ i = x - 1 /\ cells[x].w = 0
                  \/ i = x + 1 /\ n = 1 /\ cells[x].w = 2
                  \/ i = x + 2 /\ n = 2 /\ cells[x + 1].w = 2 -> B(i)
               [] OTHER -> cells[i]]
<1>3. new = f
  BY DEF Overwrite
<1> HIDE DEF here, half, B, new
<1>4. \A i \in 1..w : B(i) \in Cells /\ B(i).w = 1
  BY <1>2 DEF B
<1>5. ASSUME NEW i \in 1..w
      PROVE /\ f[i] \in Cells
            /\ i = x => f[i] = here
            /\ i # x /\ n = 2 /\ i = x + 1 => f[i] = half
            /\ i # x /\ ~(n = 2 /\ i = x + 1) =>
                 f[i] = IF \/ i = x - 1 /\ cells[x].w = 0
                           \/ i = x + 1 /\ n = 1 /\ cells[x].w = 2
                           \/ i = x + 2 /\ n = 2 /\ cells[x + 1].w = 2
                        THEN B(i) ELSE cells[i]
  <2>1. CASE i = x
    BY <2>1, <1>1
  <2>2. CASE i # x /\ i = x + 1 /\ n = 2
    BY <2>2, <1>1
  <2>3. CASE /\ i # x /\ ~(i = x + 1 /\ n = 2)
             /\ \/ i = x - 1 /\ cells[x].w = 0
                \/ i = x + 1 /\ n = 1 /\ cells[x].w = 2
                \/ i = x + 2 /\ n = 2 /\ cells[x + 1].w = 2
    BY <2>3, <1>4
  <2>4. CASE /\ i # x /\ ~(i = x + 1 /\ n = 2)
             /\ ~ \/ i = x - 1 /\ cells[x].w = 0
                  \/ i = x + 1 /\ n = 1 /\ cells[x].w = 2
                  \/ i = x + 2 /\ n = 2 /\ cells[x + 1].w = 2
    BY <2>4
  <2>5. QED
    BY <2>1, <2>2, <2>3, <2>4
<1>6. f \in [1..w -> Cells]
  BY <1>5
<1> HIDE DEF f
<1>7. QED
  BY <1>1, <1>3, <1>4, <1>5, <1>6 DEF new

\* A row of whole wide characters stays one under Overwrite.
LEMMA OverwriteKeepsWhole ==
  ASSUME NEW w \in Nat \ {0}, NEW r \in RowsOf(w), NEW q \in RowsOf(w), NEW x \in 1..w, NEW c \in Runes,
         NEW n \in 1..2, NEW st \in Styles,
         x + n - 1 <= w, WideWhole(r), q.cells = Overwrite(r.cells, x, c, n, st)
  PROVE WideWhole(q)
<1> DEFINE old == r.cells
           new == q.cells
<1>1. old \in [1..w -> Cells] /\ new \in [1..w -> Cells]
  BY DEF RowsOf
<1>2. \A i \in 1..w : /\ old[i].w = 2 => i + 1 \in 1..w /\ old[i + 1].w = 0
                      /\ old[i].w = 0 => i - 1 \in 1..w /\ old[i - 1].w = 2
  BY <1>1 DEF WideWhole
<1>3. /\ new[x].w = n
      /\ n = 2 /\ x + 1 \in 1..w => new[x + 1].w = 0
      /\ \A i \in 1..w :
           i # x /\ ~(n = 2 /\ i = x + 1) =>
             new[i].w = IF \/ i = x - 1 /\ old[x].w = 0
                           \/ i = x + 1 /\ n = 1 /\ old[x].w = 2
                           \/ i = x + 2 /\ n = 2 /\ old[x + 1].w = 2
                        THEN 1 ELSE old[i].w
  <2>1. new = Overwrite(old, x, c, n, st)
    OBVIOUS
  <2> HIDE DEF old, new
  <2>2. LET z == Overwrite(old, x, c, n, st) IN
        /\ z[x].w = n
        /\ n = 2 /\ x + 1 \in 1..w => z[x + 1].w = 0
        /\ \A i \in 1..w :
             i # x /\ ~(n = 2 /\ i = x + 1) =>
               z[i].w = IF \/ i = x - 1 /\ old[x].w = 0
                           \/ i = x + 1 /\ n = 1 /\ old[x].w = 2
                           \/ i = x + 2 /\ n = 2 /\ old[x + 1].w = 2
                        THEN 1 ELSE old[i].w
    <3>1. old \in [1..w -> Cells]
      BY <1>1
    <3>2. QED
      BY <3>1, Overwritten
  <2>3. QED
    BY <2>1, <2>2, Zenon
<1> HIDE DEF old, new
<1>4. ASSUME NEW i \in 1..w, new[i].w = 2 PROVE i + 1 \in 1..w /\ new[i + 1].w = 0
  <2>1. CASE i = x
    BY <2>1, <1>3, <1>4
  <2>2. CASE i # x
    <3>1. ~(n = 2 /\ i = x + 1) /\ old[i].w = 2
      BY <2>2, <1>3, <1>4
    <3>2. i + 1 \in 1..w /\ old[i + 1].w = 0
      BY <3>1, <1>2
    <3>3. i + 1 # x
      BY <3>1, <3>2, <1>3, <1>4, <2>2
    <3>4. QED
      BY <2>2, <3>1, <3>2, <3>3, <1>2, <1>3, <1>4
  <2>3. QED
    BY <2>1, <2>2
<1>5. ASSUME NEW i \in 1..w, new[i].w = 0 PROVE i - 1 \in 1..w /\ new[i - 1].w = 2
  <2>1. CASE n = 2 /\ i = x + 1
    BY <2>1, <1>3
  <2>2. CASE ~(n = 2 /\ i = x + 1)
    <3>1. i # x /\ old[i].w = 0
      BY <2>2, <1>3, <1>5
    <3>2. i - 1 \in 1..w /\ old[i - 1].w = 2
      BY <3>1, <1>2
    <3>3. i - 1 # x /\ ~(n = 2 /\ i - 1 = x + 1)
      BY <2>2, <3>1, <3>2, <1>3, <1>5
    <3>4. QED
      BY <2>2, <3>1, <3>2, <3>3, <1>2, <1>3, <1>5
  <2>3. QED
    BY <2>1, <2>2
<1>6. DOMAIN q.cells = 1..w
  BY <1>1 DEF new
<1>7. QED
  BY <1>4, <1>5, <1>6 DEF WideWhole, new

\* The lines of a screen are those of its scrollback and its rows.
LEMMA WholeScreen ==
  ASSUME NEW w \in Nat \ {0}, NEW h \in Nat \ {0}, NEW s \in ScreensOf(w, h)
  PROVE ~HasHalfWide(s) <=> /\ \A i \in 1..Len(s.sb) : WideWhole(s.sb[i])
                            /\ \A y \in 1..h : WideWhole(s.rows[y])
<1> DEFINE sb == s.sb
           rows == s.rows
           all == sb \o rows
<1>1. sb \in Seq(ScrollbackLines) /\ rows \in Seq(RowsOf(w)) /\ Len(rows) = h
  BY ScreenType, FunctionIsSequence, SMTT(30)
<1>2. rows \in Seq(ScrollbackLines)
  <2>1. \A i \in 1..h : rows[i] \in ScrollbackLines
    BY ScreenType, RowIsLine
  <2>2. rows \in [1..h -> ScrollbackLines]
    BY <2>1, ScreenType
  <2>3. QED
    BY <2>2, FunctionIsSequence
<1>3. HasHalfWide(s) <=> \E i \in DOMAIN all : ~WideWhole(all[i])
  BY Zenon DEF HasHalfWide, Lines
<1> HIDE DEF sb, rows
<1>4. /\ DOMAIN all = 1..Len(sb) + Len(rows) /\ Len(sb) \in Nat /\ Len(rows) \in Nat
      /\ \A i \in 1..Len(sb) : all[i] = sb[i]
      /\ \A i \in 1..Len(rows) : all[Len(sb) + i] = rows[i]
  <2>1. sb \in Seq(ScrollbackLines) /\ rows \in Seq(ScrollbackLines)
    BY <1>1, <1>2
  <2>2. QED
    BY <2>1
<1> HIDE DEF all
<1>5. ASSUME ~HasHalfWide(s) PROVE (\A i \in 1..Len(sb) : WideWhole(sb[i])) /\ \A y \in 1..h : WideWhole(rows[y])
  <2>1. \A i \in 1..Len(sb) + Len(rows) : WideWhole(all[i])
    BY <1>3, <1>4, <1>5
  <2>2. ASSUME NEW i \in 1..Len(sb) PROVE WideWhole(sb[i])
    <3>1. i \in 1..Len(sb) + Len(rows) /\ all[i] = sb[i]
      BY <1>4
    <3>2. QED
      BY <2>1, <3>1
  <2>3. ASSUME NEW y \in 1..h PROVE WideWhole(rows[y])
    <3>1. Len(sb) + y \in 1..Len(sb) + Len(rows) /\ all[Len(sb) + y] = rows[y]
      BY <1>1, <1>4
    <3>2. WideWhole(all[Len(sb) + y])
      BY <2>1, <3>1
    <3>3. QED
      BY <3>1, <3>2
  <2>4. QED
    BY <2>2, <2>3
<1>6. ASSUME \A i \in 1..Len(sb) : WideWhole(sb[i]), \A y \in 1..h : WideWhole(rows[y]) PROVE ~HasHalfWide(s)
  <2>1. ASSUME NEW i \in 1..Len(sb) + Len(rows) PROVE WideWhole(all[i])
    <3>1. CASE i <= Len(sb)
      BY <3>1, <1>4, <1>6
    <3>2. CASE i > Len(sb)
      <4>1. i - Len(sb) \in 1..Len(rows) /\ Len(sb) + (i - Len(sb)) = i
        BY <3>2, <1>4
      <4>2. all[i] = rows[i - Len(sb)]
        BY <4>1, <1>4
      <4>3. QED
        BY <4>1, <4>2, <1>1, <1>6
    <3>3. QED
      BY <3>1, <3>2, <1>4
  <2>2. QED
    BY <2>1, <1>3, <1>4
<1>7. QED
  BY <1>5, <1>6 DEF sb, rows

\* Blank cells at the end of a line are cut: none of them is half of a wide character.
LEMMA TrimmedKeepsWhole ==
  ASSUME NEW r \in ScrollbackLines, WideWhole(r)
  PROVE WideWhole(Trimmed(r))
<1> DEFINE n == LastVisible(r)
           q == Trimmed(r)
<1>1. /\ r.cells \in Seq(Cells) /\ DOMAIN r.cells = 1..Len(r.cells) /\ Len(r.cells) \in Nat
  BY DEF ScrollbackLines
<1>2. /\ n \in 0..Len(r.cells)
      /\ \A i \in 1..Len(r.cells) : i > n => IsBlank(r.cells[i])
  BY LastVisibleCell
<1>3. /\ q.cells \in Seq(Cells) /\ Len(q.cells) = n
      /\ \A i \in 1..n : q.cells[i] = r.cells[i]
  BY TrimmedLine DEF ScrollbackLines
<1>4. DOMAIN q.cells = 1..n
  BY <1>3
<1> HIDE DEF n, q
<1>5. \A i \in 1..Len(r.cells) :
        /\ r.cells[i].w = 2 => i + 1 \in 1..Len(r.cells) /\ r.cells[i + 1].w = 0
        /\ r.cells[i].w = 0 => i - 1 \in 1..Len(r.cells) /\ r.cells[i - 1].w = 2
  BY <1>1 DEF WideWhole
<1>6. ASSUME NEW i \in 1..n
      PROVE /\ q.cells[i].w = 2 => i + 1 \in 1..n /\ q.cells[i + 1].w = 0
            /\ q.cells[i].w = 0 => i - 1 \in 1..n /\ q.cells[i - 1].w = 2
  <2>1. i \in 1..Len(r.cells) /\ q.cells[i] = r.cells[i]
    BY <1>1, <1>2, <1>3
  <2>2. ASSUME r.cells[i].w = 2 PROVE i + 1 \in 1..n
    <3>1. i + 1 \in 1..Len(r.cells) /\ r.cells[i + 1].w = 0
      BY <2>1, <2>2, <1>5
    <3>2. ~IsBlank(r.cells[i + 1])
      BY <3>1 DEF IsBlank
    <3>3. QED
      BY <3>1, <3>2, <1>2
  <2>3. ASSUME r.cells[i].w = 0 PROVE i - 1 \in 1..n
    BY <2>1, <2>3, <1>1, <1>2, <1>5
  <2>4. QED
    BY <2>1, <2>2, <2>3, <1>3, <1>5
<1>7. QED
  BY <1>4, <1>6 DEF WideWhole, q

LEMMA CameFromKeepsWhole ==
  ASSUME NEW w \in Nat \ {0}, NEW h \in Nat \ {0}, NEW t \in TerminalsOf(w, h),
         NEW s \in ScreensOf(w, h), NEW v \in ScreensOf(w, h), CameFrom(t, s, v), ~HasHalfWide(s)
  PROVE ~HasHalfWide(v)
<1>1. /\ \A i \in 1..Len(s.sb) : WideWhole(s.sb[i])
      /\ \A y \in 1..h : WideWhole(s.rows[y])
  BY WholeScreen
<1>2. ASSUME NEW i \in 1..Len(v.sb) PROVE WideWhole(v.sb[i])
  <2>1. v.sb[i] = Trimmed(s.rows[1]) \/ \E k \in 1..Len(s.sb) : v.sb[i] = s.sb[k]
    BY DEF CameFrom
  <2>2. s.rows[1] \in ScrollbackLines
    <3>1. s.rows[1] \in RowsOf(w)
      BY ScreenType
    <3>2. QED
      BY <3>1, RowIsLine
  <2>3. WideWhole(Trimmed(s.rows[1]))
    BY <2>2, <1>1, TrimmedKeepsWhole
  <2>4. QED
    BY <2>1, <2>3, <1>1
<1>3. ASSUME NEW y \in 1..h PROVE WideWhole(v.rows[y])
  <2>1. t.h = h
    BY ActiveScreen
  <2>2. v.rows[y].cells = EmptyRow(t).cells \/ \E k \in 1..h : v.rows[y].cells = s.rows[k].cells
    BY <2>1 DEF CameFrom
  <2>3. WideWhole(EmptyRow(t))
    <3>1. EmptyRow(t).cells \in [1..w -> Cells] /\ \A i \in 1..w : EmptyRow(t).cells[i].w = 1
      BY EmptyRowType, ActiveScreen, BlankIsCell DEF RowsOf
    <3>2. DOMAIN EmptyRow(t).cells = 1..w
      BY <3>1
    <3>3. QED
      BY <3>1, <3>2 DEF WideWhole
  <2>4. QED
    BY <2>2, <2>3, <1>1, SMTT(30) DEF WideWhole
<1>4. QED
  BY <1>2, <1>3, WholeScreen

LEMMA WrappedPrint ==
  ASSUME NEW w \in Nat \ {0}, NEW h \in Nat \ {0}, NEW t \in TerminalsOf(w, h)
  PROVE LET u == Wrapped(t) IN
        /\ u \in TerminalsOf(w, h) /\ SameRegisters(t, u)
        /\ S(u).pw = FALSE
        /\ ~S(t).pw => u = t
        /\ S(t).pw => S(u).x = IF "autowrap" \in t.modes THEN 1 ELSE w
        /\ CameFrom(t, S(t), S(u))
<1> DEFINE s == S(t)
           v == [s EXCEPT !.x = w, !.pw = FALSE]
<1>1. s \in ScreensOf(w, h) /\ t.w = w /\ t.h = h /\ (t.altActive => s.sb = <<>>)
  BY ActiveScreen
<1>2. CASE ~s.pw
  <2>1. Wrapped(t) = t
    BY <1>2 DEF Wrapped
  <2>2. CameFrom(t, s, s)
    BY DEF CameFrom
  <2>3. s.pw = FALSE
    BY <1>1, <1>2, ScreenType
  <2>4. QED
    BY <1>2, <2>1, <2>2, <2>3 DEF SameRegisters
<1>3. CASE s.pw /\ "autowrap" \in t.modes
  <2>1. Wrapped(t) = WrapToNextLine(t)
    BY <1>3 DEF Wrapped
  <2>2. QED
    BY <1>3, <2>1, WrappedLine
<1>4. CASE s.pw /\ "autowrap" \notin t.modes
  <2>1. Wrapped(t) = On(t, v)
    BY <1>1, <1>4 DEF Wrapped
  <2>2. /\ v \in ScreensOf(w, h) /\ v.rows = s.rows /\ v.sb = s.sb /\ v.x = w /\ v.pw = FALSE
    <3>1. w \in 1..w /\ FALSE \in BOOLEAN
      OBVIOUS
    <3>2. v \in ScreensOf(w, h)
      BY <1>1, <3>1 DEF ScreensOf
    <3>3. QED
      BY <1>1, <3>2 DEF ScreensOf
  <2> HIDE DEF v
  <2>3. On(t, v) \in TerminalsOf(w, h) /\ S(On(t, v)) = v /\ SameRegisters(t, On(t, v))
    BY <1>1, <2>2, OnScreen
  <2>4. CameFrom(t, s, v)
    BY <2>2 DEF CameFrom
  <2>5. QED
    BY <1>4, <2>1, <2>2, <2>3, <2>4
<1>5. QED
  BY <1>2, <1>3, <1>4

\* Where a wide character finds no room over a second half.
TailCut(t, n) ==
  /\ "autowrap" \in t.modes /\ n = 2 /\ S(t).x = t.w
  /\ S(t).rows[S(t).y].cells[t.w].w = 0

LEMMA RoomMade ==
  ASSUME NEW w \in Nat \ {0}, NEW h \in Nat \ {0}, NEW t \in TerminalsOf(w, h), NEW n \in 1..2, n <= w
  PROVE LET u == MadeRoom(t, n) IN
        /\ u \in TerminalsOf(w, h) /\ SameRegisters(t, u)
        /\ S(u).x + n - 1 <= w
        /\ ~HasHalfWide(S(t)) /\ ~TailCut(t, n) => ~HasHalfWide(S(u))
<1> DEFINE s == S(t)
           c == [s.rows[s.y].cells EXCEPT ![s.x] = Blank(t.pen)]
           v == WithCells(s, s.y, c)
           z == [s EXCEPT !.x = w - 1]
<1>1. s \in ScreensOf(w, h) /\ t.w = w /\ t.h = h /\ (t.altActive => s.sb = <<>>) /\ t.pen \in Styles
  BY ActiveScreen
<1>2. s.x \in 1..w
  BY <1>1, ScreenType
<1>3. CASE n = 1 \/ s.x < w
  <2>1. MadeRoom(t, n) = t
    BY <1>1, <1>3 DEF MadeRoom
  <2>2. s.x + n - 1 <= w
    BY <1>2, <1>3
  <2>3. QED
    BY <2>1, <2>2 DEF SameRegisters
<1>4. CASE ~(n = 1 \/ s.x < w) /\ "autowrap" \in t.modes
  <2>1. n = 2 /\ s.x = w
    BY <1>2, <1>4
  <2>2. MadeRoom(t, n) = WrapToNextLine(On(t, v))
    BY <1>1, <1>4 DEF MadeRoom, WithCells
  <2>3. s.y \in 1..h /\ s.rows[s.y].cells \in [1..w -> Cells]
    BY <1>1, CursorRow
  <2>4. Blank(t.pen) \in Cells /\ Blank(t.pen).w = 1
    BY <1>1, BlankIsCell
  <2>5. c \in [1..w -> Cells] /\ c[w].w = 1 /\ \A i \in 1..w : i # w => c[i] = s.rows[s.y].cells[i]
    BY <2>1, <2>3, <2>4
  <2> HIDE DEF c
  <2>6. /\ v \in ScreensOf(w, h) /\ v.sb = s.sb
        /\ v.rows[s.y].cells = c /\ \A k \in 1..h : k # s.y => v.rows[k] = s.rows[k]
    <3>1. s \in ScreensOf(w, h) /\ s.y \in 1..h /\ c \in [1..w -> Cells]
      BY <1>1, <2>3, <2>5
    <3>2. QED
      BY <3>1, NewCells, SMTT(30)
  <2> HIDE DEF v
  <2> DEFINE t1 == On(t, v)
             u == WrapToNextLine(t1)
  <2>7. t1 \in TerminalsOf(w, h) /\ S(t1) = v /\ SameRegisters(t, t1)
    BY <1>1, <2>6, OnScreen
  <2> HIDE DEF t1
  <2>8. u \in TerminalsOf(w, h) /\ SameRegisters(t1, u) /\ S(u).x = 1 /\ CameFrom(t1, v, S(u))
    BY <2>7, WrappedLine
  <2> HIDE DEF u
  <2>9. ASSUME ~HasHalfWide(s), ~TailCut(t, n) PROVE ~HasHalfWide(S(u))
    <3>1. /\ \A i \in 1..Len(s.sb) : WideWhole(s.sb[i])
          /\ \A y \in 1..h : WideWhole(s.rows[y])
      BY <1>1, <2>9, WholeScreen
    <3>2. WideWhole(s.rows[s.y]) /\ DOMAIN s.rows[s.y].cells = 1..w
      BY <3>1, <2>3
    <3>3. s.rows[s.y].cells[w].w # 0
      BY <1>1, <1>4, <2>1, <2>9 DEF TailCut
    <3>4. s.rows[s.y].cells[w].w # 2
      BY <3>2 DEF WideWhole
    <3>5. WideWhole(v.rows[s.y])
      <4>1. DOMAIN v.rows[s.y].cells = 1..w
        BY <2>5, <2>6
      <4> DEFINE o == s.rows[s.y].cells
      <4>2. \A i \in 1..w : /\ o[i].w = 2 => i + 1 \in 1..w /\ o[i + 1].w = 0
                            /\ o[i].w = 0 => i - 1 \in 1..w /\ o[i - 1].w = 2
        BY <3>2 DEF WideWhole
      <4>3. o[w].w # 0 /\ o[w].w # 2 /\ c[w].w = 1 /\ \A i \in 1..w : i # w => c[i] = o[i]
        BY <3>3, <3>4, <2>5
      <4> HIDE DEF o
      <4>4. \A i \in 1..w : c[i].w = 2 => i + 1 \in 1..w /\ c[i + 1].w = 0
        BY <4>2, <4>3
      <4>5. \A i \in 1..w : c[i].w = 0 => i - 1 \in 1..w /\ c[i - 1].w = 2
        BY <4>2, <4>3
      <4>6. QED
        BY <4>1, <4>4, <4>5, <2>6 DEF WideWhole
    <3>6. ~HasHalfWide(v)
      <4>1. \A y \in 1..h : WideWhole(v.rows[y])
        BY <3>1, <3>5, <2>6
      <4>2. \A i \in 1..Len(v.sb) : WideWhole(v.sb[i])
        BY <3>1, <2>6
      <4>3. QED
        BY <4>1, <4>2, <2>6, WholeScreen
    <3>7. S(u) \in ScreensOf(w, h)
      BY <2>8, ActiveScreen
    <3>8. QED
      BY <3>6, <3>7, <2>6, <2>7, <2>8, CameFromKeepsWhole
  <2>10. SameRegisters(t, u)
    BY <2>7, <2>8 DEF SameRegisters
  <2>11. QED
    BY <2>1, <2>2, <2>8, <2>9, <2>10 DEF u, t1
<1>5. CASE ~(n = 1 \/ s.x < w) /\ "autowrap" \notin t.modes
  <2>1. n = 2 /\ s.x = w /\ w - 1 \in 1..w
    BY <1>2, <1>5
  <2>2. MadeRoom(t, n) = On(t, z)
    BY <1>1, <1>5 DEF MadeRoom
  <2>3. z \in ScreensOf(w, h) /\ z.rows = s.rows /\ z.sb = s.sb /\ z.x = w - 1
    BY <1>1, <2>1 DEF ScreensOf
  <2> HIDE DEF z
  <2>4. On(t, z) \in TerminalsOf(w, h) /\ S(On(t, z)) = z /\ SameRegisters(t, On(t, z))
    BY <1>1, <2>3, OnScreen
  <2>5. ~HasHalfWide(s) => ~HasHalfWide(z)
    BY <2>3 DEF HasHalfWide, Lines
  <2>6. z.x + n - 1 <= w
    BY <2>1, <2>3
  <2>7. QED
    BY <2>2, <2>4, <2>5, <2>6
<1>6. QED
  BY <1>3, <1>4, <1>5

LEMMA GlyphIsRune ==
  ASSUME NEW w, NEW h, NEW t \in TerminalsOf(w, h), NEW c \in Runes
  PROVE Glyph(t, c) \in Runes /\ Width(Glyph(t, c)) \in 0..2
<1>1. "-" \in Runes
  BY ScreenAssumption
<1>2. Glyph(t, c) \in Runes
  BY <1>1, Zenon DEF Glyph
<1>3. \A g : Width(g) \in 0..2
  BY DEF Width
<1>4. QED
  BY <1>2, <1>3

\* The last step of print: the character goes where room was made for it.
Placed(u, g, n, st) ==
  LET s == S(u) IN
  On(u, [s EXCEPT !.rows[s.y].cells = Overwrite(@, s.x, g, n, st),
                  !.x = Least(@ + n, u.w),
                  !.pw = s.x + n > u.w])

LEMMA PlacedRune ==
  ASSUME NEW w \in Nat \ {0}, NEW h \in Nat \ {0}, NEW u \in TerminalsOf(w, h), NEW g \in Runes,
         NEW n \in 1..2, NEW st \in Styles
  PROVE /\ Placed(u, g, n, st) \in TerminalsOf(w, h) /\ SameRegisters(u, Placed(u, g, n, st))
        /\ S(u).x + n - 1 <= w /\ ~HasHalfWide(S(u)) => ~HasHalfWide(S(Placed(u, g, n, st)))
<1> DEFINE s == S(u)
           c == Overwrite(s.rows[s.y].cells, s.x, g, n, st)
           x == Least(s.x + n, u.w)
           pw == s.x + n > u.w
           v == WithCells(s, s.y, c)
           z == [v EXCEPT !.x = x, !.pw = pw]
<1>1. s \in ScreensOf(w, h) /\ u.w = w /\ u.h = h /\ (u.altActive => s.sb = <<>>)
  BY ActiveScreen
<1>2. s.y \in 1..h /\ s.rows[s.y].cells \in [1..w -> Cells] /\ s.x \in 1..w /\ s.rows \in [1..h -> RowsOf(w)]
  BY <1>1, CursorRow, ScreenType
<1>3. c \in [1..w -> Cells]
  BY <1>2, Overwritten
<1>4. x \in 1..w /\ pw \in BOOLEAN
  BY <1>1, <1>2 DEF Least
<1>5. Placed(u, g, n, st) = On(u, z)
  BY DEF Placed, WithCells
<1> HIDE DEF x, pw, c, s
<1>6. /\ v \in ScreensOf(w, h) /\ v.sb = s.sb
      /\ v.rows[s.y].cells = c /\ \A k \in 1..h : k # s.y => v.rows[k] = s.rows[k]
  <2>1. s \in ScreensOf(w, h) /\ s.y \in 1..h /\ c \in [1..w -> Cells]
    BY <1>1, <1>2, <1>3
  <2>2. QED
    BY <2>1, NewCells
<1> HIDE DEF v
<1>7. z \in ScreensOf(w, h) /\ z.rows = v.rows /\ z.sb = v.sb
  BY <1>4, <1>6 DEF ScreensOf
<1> HIDE DEF z
<1>8. On(u, z) \in TerminalsOf(w, h) /\ S(On(u, z)) = z /\ SameRegisters(u, On(u, z))
  BY <1>1, <1>6, <1>7, OnScreen
<1>9. ASSUME s.x + n - 1 <= w, ~HasHalfWide(s) PROVE ~HasHalfWide(z)
  <2>1. /\ \A i \in 1..Len(s.sb) : WideWhole(s.sb[i])
        /\ \A y \in 1..h : WideWhole(s.rows[y])
    BY <1>1, <1>9, WholeScreen
  <2>2. s.rows[s.y] \in RowsOf(w) /\ v.rows[s.y] \in RowsOf(w)
    BY <1>2, <1>6, ScreenType
  <2>3. WideWhole(s.rows[s.y])
    BY <1>2, <2>1
  <2>4. WideWhole(v.rows[s.y])
    BY <2>2, <2>3, <1>2, <1>6, <1>9, OverwriteKeepsWhole DEF c
  <2>5. \A y \in 1..h : WideWhole(v.rows[y])
    BY <2>1, <2>4, <1>6
  <2>6. \A i \in 1..Len(v.sb) : WideWhole(v.sb[i])
    BY <2>1, <1>6
  <2>7. ~HasHalfWide(v)
    BY <2>5, <2>6, <1>6, WholeScreen
  <2>8. QED
    BY <2>7, <1>7 DEF HasHalfWide, Lines
<1>10. QED
  BY <1>5, <1>8, <1>9 DEF s

LEMMA Printed ==
  ASSUME NEW w \in Nat \ {0}, NEW h \in Nat \ {0}, NEW t \in TerminalsOf(w, h), NEW c \in Runes
  PROVE LET u == PrintRune(t, c) IN
        /\ u \in TerminalsOf(w, h)
        /\ u.ok = t.ok \/ w = 1
        /\ ~HasHalfWide(S(t)) /\ "insert" \notin t.modes /\ ~NoRoomOverTail(t) => ~HasHalfWide(S(u))
<1> DEFINE g == Glyph(t, c)
           n == Width(g)
           t1 == [t EXCEPT !.last = g]
           t2 == Wrapped(t1)
           at == MadeRoom(t2, n)
           u == IF "insert" \in t.modes THEN InsertCells(at, n) ELSE at
<1>1. g \in Runes /\ n \in 0..2
  BY GlyphIsRune
<1>2. S(t) \in ScreensOf(w, h) /\ t.w = w /\ t.h = h /\ t.pen \in Styles /\ t.modes \in SUBSET Switched
  BY ActiveScreen
<1>3. PrintRune(t, c) = IF n = 0 THEN Combine(t)
                        ELSE IF n > t.w THEN [t EXCEPT !.ok = FALSE]
                        ELSE Placed(u, g, n, t.pen)
  <2>1. ASSUME n # 0, ~(n > t.w) PROVE u.w = t.w
    <3>1. n \in 1..2 /\ n <= w
      BY <1>1, <1>2, <2>1
    <3>2. t1 \in TerminalsOf(w, h)
      BY <1>1 DEF TerminalsOf
    <3> HIDE DEF t1, n
    <3>3. t2 \in TerminalsOf(w, h)
      BY <3>2, WrappedPrint
    <3> HIDE DEF t2
    <3>4. at \in TerminalsOf(w, h)
      BY <3>1, <3>3, RoomMade
    <3> HIDE DEF at
    <3>5. u \in TerminalsOf(w, h)
      BY <3>1, <3>4, InsertedCells
    <3>6. QED
      BY <3>5, <1>2, ActiveScreen
  <2>2. QED
    BY <2>1 DEF PrintRune, Placed
<1>4. CASE n = 0
  <2>1. PrintRune(t, c) = Combine(t)
    BY <1>3, <1>4
  <2> DEFINE z == Combine(t)
  <2>2. /\ z \in TerminalsOf(w, h) /\ SameRegisters(t, z) /\ S(z).sb = S(t).sb
        /\ \A y \in 1..h, i \in 1..w : S(z).rows[y].cells[i].w = S(t).rows[y].cells[i].w
    BY Combined
  <2> HIDE DEF z
  <2>3. ASSUME ~HasHalfWide(S(t)) PROVE ~HasHalfWide(S(z))
    <3>1. /\ \A i \in 1..Len(S(t).sb) : WideWhole(S(t).sb[i])
          /\ \A y \in 1..h : WideWhole(S(t).rows[y])
      BY <1>2, <2>3, WholeScreen
    <3>2. S(z) \in ScreensOf(w, h)
      BY <2>2, ActiveScreen
    <3>3. /\ \A y \in 1..h : DOMAIN S(t).rows[y].cells = 1..w
          /\ \A y \in 1..h : DOMAIN S(z).rows[y].cells = 1..w
      BY <1>2, <3>2 DEF ScreensOf, RowsOf
    <3>4. ASSUME NEW y \in 1..h PROVE WideWhole(S(z).rows[y])
      <4> DEFINE o == S(t).rows[y].cells
                 d == S(z).rows[y].cells
      <4>1. DOMAIN o = 1..w /\ DOMAIN d = 1..w /\ \A i \in 1..w : d[i].w = o[i].w
        BY <2>2, <3>3
      <4>2. \A i \in 1..w : /\ o[i].w = 2 => i + 1 \in 1..w /\ o[i + 1].w = 0
                            /\ o[i].w = 0 => i - 1 \in 1..w /\ o[i - 1].w = 2
        BY <3>1, <3>3 DEF WideWhole
      <4> HIDE DEF o, d
      <4>3. \A i \in 1..w : /\ d[i].w = 2 => i + 1 \in 1..w /\ d[i + 1].w = 0
                            /\ d[i].w = 0 => i - 1 \in 1..w /\ d[i - 1].w = 2
        BY <4>1, <4>2
      <4>4. QED
        BY <4>1, <4>3 DEF WideWhole, d
    <3>5. QED
      BY <2>2, <3>1, <3>2, <3>4, WholeScreen
  <2>4. QED
    BY <2>1, <2>2, <2>3 DEF SameRegisters, z
<1>5. CASE n # 0 /\ n > t.w
  <2>1. w = 1
    BY <1>1, <1>2, <1>5
  <2>2. PrintRune(t, c) = [t EXCEPT !.ok = FALSE]
    BY <1>3, <1>5
  <2>3. [t EXCEPT !.ok = FALSE] \in TerminalsOf(w, h) /\ S([t EXCEPT !.ok = FALSE]) = S(t)
    BY DEF TerminalsOf, S
  <2>4. QED
    BY <2>1, <2>2, <2>3
<1>6. CASE n # 0 /\ ~(n > t.w)
  <2>1. n \in 1..2 /\ n <= w
    BY <1>1, <1>2, <1>6
  <2>2. PrintRune(t, c) = Placed(u, g, n, t.pen)
    BY <1>3, <1>6
  <2>3. t1 \in TerminalsOf(w, h) /\ S(t1) = S(t) /\ t1.modes = t.modes /\ t1.ok = t.ok /\ t1.w = t.w
    BY <1>1 DEF TerminalsOf, S
  <2> HIDE DEF t1, n, g
  <2>4. /\ t2 \in TerminalsOf(w, h) /\ SameRegisters(t1, t2) /\ S(t2).pw = FALSE
        /\ ~S(t1).pw => t2 = t1
        /\ S(t1).pw => S(t2).x = IF "autowrap" \in t1.modes THEN 1 ELSE w
        /\ CameFrom(t1, S(t1), S(t2))
    BY <2>3, WrappedPrint
  <2> HIDE DEF t2
  <2>5. /\ at \in TerminalsOf(w, h) /\ SameRegisters(t2, at)
        /\ S(at).x + n - 1 <= w
        /\ ~HasHalfWide(S(t2)) /\ ~TailCut(t2, n) => ~HasHalfWide(S(at))
    BY <2>1, <2>4, RoomMade
  <2> HIDE DEF at
  <2>6. u \in TerminalsOf(w, h) /\ u.ok = at.ok /\ ("insert" \notin t.modes => u = at)
    <3>1. CASE "insert" \in t.modes
      <4>1. n \in Nat \ {0}
        BY <2>1
      <4>2. u = InsertCells(at, n)
        BY <3>1
      <4>3. InsertCells(at, n) \in TerminalsOf(w, h) /\ SameRegisters(at, InsertCells(at, n))
        BY <4>1, <2>5, InsertedCells
      <4>4. QED
        BY <3>1, <4>2, <4>3 DEF SameRegisters
    <3>2. CASE "insert" \notin t.modes
      BY <3>2, <2>5
    <3>3. QED
      BY <3>1, <3>2
  <2> HIDE DEF u
  <2>7. /\ Placed(u, g, n, t.pen) \in TerminalsOf(w, h) /\ SameRegisters(u, Placed(u, g, n, t.pen))
        /\ S(u).x + n - 1 <= w /\ ~HasHalfWide(S(u)) => ~HasHalfWide(S(Placed(u, g, n, t.pen)))
    BY <1>1, <1>2, <2>1, <2>6, PlacedRune
  <2>8. ASSUME ~HasHalfWide(S(t)), "insert" \notin t.modes, ~NoRoomOverTail(t)
        PROVE ~HasHalfWide(S(Placed(u, g, n, t.pen)))
    <3>1. ~HasHalfWide(S(t2))
      <4>1. S(t1) \in ScreensOf(w, h) /\ S(t2) \in ScreensOf(w, h) /\ ~HasHalfWide(S(t1))
        BY <2>3, <2>4, <2>8, ActiveScreen
      <4>2. QED
        BY <4>1, <2>3, <2>4, CameFromKeepsWhole
    <3>2. ~TailCut(t2, n)
      <4>1. CASE ~S(t1).pw
        BY <4>1, <2>3, <2>4, <2>8 DEF TailCut, NoRoomOverTail
      <4>2. CASE S(t1).pw /\ "autowrap" \in t1.modes
        <5>1. S(t2).x = 1 /\ t2.w = w
          BY <4>2, <2>4, ActiveScreen
        <5>2. QED
          BY <5>1, <2>1 DEF TailCut
      <4>3. CASE S(t1).pw /\ "autowrap" \notin t1.modes
        BY <4>3, <2>4 DEF TailCut, SameRegisters
      <4>4. QED
        BY <4>1, <4>2, <4>3
    <3>3. QED
      BY <3>1, <3>2, <2>5, <2>6, <2>7, <2>8
  <2>9. Placed(u, g, n, t.pen).ok = t.ok
    BY <2>3, <2>4, <2>5, <2>6, <2>7 DEF SameRegisters
  <2>10. QED
    BY <2>2, <2>7, <2>8, <2>9
<1>7. QED
  BY <1>4, <1>5, <1>6

\* REP: print, so many times.
LEMMA Repeated ==
  ASSUME NEW w \in Nat \ {0}, NEW h \in Nat \ {0}, NEW t \in TerminalsOf(w, h), NEW n \in Nat
  PROVE Repeat(t, n) \in TerminalsOf(w, h) /\ (t.ok \/ w = 1 => Repeat(t, n).ok \/ w = 1)
<1> DEFINE X == {u \in TerminalsOf(w, h) : u.ok = t.ok \/ w = 1}
           g == [i \in 1..n |-> [u \in X |-> PrintRune(u, t.last)]]
           f[i \in 0..n] == IF i = 0 THEN t ELSE PrintRune(f[i - 1], t.last)
<1>1. CASE t.last = ""
  BY <1>1 DEF Repeat
<1>2. CASE t.last # ""
  <2>1. t.last \in Runes
    BY <1>2 DEF TerminalsOf
  <2>2. \A u \in X : PrintRune(u, t.last) \in X
    BY <2>1, Printed
  <2>3. t \in X
    OBVIOUS
  <2> HIDE DEF X
  <2>4. g \in Steps(n, X)
    BY <2>2 DEF Steps
  <2> HIDE DEF g, f
  <2>5. PICK F : Computed(F, X, n, t, g)
    BY <2>3, <2>4, StepsExist
  <2>6. \A i \in 1..n : F[i] = PrintRune(F[i - 1], t.last)
    <3>1. \A i \in 1..n : F[i - 1] \in X
      BY <2>5 DEF Computed
    <3>2. QED
      BY <2>5, <3>1 DEF g, Computed
  <2>7. F = [i \in 0..n |-> IF i = 0 THEN t ELSE PrintRune(F[i - 1], t.last)]
    BY <2>5, <2>6 DEF Computed
  <2>8. f = [i \in 0..n |-> IF i = 0 THEN t ELSE PrintRune(f[i - 1], t.last)]
    BY <2>7 DEF f
  <2>9. Repeat(t, n) = f[n]
    BY <1>2 DEF Repeat, f
  <2>10. SameSteps(f, F, n)
    BY <2>5, <2>6, <2>8 DEF SameSteps, Computed
  <2>11. f[n] = F[n]
    BY <2>10, StepsAgree DEF SameValues
  <2>12. QED
    BY <2>5, <2>9, <2>11 DEF X, Computed
<1>3. QED
  BY <1>1, <1>2

-----------------------------------------------------------------------------
(* The cursor *)

LEMMA NextTabInLine ==
  ASSUME NEW w \in Nat \ {0}, NEW h, NEW t \in TerminalsOf(w, h), NEW x \in 1..w
  PROVE NextTab(t, x) \in 1..w
<1> DEFINE T == {t.w} \cup {i \in t.tabs : i > x}
<1>1. t.w = w /\ t.tabs \subseteq Nat
  BY DEF TerminalsOf
<1>2. T \subseteq 1..w \cup {i \in Nat : i > x} /\ w \in T
  BY <1>1
<1>3. NextTab(t, x) = Min(T)
  BY DEF NextTab
<1> HIDE DEF T
<1>4. Min(T) \in T /\ \A y \in T : Min(T) <= y
  <2>1. T \subseteq Nat /\ T # {}
    BY <1>2
  <2>2. QED
    BY <2>1, MinOfBounded
<1>5. Min(T) \in 1..w \cup {i \in Nat : i > x} /\ Min(T) <= w
  BY <1>2, <1>4
<1>6. QED
  BY <1>3, <1>5

LEMMA PrevTabInLine ==
  ASSUME NEW w \in Nat \ {0}, NEW h, NEW t \in TerminalsOf(w, h), NEW x \in 1..w
  PROVE PrevTab(t, x) \in 1..w
<1> DEFINE T == {1} \cup {i \in t.tabs : i < x}
<1>1. t.tabs \subseteq Nat
  BY DEF TerminalsOf
<1>2. T \subseteq 0..w /\ 1 \in T
  BY <1>1
<1>3. PrevTab(t, x) = Max(T)
  BY DEF PrevTab
<1> HIDE DEF T
<1>4. Max(T) \in T /\ \A y \in T : Max(T) >= y
  BY <1>2, MaxOfBounded
<1>5. Max(T) \in 0..w /\ Max(T) >= 1
  BY <1>2, <1>4
<1>6. QED
  BY <1>3, <1>5

\* An operation keeps the terminal's type and does not panic.
Stays(t, u, w, h) == u \in TerminalsOf(w, h) /\ u.ok = t.ok

LEMMA OnStays ==
  ASSUME NEW w \in Nat \ {0}, NEW h \in Nat \ {0}, NEW t \in TerminalsOf(w, h), NEW s \in ScreensOf(w, h),
         s.sb = S(t).sb \/ (t.altActive => s.sb = <<>>)
  PROVE Stays(t, On(t, s), w, h)
<1>1. t.altActive => s.sb = <<>>
  BY ActiveScreen
<1>2. On(t, s) \in TerminalsOf(w, h) /\ SameRegisters(t, On(t, s))
  BY <1>1, OnScreen
<1>3. QED
  BY <1>2 DEF Stays, SameRegisters

\* CHT and CBT: so many tab stops on.
LEMMA TabbedForward ==
  ASSUME NEW w \in Nat \ {0}, NEW h \in Nat \ {0}, NEW t \in TerminalsOf(w, h), NEW n \in Nat
  PROVE Stays(t, TabForward(t, n), w, h)
<1> DEFINE X == 1..w
           s == S(t)
           g == [i \in 1..n |-> [x \in X |-> NextTab(t, x)]]
           f[i \in 0..n] == IF i = 0 THEN s.x ELSE NextTab(t, f[i - 1])
           v == [s EXCEPT !.x = f[n], !.pw = FALSE]
<1>1. s \in ScreensOf(w, h) /\ (t.altActive => s.sb = <<>>)
  BY ActiveScreen
<1>2. s.x \in X /\ \A x \in X : NextTab(t, x) \in X
  BY <1>1, ScreenType, NextTabInLine
<1>3. TabForward(t, n) = On(t, v)
  BY DEF TabForward
<1> HIDE DEF X, s, f
<1>4. g \in Steps(n, X)
  BY <1>2 DEF Steps
<1> HIDE DEF g
<1>5. PICK F : Computed(F, X, n, s.x, g)
  BY <1>2, <1>4, StepsExist
<1>6. \A i \in 1..n : F[i] = NextTab(t, F[i - 1])
  <2>1. \A i \in 1..n : F[i - 1] \in X
    BY <1>5 DEF Computed
  <2>2. QED
    BY <1>5, <2>1 DEF g, Computed
<1>7. F = [i \in 0..n |-> IF i = 0 THEN s.x ELSE NextTab(t, F[i - 1])]
  BY <1>5, <1>6 DEF Computed
<1>8. f = [i \in 0..n |-> IF i = 0 THEN s.x ELSE NextTab(t, f[i - 1])]
  BY <1>7 DEF f
<1>9. SameSteps(f, F, n)
  BY <1>5, <1>6, <1>8 DEF SameSteps, Computed
<1>10. f[n] \in 1..w
  BY <1>5, <1>9, StepsAgree DEF SameValues, Computed, X
<1> DEFINE x == f[n]
<1> HIDE DEF x
<1>11. v = [s EXCEPT !.x = x, !.pw = FALSE] /\ x \in 1..w
  BY <1>10 DEF x
<1>12. v \in ScreensOf(w, h) /\ v.sb = s.sb
  <2> HIDE DEF v
  <2>1. QED
    BY <1>1, <1>11 DEF ScreensOf
<1> HIDE DEF v
<1>13. QED
  BY <1>1, <1>3, <1>12, OnStays

LEMMA TabbedBackward ==
  ASSUME NEW w \in Nat \ {0}, NEW h \in Nat \ {0}, NEW t \in TerminalsOf(w, h), NEW n \in Nat
  PROVE Stays(t, TabBackward(t, n), w, h)
<1> DEFINE X == 1..w
           s == S(t)
           g == [i \in 1..n |-> [x \in X |-> PrevTab(t, x)]]
           f[i \in 0..n] == IF i = 0 THEN s.x ELSE PrevTab(t, f[i - 1])
           v == [s EXCEPT !.x = f[n], !.pw = FALSE]
<1>1. s \in ScreensOf(w, h) /\ (t.altActive => s.sb = <<>>)
  BY ActiveScreen
<1>2. s.x \in X /\ \A x \in X : PrevTab(t, x) \in X
  BY <1>1, ScreenType, PrevTabInLine
<1>3. TabBackward(t, n) = On(t, v)
  BY DEF TabBackward
<1> HIDE DEF X, s, f
<1>4. g \in Steps(n, X)
  BY <1>2 DEF Steps
<1> HIDE DEF g
<1>5. PICK F : Computed(F, X, n, s.x, g)
  BY <1>2, <1>4, StepsExist
<1>6. \A i \in 1..n : F[i] = PrevTab(t, F[i - 1])
  <2>1. \A i \in 1..n : F[i - 1] \in X
    BY <1>5 DEF Computed
  <2>2. QED
    BY <1>5, <2>1 DEF g, Computed
<1>7. F = [i \in 0..n |-> IF i = 0 THEN s.x ELSE PrevTab(t, F[i - 1])]
  BY <1>5, <1>6 DEF Computed
<1>8. f = [i \in 0..n |-> IF i = 0 THEN s.x ELSE PrevTab(t, f[i - 1])]
  BY <1>7 DEF f
<1>9. SameSteps(f, F, n)
  BY <1>5, <1>6, <1>8 DEF SameSteps, Computed
<1>10. f[n] \in 1..w
  BY <1>5, <1>9, StepsAgree DEF SameValues, Computed, X
<1> DEFINE x == f[n]
<1> HIDE DEF x
<1>11. v = [s EXCEPT !.x = x, !.pw = FALSE] /\ x \in 1..w
  BY <1>10 DEF x
<1>12. v \in ScreensOf(w, h) /\ v.sb = s.sb
  <2> HIDE DEF v
  <2>1. QED
    BY <1>1, <1>11 DEF ScreensOf
<1> HIDE DEF v
<1>13. QED
  BY <1>1, <1>3, <1>12, OnStays

LEMMA CursorPlaced ==
  ASSUME NEW w \in Nat \ {0}, NEW h \in Nat \ {0}, NEW t \in TerminalsOf(w, h), NEW x \in Int, NEW y \in Int
  PROVE Stays(t, MoveCursor(t, x, y), w, h)
<1> DEFINE s == S(t)
           lo == IF "origin" \in t.modes THEN s.top ELSE 1
           hi == IF "origin" \in t.modes THEN s.bot ELSE t.h
           cx == Clamp(x, 1, t.w)
           cy == Clamp(y, lo, hi)
           v == [s EXCEPT !.x = cx, !.y = cy, !.pw = FALSE]
<1>1. s \in ScreensOf(w, h) /\ t.w = w /\ t.h = h
  BY ActiveScreen
<1>2. lo \in 1..h /\ hi \in 1..h /\ lo <= hi
  BY <1>1, ScreenType
<1>3. MoveCursor(t, x, y) = On(t, v)
  BY DEF MoveCursor
<1> HIDE DEF lo, hi
<1>4. cx \in 1..w /\ cy \in 1..h
  BY <1>1, <1>2 DEF Clamp, Least, Most
<1> HIDE DEF cx, cy
<1>5. v \in ScreensOf(w, h) /\ v.sb = s.sb
  BY <1>1, <1>4 DEF ScreensOf
<1> HIDE DEF v
<1>6. QED
  BY <1>3, <1>5, OnStays

LEMMA WentTo ==
  ASSUME NEW w \in Nat \ {0}, NEW h \in Nat \ {0}, NEW t \in TerminalsOf(w, h), NEW x \in Int, NEW y \in Int
  PROVE Stays(t, Goto(t, x, y), w, h)
<1>1. S(t).top \in Int
  BY ActiveScreen, ScreenType
<1>2. (IF "origin" \in t.modes THEN y + S(t).top - 1 ELSE y) \in Int
  BY <1>1
<1>3. QED
  BY <1>2, CursorPlaced DEF Goto

LEMMA ColumnPlaced ==
  ASSUME NEW w \in Nat \ {0}, NEW h \in Nat \ {0}, NEW t \in TerminalsOf(w, h), NEW x \in Int
  PROVE Stays(t, Column(t, x), w, h)
<1> DEFINE s == S(t)
           c == Clamp(x, 1, t.w)
           v == [s EXCEPT !.x = c, !.pw = FALSE]
<1>1. s \in ScreensOf(w, h) /\ t.w = w /\ t.h = h
  BY ActiveScreen
<1>2. c \in 1..w
  BY <1>1, ScreenType DEF Clamp, Least, Most
<1>3. Column(t, x) = On(t, v)
  BY DEF Column
<1> HIDE DEF c
<1>4. v \in ScreensOf(w, h) /\ v.sb = s.sb
  BY <1>1, <1>2 DEF ScreensOf
<1> HIDE DEF v
<1>5. QED
  BY <1>3, <1>4, OnStays

LEMMA CursorWentUp ==
  ASSUME NEW w \in Nat \ {0}, NEW h \in Nat \ {0}, NEW t \in TerminalsOf(w, h), NEW n \in Nat
  PROVE Stays(t, CursorUp(t, n), w, h)
<1> DEFINE s == S(t)
           c == Most(s.y - n, IF s.y >= s.top THEN s.top ELSE 1)
           v == [s EXCEPT !.y = c, !.pw = FALSE]
<1>1. s \in ScreensOf(w, h) /\ t.w = w /\ t.h = h
  BY ActiveScreen
<1>2. c \in 1..h
  BY <1>1, ScreenType DEF Most
<1>3. CursorUp(t, n) = On(t, v)
  BY DEF CursorUp
<1> HIDE DEF c
<1>4. v \in ScreensOf(w, h) /\ v.sb = s.sb
  BY <1>1, <1>2 DEF ScreensOf
<1> HIDE DEF v
<1>5. QED
  BY <1>3, <1>4, OnStays

LEMMA CursorWentDown ==
  ASSUME NEW w \in Nat \ {0}, NEW h \in Nat \ {0}, NEW t \in TerminalsOf(w, h), NEW n \in Nat
  PROVE Stays(t, CursorDown(t, n), w, h)
<1> DEFINE s == S(t)
           c == Least(s.y + n, IF s.y <= s.bot THEN s.bot ELSE t.h)
           v == [s EXCEPT !.y = c, !.pw = FALSE]
<1>1. s \in ScreensOf(w, h) /\ t.w = w /\ t.h = h
  BY ActiveScreen
<1>2. c \in 1..h
  BY <1>1, ScreenType DEF Least
<1>3. CursorDown(t, n) = On(t, v)
  BY DEF CursorDown
<1> HIDE DEF c
<1>4. v \in ScreensOf(w, h) /\ v.sb = s.sb
  BY <1>1, <1>2 DEF ScreensOf
<1> HIDE DEF v
<1>5. QED
  BY <1>3, <1>4, OnStays

LEMMA CursorSaved ==
  ASSUME NEW w \in Nat \ {0}, NEW h \in Nat \ {0}, NEW t \in TerminalsOf(w, h)
  PROVE Stays(t, SaveCursor(t), w, h)
<1> DEFINE s == S(t)
           save == [valid |-> TRUE, x |-> s.x, y |-> s.y, pen |-> t.pen, g |-> t.g,
                    gl |-> t.gl, origin |-> "origin" \in t.modes]
           v == [s EXCEPT !.saved = save]
<1>1. s \in ScreensOf(w, h) /\ t.pen \in Styles /\ t.g \in [1..2 -> Charsets] /\ t.gl \in 1..2
  BY ActiveScreen DEF TerminalsOf
<1>2. s.x \in 1..w /\ s.y \in 1..h
  BY <1>1, ScreenType
<1>3. save \in Saves(w, h)
  BY <1>1, <1>2 DEF Saves
<1>4. SaveCursor(t) = On(t, v)
  BY DEF SaveCursor
<1> HIDE DEF save
<1>5. v \in ScreensOf(w, h) /\ v.sb = s.sb
  BY <1>1, <1>3 DEF ScreensOf
<1> HIDE DEF v
<1>6. QED
  BY <1>4, <1>5, OnStays

LEMMA CursorRestored ==
  ASSUME NEW w \in Nat \ {0}, NEW h \in Nat \ {0}, NEW t \in TerminalsOf(w, h)
  PROVE Stays(t, RestoreCursor(t), w, h)
<1> DEFINE s == S(t)
           a == s.saved
           x == Least(a.x, t.w)
           y == Least(a.y, t.h)
           v == [s EXCEPT !.x = x, !.y = y, !.pw = FALSE]
           m == IF a.origin THEN t.modes \cup {"origin"} ELSE t.modes \ {"origin"}
<1>1. s \in ScreensOf(w, h) /\ t.w = w /\ t.h = h /\ t.modes \in SUBSET Switched
  BY ActiveScreen
<1>2. a \in Saves(w, h)
  BY <1>1, ScreenType
<1>3. CASE ~a.valid
  <2> DEFINE u == MoveCursor(t, 1, 1)
  <2>1. RestoreCursor(t) = [u EXCEPT !.pen = "plain"]
    BY <1>3 DEF RestoreCursor
  <2>2. u \in TerminalsOf(w, h) /\ u.ok = t.ok
    BY CursorPlaced DEF Stays
  <2> HIDE DEF u
  <2>3. QED
    BY <2>1, <2>2 DEF Stays, TerminalsOf, Styles
<1>4. CASE a.valid
  <2>1. x \in 1..w /\ y \in 1..h
    BY <1>1, <1>2 DEF Saves, Least
  <2> DEFINE u == On(t, v)
  <2> HIDE DEF x, y
  <2>2. v \in ScreensOf(w, h) /\ v.sb = s.sb
    BY <1>1, <2>1 DEF ScreensOf
  <2> HIDE DEF v
  <2>3. u \in TerminalsOf(w, h) /\ u.ok = t.ok /\ u.modes = t.modes
    BY <2>2, ActiveScreen, OnScreen DEF SameRegisters
  <2>4. RestoreCursor(t) = [u EXCEPT !.pen = a.pen, !.g = a.g, !.gl = a.gl, !.modes = m]
    <3>1. RestoreCursor(t) = [u EXCEPT !.pen = a.pen, !.g = a.g, !.gl = a.gl,
                                !.modes = IF a.origin THEN @ \cup {"origin"} ELSE @ \ {"origin"}]
      BY <1>4 DEF RestoreCursor, v, x, y
    <3> HIDE DEF u, a
    <3>2. QED
      BY <3>1, <2>3 DEF TerminalsOf
  <2> HIDE DEF u
  <2>5. a.pen \in Styles /\ a.g \in [1..2 -> Charsets] /\ a.gl \in 1..2
    BY <1>2 DEF Saves
  <2>6. m \in SUBSET Switched
    BY <1>1 DEF Switched
  <2> HIDE DEF m, a
  <2>7. QED
    BY <2>3, <2>4, <2>5, <2>6 DEF Stays, TerminalsOf
<1>5. QED
  BY <1>3, <1>4

-----------------------------------------------------------------------------
(* Erase, insert, delete *)

\* Row y is another one.
WithRow(s, y, r) == [s EXCEPT !.rows[y] = r]

LEMMA RowReplaced ==
  ASSUME NEW w \in Nat \ {0}, NEW h \in Nat \ {0}, NEW s \in ScreensOf(w, h), NEW y \in 1..h, NEW r \in RowsOf(w)
  PROVE WithRow(s, y, r) \in ScreensOf(w, h) /\ WithRow(s, y, r).sb = s.sb
<1> DEFINE rows == [s.rows EXCEPT ![y] = r]
<1>1. rows \in [1..h -> RowsOf(w)]
  BY ScreenType
<1>2. WithRow(s, y, r) = [s EXCEPT !.rows = rows]
  BY DEF WithRow
<1> HIDE DEF rows
<1>3. QED
  BY <1>1, <1>2 DEF ScreensOf

LEMMA CellsCleared ==
  ASSUME NEW w \in Nat \ {0}, NEW h, NEW t \in TerminalsOf(w, h), NEW r \in RowsOf(w), NEW from, NEW to
  PROVE ClearCells(t, r, from, to) \in RowsOf(w)
<1> DEFINE c == [i \in DOMAIN r.cells |-> IF i \in from..to THEN Blank(t.pen) ELSE r.cells[i]]
<1>1. r.cells \in [1..w -> Cells] /\ r.wrapped \in BOOLEAN
  BY DEF RowsOf
<1>2. Blank(t.pen) \in Cells
  BY ActiveScreen, BlankIsCell
<1>3. c \in [1..w -> Cells]
  <2>1. DOMAIN r.cells = 1..w
    BY <1>1
  <2>2. ASSUME NEW i \in 1..w PROVE (IF i \in from..to THEN Blank(t.pen) ELSE r.cells[i]) \in Cells
    BY <1>1, <1>2, Zenon
  <2>3. QED
    BY <2>1, <2>2
<1>4. ClearCells(t, r, from, to) = [r EXCEPT !.cells = c]
  BY DEF ClearCells
<1> HIDE DEF c
<1>5. QED
  BY <1>3, <1>4 DEF RowsOf

LEMMA LineErased ==
  ASSUME NEW w \in Nat \ {0}, NEW h \in Nat \ {0}, NEW t \in TerminalsOf(w, h), NEW mode
  PROVE Stays(t, EraseInLine(t, mode), w, h)
<1> DEFINE s == S(t)
           r == s.rows[s.y]
           upTo == IF s.x < t.w /\ r.cells[s.x + 1].w = 0 THEN s.x + 1 ELSE s.x
           from == IF mode = 0 THEN s.x ELSE 1
           to == IF mode = 1 THEN upTo ELSE t.w
           q == ClearCells(t, r, from, to)
           v == WithRow(s, s.y, q)
<1>1. s \in ScreensOf(w, h)
  BY ActiveScreen
<1>2. s.y \in 1..h /\ r \in RowsOf(w)
  BY <1>1, ScreenType
<1>3. EraseInLine(t, mode) = On(t, v)
  BY DEF EraseInLine, WithRow
<1> HIDE DEF r, from, to
<1>4. q \in RowsOf(w)
  BY <1>2, CellsCleared
<1> HIDE DEF q
<1>5. v \in ScreensOf(w, h) /\ v.sb = s.sb
  BY <1>1, <1>2, <1>4, RowReplaced
<1> HIDE DEF v
<1>6. QED
  BY <1>3, <1>5, OnStays

LEMMA DisplayErased ==
  ASSUME NEW w \in Nat \ {0}, NEW h \in Nat \ {0}, NEW t \in TerminalsOf(w, h), NEW mode
  PROVE Stays(t, EraseInDisplay(t, mode), w, h)
<1> DEFINE u == IF mode \in {0, 1} THEN EraseInLine(t, mode) ELSE t
           s == S(u)
           gone == CASE mode = 0 -> s.y + 1..t.h [] mode = 1 -> 1..s.y - 1 [] mode = 2 -> 1..t.h [] OTHER -> {}
           rows == [y \in 1..t.h |-> IF y \in gone THEN EmptyRow(t) ELSE s.rows[y]]
           sb == IF mode = 3 THEN <<>> ELSE s.sb
           v == [s EXCEPT !.rows = rows, !.sb = sb]
<1>1. Stays(t, u, w, h)
  <2>1. Stays(t, EraseInLine(t, mode), w, h) /\ Stays(t, t, w, h)
    BY LineErased DEF Stays
  <2>2. QED
    BY <2>1, Zenon
<1>2. EraseInDisplay(t, mode) = On(u, v)
  BY DEF EraseInDisplay
<1> HIDE DEF u
<1>3. u \in TerminalsOf(w, h) /\ u.ok = t.ok
  BY <1>1 DEF Stays
<1>4. s \in ScreensOf(w, h) /\ t.h = h /\ EmptyRow(t) \in RowsOf(w) /\ (u.altActive => s.sb = <<>>)
  BY <1>3, ActiveScreen, EmptyRowType
<1> HIDE DEF s, gone
<1>5. rows \in [1..h -> RowsOf(w)]
  <2>1. \A y \in 1..h : s.rows[y] \in RowsOf(w)
    BY <1>4, ScreenType
  <2>2. QED
    BY <2>1, <1>4
<1>6. sb \in Seq(ScrollbackLines) /\ Len(sb) <= MaxScrollback /\ (sb = s.sb \/ sb = <<>>)
  <2>1. s.sb \in Seq(ScrollbackLines) /\ Len(s.sb) <= MaxScrollback
    BY <1>4, ScreenType
  <2>2. <<>> \in Seq(ScrollbackLines) /\ Len(<<>>) <= MaxScrollback
    <3>1. <<>> \in Seq(ScrollbackLines) /\ Len(<<>>) = 0
      OBVIOUS
    <3>2. MaxScrollback \in Nat
      BY ScreenAssumption
    <3>3. 0 <= MaxScrollback
      BY <3>2
    <3>4. QED
      BY <3>1, <3>3, Zenon
  <2>3. QED
    BY <2>1, <2>2
<1> HIDE DEF rows, sb
<1>7. v \in ScreensOf(w, h) /\ v.sb = sb
  BY <1>4, <1>5, <1>6 DEF ScreensOf
<1> HIDE DEF v
<1>8. Stays(u, On(u, v), w, h)
  BY <1>3, <1>4, <1>6, <1>7, OnStays
<1>9. QED
  BY <1>2, <1>3, <1>8 DEF Stays

LEMMA CharsErased ==
  ASSUME NEW w \in Nat \ {0}, NEW h \in Nat \ {0}, NEW t \in TerminalsOf(w, h), NEW n \in Nat
  PROVE Stays(t, EraseChars(t, n), w, h)
<1> DEFINE s == S(t)
           q == ClearCells(t, s.rows[s.y], s.x, s.x + n - 1)
           z == WithRow(s, s.y, q)
           v == [z EXCEPT !.pw = FALSE]
<1>1. s \in ScreensOf(w, h)
  BY ActiveScreen
<1>2. s.y \in 1..h /\ s.rows[s.y] \in RowsOf(w)
  BY <1>1, ScreenType
<1>3. EraseChars(t, n) = On(t, v)
  BY DEF EraseChars, WithRow
<1>4. q \in RowsOf(w)
  BY <1>2, CellsCleared
<1> HIDE DEF q
<1>5. z \in ScreensOf(w, h) /\ z.sb = s.sb
  BY <1>1, <1>2, <1>4, RowReplaced
<1> HIDE DEF z
<1>6. v \in ScreensOf(w, h) /\ v.sb = s.sb
  BY <1>5 DEF ScreensOf
<1> HIDE DEF v
<1>7. QED
  BY <1>3, <1>6, OnStays

LEMMA CharsDeleted ==
  ASSUME NEW w \in Nat \ {0}, NEW h \in Nat \ {0}, NEW t \in TerminalsOf(w, h), NEW n \in Nat
  PROVE Stays(t, DeleteChars(t, n), w, h)
<1> DEFINE s == S(t)
           m == Least(n, t.w - s.x + 1)
           old == s.rows[s.y].cells
           a == SubSeq(old, 1, s.x - 1)
           b == SubSeq(old, s.x + m, t.w)
           d == Blanks(m, t.pen)
           new == a \o b \o d
           z == WithCells(s, s.y, new)
           v == [z EXCEPT !.pw = FALSE]
<1>1. s \in ScreensOf(w, h) /\ t.w = w /\ t.pen \in Styles
  BY ActiveScreen
<1>2. s.y \in 1..h /\ old \in [1..w -> Cells] /\ s.x \in 1..w
  BY <1>1, CursorRow, ScreenType
<1>3. m \in 0..w - s.x + 1
  BY <1>1, <1>2 DEF Least
<1>4. DeleteChars(t, n) = On(t, v)
  BY DEF DeleteChars, WithCells
<1> HIDE DEF m, old, s
<1>5. old \in Seq(Cells) /\ Len(old) = w
  BY <1>2, FunctionIsSequence
<1>6. a \in Seq(Cells) /\ Len(a) = s.x - 1
  BY <1>2, <1>5, PartOf
<1>7. b \in Seq(Cells) /\ Len(b) = w - m - s.x + 1
  BY <1>1, <1>2, <1>3, <1>5, PartOf
<1>8. d \in Seq(Cells) /\ Len(d) = m
  <2>1. m \in Nat
    BY <1>2, <1>3
  <2>2. d \in [1..m -> Cells]
    BY <1>1, <2>1, BlankRow
  <2>3. QED
    BY <2>1, <2>2, FunctionIsSequence
<1> HIDE DEF a, b, d
<1>9. new \in Seq(Cells) /\ Len(new) = Len(a) + Len(b) + Len(d)
  <2>1. a \in Seq(Cells) /\ b \in Seq(Cells) /\ d \in Seq(Cells)
    BY <1>6, <1>7, <1>8
  <2>2. QED
    BY <2>1
<1> HIDE DEF new
<1>10. Len(new) = w
  BY <1>2, <1>3, <1>6, <1>7, <1>8, <1>9, SMTT(30)
<1>11. new \in [1..w -> Cells]
  BY <1>9, <1>10, SequenceIsFunction
<1>12. z \in ScreensOf(w, h) /\ z.sb = s.sb
  <2>1. s \in ScreensOf(w, h) /\ s.y \in 1..h /\ new \in [1..w -> Cells]
    BY <1>1, <1>2, <1>11
  <2>2. QED
    BY <2>1, NewCells
<1> HIDE DEF z
<1>13. v \in ScreensOf(w, h) /\ v.sb = s.sb
  BY <1>12 DEF ScreensOf
<1> HIDE DEF v
<1>14. QED
  BY <1>4, <1>13, OnStays DEF s

LEMMA LinesInserted ==
  ASSUME NEW w \in Nat \ {0}, NEW h \in Nat \ {0}, NEW t \in TerminalsOf(w, h), NEW n \in Nat
  PROVE Stays(t, InsertLines(t, n), w, h)
<1> DEFINE s == S(t)
           m == Least(n, s.bot - s.y + 1)
           rows == RowsDown(s.rows, s.y, s.bot, m, EmptyRow(t))
           v == [s EXCEPT !.rows = rows, !.x = 1, !.pw = FALSE]
<1>1. s \in ScreensOf(w, h)
  BY ActiveScreen
<1>2. CASE s.y \notin s.top..s.bot
  BY <1>2 DEF InsertLines, Stays
<1>3. CASE s.y \in s.top..s.bot
  <2>1. InsertLines(t, n) = On(t, v)
    BY <1>3 DEF InsertLines
  <2>2. s.rows \in [1..h -> RowsOf(w)] /\ s.y \in 1..h /\ s.top \in 1..h /\ s.bot \in s.y..h
    BY <1>1, <1>3, ScreenType, SMTT(30)
  <2>3. m \in 0..s.bot - s.y + 1
    BY <2>2 DEF Least
  <2>4. EmptyRow(t) \in RowsOf(w)
    BY EmptyRowType
  <2> HIDE DEF m, s
  <2>5. rows \in [1..h -> RowsOf(w)]
    BY <2>2, <2>3, <2>4, RowsDownMoves
  <2> HIDE DEF rows
  <2>6. v \in ScreensOf(w, h) /\ v.sb = s.sb
    <3>1. 1 \in 1..w
      OBVIOUS
    <3>2. QED
      BY <1>1, <2>5, <3>1 DEF ScreensOf
  <2> HIDE DEF v
  <2>7. QED
    BY <2>1, <2>6, OnStays DEF s
<1>4. QED
  BY <1>2, <1>3

LEMMA LinesDeleted ==
  ASSUME NEW w \in Nat \ {0}, NEW h \in Nat \ {0}, NEW t \in TerminalsOf(w, h), NEW n \in Nat
  PROVE Stays(t, DeleteLines(t, n), w, h)
<1> DEFINE s == S(t)
           m == Least(n, s.bot - s.y + 1)
           rows == RowsUp(s.rows, s.y, s.bot, m, EmptyRow(t))
           v == [s EXCEPT !.rows = rows, !.x = 1, !.pw = FALSE]
<1>1. s \in ScreensOf(w, h)
  BY ActiveScreen
<1>2. CASE s.y \notin s.top..s.bot
  BY <1>2 DEF DeleteLines, Stays
<1>3. CASE s.y \in s.top..s.bot
  <2>1. DeleteLines(t, n) = On(t, v)
    BY <1>3 DEF DeleteLines
  <2>2. s.rows \in [1..h -> RowsOf(w)] /\ s.y \in 1..h /\ s.top \in 1..h /\ s.bot \in s.y..h
    BY <1>1, <1>3, ScreenType, SMTT(30)
  <2>3. m \in 0..s.bot - s.y + 1
    BY <2>2 DEF Least
  <2>4. EmptyRow(t) \in RowsOf(w)
    BY EmptyRowType
  <2> HIDE DEF m, s
  <2>5. rows \in [1..h -> RowsOf(w)]
    BY <2>2, <2>3, <2>4, RowsUpMoves
  <2> HIDE DEF rows
  <2>6. v \in ScreensOf(w, h) /\ v.sb = s.sb
    <3>1. 1 \in 1..w
      OBVIOUS
    <3>2. QED
      BY <1>1, <2>5, <3>1 DEF ScreensOf
  <2> HIDE DEF v
  <2>7. QED
    BY <2>1, <2>6, OnStays DEF s
<1>4. QED
  BY <1>2, <1>3

LEMMA Aligned ==
  ASSUME NEW w \in Nat \ {0}, NEW h \in Nat \ {0}, NEW t \in TerminalsOf(w, h)
  PROVE Stays(t, AlignmentTest(t), w, h)
<1> DEFINE s == S(t)
           row == [cells |-> [x \in 1..t.w |-> Cell("E", 1, "plain")], wrapped |-> FALSE]
           v == [s EXCEPT !.rows = [y \in 1..t.h |-> row], !.top = 1, !.bot = t.h]
           u == On(t, v)
<1>1. s \in ScreensOf(w, h) /\ t.w = w /\ t.h = h
  BY ActiveScreen
<1>2. Cell("E", 1, "plain") \in Cells
  <2>1. "E" \in Runes
    BY ScreenAssumption
  <2>2. QED
    BY <2>1 DEF Cell, Cells, Styles
<1>3. row \in RowsOf(w)
  BY <1>1, <1>2 DEF RowsOf
<1> HIDE DEF row
<1>4. [y \in 1..t.h |-> row] \in [1..h -> RowsOf(w)]
  BY <1>1, <1>3
<1> DEFINE rows == [y \in 1..t.h |-> row]
<1>5. v \in ScreensOf(w, h) /\ v.sb = s.sb
  <2>1. v = [s EXCEPT !.rows = rows, !.top = 1, !.bot = h] /\ rows \in [1..h -> RowsOf(w)] /\ 1 \in 1..h /\ h \in 1..h
    BY <1>1, <1>4
  <2> HIDE DEF v, rows
  <2>2. QED
    BY <1>1, <2>1 DEF ScreensOf
<1>6. AlignmentTest(t) = MoveCursor(u, 1, 1)
  BY DEF AlignmentTest, row
<1> HIDE DEF v
<1>7. Stays(t, u, w, h)
  BY <1>5, OnStays
<1> HIDE DEF u
<1>8. QED
  BY <1>6, <1>7, CursorPlaced DEF Stays

LEMMA RegionSet ==
  ASSUME NEW w \in Nat \ {0}, NEW h \in Nat \ {0}, NEW t \in TerminalsOf(w, h), NEW top \in Nat \ {0}, NEW bot \in Nat
  PROVE Stays(t, SetRegion(t, top, bot), w, h)
<1> DEFINE s == S(t)
           b == Least(bot, t.h)
           v == [s EXCEPT !.top = top, !.bot = b]
           u == On(t, v)
<1>1. s \in ScreensOf(w, h) /\ t.h = h
  BY ActiveScreen
<1>2. CASE top >= b
  BY <1>2 DEF SetRegion, Stays
<1>3. CASE ~(top >= b)
  <2>1. b \in Nat /\ b <= h
    BY <1>1 DEF Least
  <2>2. SetRegion(t, top, bot) = MoveCursor(u, 1, 1)
    BY <1>3 DEF SetRegion
  <2> HIDE DEF b
  <2>3. top \in 1..h /\ b \in 1..h /\ top < b
    BY <1>3, <2>1
  <2>4. v \in ScreensOf(w, h) /\ v.sb = s.sb
    BY <1>1, <2>3 DEF ScreensOf
  <2> HIDE DEF v
  <2>5. Stays(t, u, w, h)
    BY <2>4, OnStays
  <2> HIDE DEF u
  <2>6. QED
    BY <2>2, <2>5, CursorPlaced DEF Stays
<1>4. QED
  BY <1>2, <1>3

-----------------------------------------------------------------------------
(* Screens and resets *)

LEMMA EmptyRowsType ==
  ASSUME NEW w \in Nat \ {0}, NEW h \in Nat \ {0}, NEW t \in TerminalsOf(w, h)
  PROVE [y \in 1..t.h |-> EmptyRow(t)] \in [1..h -> RowsOf(w)]
BY EmptyRowType, ActiveScreen

LEMMA AltScreenEntered ==
  ASSUME NEW w \in Nat \ {0}, NEW h \in Nat \ {0}, NEW t \in TerminalsOf(w, h), NEW save \in BOOLEAN
  PROVE Stays(t, EnterAltScreen(t, save), w, h)
<1> DEFINE u == IF save THEN SaveCursor(t) ELSE t
           rows == [y \in 1..t.h |-> EmptyRow(t)]
           v == [u.alt EXCEPT !.rows = rows, !.top = 1, !.bot = t.h, !.x = t.main.x, !.y = t.main.y, !.pw = FALSE]
<1>1. CASE t.altActive
  BY <1>1 DEF EnterAltScreen, Stays
<1>2. CASE ~t.altActive
  <2>1. u \in TerminalsOf(w, h) /\ u.ok = t.ok
    <3>1. Stays(t, SaveCursor(t), w, h) /\ Stays(t, t, w, h)
      BY CursorSaved DEF Stays
    <3>2. Stays(t, u, w, h)
      BY <3>1, Zenon
    <3>3. QED
      BY <3>2 DEF Stays
  <2>2. EnterAltScreen(t, save) = [u EXCEPT !.altActive = TRUE, !.alt = v]
    BY <1>2 DEF EnterAltScreen
  <2> HIDE DEF u
  <2>3. rows \in [1..h -> RowsOf(w)] /\ t.h = h
    BY EmptyRowsType, ActiveScreen
  <2>4. t.main.x \in 1..w /\ t.main.y \in 1..h
    BY DEF TerminalsOf, ScreensOf
  <2>5. u.alt \in ScreensOf(w, h) /\ u.alt.sb = <<>>
    BY <2>1 DEF TerminalsOf
  <2> DEFINE a == u.alt
             x == t.main.x
             y == t.main.y
  <2> HIDE DEF rows, a, x, y
  <2>6. v = [a EXCEPT !.rows = rows, !.top = 1, !.bot = h, !.x = x, !.y = y, !.pw = FALSE]
    BY <2>3 DEF a, x, y
  <2> HIDE DEF v
  <2>7. v \in ScreensOf(w, h) /\ v.sb = <<>>
    <3>1. a \in ScreensOf(w, h) /\ a.sb = <<>> /\ x \in 1..w /\ y \in 1..h /\ 1 \in 1..h /\ h \in 1..h
      BY <2>4, <2>5 DEF a, x, y
    <3>2. QED
      BY <3>1, <2>3, <2>6 DEF ScreensOf
  <2>8. QED
    BY <2>1, <2>2, <2>7 DEF Stays, TerminalsOf
<1>3. QED
  BY <1>1, <1>2

LEMMA AltScreenLeft ==
  ASSUME NEW w \in Nat \ {0}, NEW h \in Nat \ {0}, NEW t \in TerminalsOf(w, h), NEW restore \in BOOLEAN
  PROVE Stays(t, LeaveAltScreen(t, restore), w, h)
<1> DEFINE x == t.alt.x
           y == t.alt.y
           v == [t.main EXCEPT !.x = x, !.y = y, !.pw = FALSE]
           u == [t EXCEPT !.altActive = FALSE, !.main = v]
<1>1. CASE ~t.altActive
  BY <1>1 DEF LeaveAltScreen, Stays
<1>2. CASE t.altActive
  <2>1. LeaveAltScreen(t, restore) = IF restore THEN RestoreCursor(u) ELSE u
    BY <1>2 DEF LeaveAltScreen
  <2>2. x \in 1..w /\ y \in 1..h /\ t.main \in ScreensOf(w, h)
    BY DEF TerminalsOf, ScreensOf
  <2> HIDE DEF x, y
  <2>3. v \in ScreensOf(w, h)
    BY <2>2 DEF ScreensOf
  <2> HIDE DEF v
  <2>4. u \in TerminalsOf(w, h) /\ u.ok = t.ok
    BY <2>3 DEF TerminalsOf
  <2> HIDE DEF u
  <2>5. Stays(t, u, w, h) /\ Stays(t, RestoreCursor(u), w, h)
    BY <2>4, CursorRestored DEF Stays
  <2>6. QED
    BY <2>1, <2>5, Zenon
<1>3. QED
  BY <1>1, <1>2

LEMMA AsciiAndNoSave ==
  ASSUME NEW w \in Nat \ {0}, NEW h \in Nat \ {0}
  PROVE ASCII \in [1..2 -> Charsets] /\ NoSave \in Saves(w, h)
<1>1. ASCII \in [1..2 -> Charsets]
  BY DEF ASCII, Charsets
<1>2. QED
  BY <1>1 DEF NoSave, Saves, Styles

LEMMA SoftResetDone ==
  ASSUME NEW w \in Nat \ {0}, NEW h \in Nat \ {0}, NEW t \in TerminalsOf(w, h)
  PROVE Stays(t, SoftReset(t), w, h)
<1> DEFINE s == S(t)
           v == [s EXCEPT !.top = 1, !.bot = t.h, !.saved = NoSave, !.pw = FALSE]
           u == On(t, v)
           m == (t.modes \ {"origin", "insert", "cursorKeys"}) \cup {"cursorVisible", "autowrap"}
<1>1. s \in ScreensOf(w, h) /\ t.h = h /\ t.modes \in SUBSET Switched /\ (t.altActive => s.sb = <<>>)
  BY ActiveScreen
<1>2. 1 \in 1..h /\ h \in 1..h
  OBVIOUS
<1>3. v \in ScreensOf(w, h) /\ v.sb = s.sb
  BY <1>1, <1>2, AsciiAndNoSave DEF ScreensOf
<1>4. SoftReset(t) = [u EXCEPT !.modes = (@ \ {"origin", "insert", "cursorKeys"}) \cup {"cursorVisible", "autowrap"},
                               !.pen = "plain", !.g = ASCII, !.gl = 1]
  BY DEF SoftReset
<1> HIDE DEF v
<1>5. u \in TerminalsOf(w, h) /\ u.ok = t.ok /\ u.modes = t.modes
  BY <1>1, <1>3, OnScreen DEF SameRegisters
<1> HIDE DEF u
<1>6. SoftReset(t) = [u EXCEPT !.modes = m, !.pen = "plain", !.g = ASCII, !.gl = 1]
  BY <1>4, <1>5
<1>7. m \in SUBSET Switched
  BY <1>1 DEF Switched
<1> HIDE DEF m
<1>8. "plain" \in Styles /\ 1 \in 1..2
  BY DEF Styles
<1>9. QED
  BY <1>5, <1>6, <1>7, <1>8, AsciiAndNoSave, ZenonT(60) DEF Stays, TerminalsOf

LEMMA NewScreenType ==
  ASSUME NEW w \in Nat \ {0}, NEW h \in Nat \ {0}
  PROVE NewScreen(w, h) \in ScreensOf(w, h) /\ NewScreen(w, h).sb = <<>>
<1> DEFINE rows == [y \in 1..h |-> NewRow(w)]
<1>1. rows \in [1..h -> RowsOf(w)]
  BY BlankRow DEF NewRow, Styles
<1>2. <<>> \in Seq(ScrollbackLines) /\ Len(<<>>) <= MaxScrollback
  <2>1. <<>> \in Seq(ScrollbackLines) /\ Len(<<>>) = 0
    OBVIOUS
  <2>2. MaxScrollback \in Nat
    BY ScreenAssumption
  <2>3. 0 <= MaxScrollback
    BY <2>2
  <2>4. QED
    BY <2>1, <2>3, Zenon
<1>3. 1 \in 1..w /\ 1 \in 1..h /\ h \in 1..h
  OBVIOUS
<1> HIDE DEF rows
<1>4. NewScreen(w, h) = [rows |-> rows, x |-> 1, y |-> 1, pw |-> FALSE,
                         saved |-> NoSave, top |-> 1, bot |-> h, sb |-> <<>>]
  BY DEF NewScreen, rows
<1>5. QED
  BY <1>1, <1>2, <1>3, AsciiAndNoSave DEF ScreensOf, NewScreen, rows

LEMMA NewType ==
  ASSUME NEW w \in Nat \ {0}, NEW h \in Nat \ {0}
  PROVE New(w, h) \in TerminalsOf(w, h) /\ New(w, h).ok = TRUE
<1> DEFINE m == {"autowrap", "cursorVisible"}
           s == NewScreen(w, h)
<1>1. m \in SUBSET Switched /\ TabStops(w) \in SUBSET Nat
  BY DEF Switched, TabStops
<1>2. "plain" \in Styles /\ 1 \in 1..2 /\ "off" \in MouseModes \cup {"off"} /\ "" \in Runes \cup {""}
  BY DEF Styles
<1>3. s \in ScreensOf(w, h) /\ s.sb = <<>>
  BY NewScreenType
<1> HIDE DEF m, s
<1>4. New(w, h).ok = TRUE
  BY DEF New
<1>5. [w |-> w, h |-> h, main |-> s, alt |-> s, altActive |-> FALSE,
       pen |-> "plain", modes |-> m, mouse |-> "off",
       g |-> ASCII, gl |-> 1, last |-> "", tabs |-> TabStops(w), ok |-> TRUE] \in TerminalsOf(w, h)
  BY <1>1, <1>2, <1>3, AsciiAndNoSave DEF TerminalsOf
<1>6. QED
  BY <1>4, <1>5 DEF New, m, s

LEMMA FullResetDone ==
  ASSUME NEW w \in Nat \ {0}, NEW h \in Nat \ {0}, NEW t \in TerminalsOf(w, h)
  PROVE FullReset(t) \in TerminalsOf(w, h) /\ FullReset(t).ok = TRUE
<1> DEFINE u == New(t.w, t.h)
           v == [u.main EXCEPT !.sb = t.main.sb]
<1>1. t.w = w /\ t.h = h
  BY ActiveScreen
<1>2. u \in TerminalsOf(w, h) /\ u.ok = TRUE
  BY <1>1, NewType
<1>3. FullReset(t) = [u EXCEPT !.main.sb = t.main.sb, !.last = t.last]
  BY DEF FullReset
<1> HIDE DEF u
<1>4. FullReset(t) = [u EXCEPT !.main = v, !.last = t.last]
  BY <1>3
<1>5. u.main \in ScreensOf(w, h) /\ t.main \in ScreensOf(w, h) /\ t.last \in Runes \cup {""}
  BY <1>2 DEF TerminalsOf
<1> DEFINE sb == t.main.sb
           a == u.main
<1>6. sb \in Seq(ScrollbackLines) /\ Len(sb) <= MaxScrollback
  BY <1>5, ScreenType
<1>7. v = [a EXCEPT !.sb = sb] /\ a \in ScreensOf(w, h)
  BY <1>5
<1> HIDE DEF v, sb, a
<1>8. v \in ScreensOf(w, h)
  BY <1>6, <1>7 DEF ScreensOf
<1>9. QED
  BY <1>2, <1>4, <1>5, <1>8 DEF TerminalsOf

-----------------------------------------------------------------------------
(* Resize *)

\* What the scrollback may hold.
Scrollbacks == {sb \in Seq(ScrollbackLines) : Len(sb) <= MaxScrollback}

\* The first n rows follow the lines of sb.
Followed(new, sb, rows, n) ==
  /\ Len(new) = Len(sb) + n
  /\ \A i \in 1..Len(sb) : new[i] = sb[i]
  /\ \A i \in 1..n : new[Len(sb) + i] = Trimmed(rows[i])

LEMMA RowsPushed ==
  ASSUME NEW h \in Nat, NEW n \in 0..h, NEW rows \in [1..h -> ScrollbackLines], NEW sb \in Scrollbacks
  PROVE /\ PushRows(sb, rows, n) \in Scrollbacks
        /\ Len(sb) + n <= MaxScrollback => Followed(PushRows(sb, rows, n), sb, rows, n)
<1> DEFINE g == [i \in 1..n |-> [x \in Scrollbacks |-> PushScrollback(x, rows[i])]]
           f[i \in 0..n] == IF i = 0 THEN sb ELSE PushScrollback(f[i - 1], rows[i])
<1>1. PushRows(sb, rows, n) = f[n]
  BY DEF PushRows
<1> HIDE DEF f
<1>2. ASSUME NEW i \in 1..n, NEW x \in Scrollbacks PROVE PushScrollback(x, rows[i]) \in Scrollbacks
  <2>1. x \in Seq(ScrollbackLines) /\ Len(x) <= MaxScrollback /\ rows[i] \in ScrollbackLines
    BY DEF Scrollbacks
  <2>2. QED
    BY <2>1, Pushed DEF Scrollbacks
<1>3. g \in Steps(n, Scrollbacks) /\ n \in Nat
  BY <1>2 DEF Steps
<1> HIDE DEF g
<1>4. PICK F : Computed(F, Scrollbacks, n, sb, g)
  BY <1>3, StepsExist
<1>5. F \in [0..n -> Scrollbacks] /\ F[0] = sb /\ \A i \in 1..n : F[i] = PushScrollback(F[i - 1], rows[i])
  <2>1. \A i \in 1..n : F[i - 1] \in Scrollbacks
    BY <1>4 DEF Computed
  <2>2. QED
    BY <1>4, <2>1 DEF g, Computed
<1>6. F = [i \in 0..n |-> IF i = 0 THEN sb ELSE PushScrollback(F[i - 1], rows[i])]
  BY <1>5
<1>7. f = [i \in 0..n |-> IF i = 0 THEN sb ELSE PushScrollback(f[i - 1], rows[i])]
  BY <1>6 DEF f
<1>8. SameSteps(f, F, n)
  BY <1>5, <1>7 DEF SameSteps
<1>9. f[n] = F[n]
  BY <1>3, <1>8, StepsAgree DEF SameValues
<1>10. ASSUME Len(sb) + n <= MaxScrollback PROVE Followed(F[n], sb, rows, n)
  <2> DEFINE T == {i \in Nat : i <= n => Followed(F[i], sb, rows, i)}
  <2>0. Len(sb) \in Nat /\ MaxScrollback \in Nat
    <3>1. Len(sb) \in Nat
      BY DEF Scrollbacks
    <3>2. QED
      BY <3>1, ScreenAssumption
  <2>1. 0 \in T
    <3> DEFINE l == Len(sb)
    <3>1. Len(F[0]) = l /\ \A i \in 1..l : F[0][i] = sb[i]
      BY <1>5
    <3> HIDE DEF l
    <3>2. l + 0 = l
      BY <2>0 DEF l, Scrollbacks
    <3>3. Followed(F[0], sb, rows, 0)
      <4>1. Len(F[0]) = l + 0 /\ 1..0 = {}
        BY <3>1, <3>2
      <4>2. QED
        BY <3>1, <4>1 DEF Followed, l
    <3>4. QED
      BY <3>3
  <2>2. ASSUME NEW i \in Nat, i \in T, i + 1 <= n PROVE Followed(F[i + 1], sb, rows, i + 1)
    <3> DEFINE old == F[i]
               line == Trimmed(rows[i + 1])
    <3>1. old \in Scrollbacks /\ Followed(old, sb, rows, i)
      BY <1>5, <2>2
    <3>2. F[i + 1] = PushScrollback(old, rows[i + 1]) /\ rows[i + 1] \in ScrollbackLines
      BY <1>5, <2>2
    <3>3. Len(old) < MaxScrollback /\ Len(old) = Len(sb) + i
      BY <1>10, <2>0, <2>2, <3>1 DEF Followed
    <3>4. F[i + 1] = Append(old, line)
      BY <3>1, <3>2, <3>3, Pushed DEF Scrollbacks
    <3>5. line \in ScrollbackLines
      BY <3>2, TrimmedLine
    <3> DEFINE new == Append(old, line)
    <3>6. /\ Len(new) = Len(old) + 1
          /\ \A k \in 1..Len(old) : new[k] = old[k]
          /\ new[Len(old) + 1] = line
      <4> HIDE DEF line, old
      <4>1. old \in Seq(ScrollbackLines)
        BY <3>1 DEF Scrollbacks
      <4>2. QED
        BY <4>1, <3>5
    <3> HIDE DEF new, old
    <3>7. \A k \in 1..Len(sb) : new[k] = sb[k]
      BY <3>1, <3>3, <3>6, <2>0, <2>2 DEF Followed
    <3>8. ASSUME NEW k \in 1..i + 1 PROVE new[Len(sb) + k] = Trimmed(rows[k])
      <4>1. CASE k = i + 1
        <5>1. Len(sb) + k = Len(old) + 1
          BY <4>1, <3>3, <2>0
        <5>2. QED
          BY <4>1, <5>1, <3>6
      <4>2. CASE k \in 1..i
        <5>1. Len(sb) + k \in 1..Len(old)
          BY <4>2, <3>3, <2>0
        <5>2. QED
          BY <4>2, <5>1, <3>1, <3>6 DEF Followed
      <4>3. QED
        BY <4>1, <4>2, <2>2
    <3>9. Len(new) = Len(sb) + (i + 1)
      BY <3>3, <3>6, <2>0, <2>2
    <3>10. QED
      BY <3>4, <3>7, <3>8, <3>9 DEF Followed, new
  <2>3. \A i \in Nat : i \in T => i + 1 \in T
    <3>1. \A i \in Nat : i + 1 <= n => i <= n
      OBVIOUS
    <3>2. QED
      BY <2>2, <3>1
  <2> HIDE DEF T
  <2>4. Nat \subseteq T
    BY <2>1, <2>3, Induction
  <2>5. QED
    BY <1>3, <2>4 DEF T
<1>11. F[n] \in Scrollbacks
  BY <1>5
<1>12. QED
  BY <1>1, <1>9, <1>10, <1>11

\* The rows below y that resizeScreen may drop are blank.
LEMMA BlankBelowRows ==
  ASSUME NEW w \in Nat \ {0}, NEW h \in Nat \ {0}, NEW rows \in [1..h -> RowsOf(w)], NEW y \in 1..h
  PROVE /\ BlankBelow(rows, y) \in 0..h - y
        /\ \A i \in 1..h : i > h - BlankBelow(rows, y) => LastVisible(rows[i]) = 0
<1> DEFINE T == {y} \cup {i \in y..h : LastVisible(rows[i]) > 0}
<1>1. Len(rows) = h
  BY FunctionIsSequence
<1>2. BlankBelow(rows, y) = h - Max(T)
  BY <1>1 DEF BlankBelow
<1>3. T \subseteq 0..h /\ T # {} /\ y \in T
  OBVIOUS
<1>4. Max(T) \in T /\ \A i \in T : Max(T) >= i
  <2> HIDE DEF T
  <2>1. QED
    BY <1>3, MaxOfBounded
<1>5. \A i \in 1..h : LastVisible(rows[i]) \in Nat
  <2>1. ASSUME NEW i \in 1..h PROVE LastVisible(rows[i]) \in Nat
    <3>1. rows[i] \in ScrollbackLines /\ Len(rows[i].cells) = w
      BY RowIsLine
    <3>2. LastVisible(rows[i]) \in 0..Len(rows[i].cells)
      BY <3>1, LastVisibleCell
    <3>3. QED
      BY <3>1, <3>2
  <2>2. QED
    BY <2>1
<1> DEFINE m == Max(T)
<1>6. m \in y..h /\ \A i \in T : m >= i
  BY <1>3, <1>4
<1> HIDE DEF m
<1>7. ASSUME NEW i \in 1..h, i > m PROVE LastVisible(rows[i]) = 0
  <2>1. i \in y..h /\ i \notin T
    BY <1>6, <1>7
  <2>2. ~(LastVisible(rows[i]) > 0)
    BY <2>1
  <2>3. QED
    BY <2>2, <1>5
<1>8. BlankBelow(rows, y) = h - m
  BY <1>2 DEF m
<1>9. QED
  BY <1>6, <1>7, <1>8

\* What resizeScreen computes before it builds the new screen: the rows cut or
\* padded, the blank ones it drops, those it pushes off and those it takes back.
Parts(w0, h0, s, w, h, isMain, rows, drop, off, back) ==
  /\ rows \in [1..h0 -> RowsOf(w)] /\ (w = w0 => rows = s.rows)
  /\ drop \in 0..h0 - s.y /\ off \in 0..h0 - drop
  /\ h >= h0 => drop = 0 /\ off = 0
  /\ h < h0 => drop + off = h0 - h
  /\ back \in 0..Len(s.sb) /\ (back = 0 \/ (isMain /\ s.y = h0 /\ back <= h - h0))
  /\ \A i \in 1..h0 : i > h0 - drop => LastVisible(rows[i]) = 0

Rebuild(h0, s, w, h, isMain, rows, drop, off, back) ==
  [s EXCEPT
     !.rows = [i \in 1..back |-> Fitted(s.sb[Len(s.sb) - back + i], w)] \o SubSeq(rows, off + 1, h0 - drop)
                \o [i \in 1..h - h0 - back |-> NewRow(w)],
     !.sb = IF ~isMain THEN @ ELSE IF back > 0 THEN SubSeq(@, 1, Len(s.sb) - back) ELSE PushRows(@, rows, off),
     !.x = Least(@, w),
     !.y = Clamp(@ - off + back, 1, h),
     !.saved.x = Least(@, w),
     !.saved.y = Clamp(@ - off + back, 1, h),
     !.pw = FALSE, !.top = 1, !.bot = h]

LEMMA ResizeInParts ==
  ASSUME NEW w0 \in Nat \ {0}, NEW h0 \in Nat \ {0}, NEW w \in Nat \ {0}, NEW h \in Nat \ {0},
         NEW t \in TerminalsOf(w0, h0), NEW s \in ScreensOf(w0, h0), NEW isMain \in BOOLEAN
  PROVE \E rows, drop, off, back :
          /\ Parts(w0, h0, s, w, h, isMain, rows, drop, off, back)
          /\ ResizeScreen(t, s, w, h, isMain) = Rebuild(h0, s, w, h, isMain, rows, drop, off, back)
<1> DEFINE rows == IF w = t.w THEN s.rows ELSE [y \in 1..t.h |-> Fitted(s.rows[y], w)]
           drop == Least(Most(0, t.h - h), BlankBelow(rows, s.y))
           off == Most(0, t.h - h - drop)
           back == IF isMain /\ s.y = t.h THEN Least(Most(0, h - t.h), Len(s.sb)) ELSE 0
<1>1. t.w = w0 /\ t.h = h0
  BY ActiveScreen
<1>2. s.rows \in [1..h0 -> RowsOf(w0)] /\ s.y \in 1..h0 /\ s.sb \in Seq(ScrollbackLines)
  BY ScreenType
<1>3. Len(s.sb) \in Nat
  BY <1>2
<1>4. rows \in [1..h0 -> RowsOf(w)]
  <2>1. CASE w = w0
    BY <2>1, <1>1, <1>2
  <2>2. CASE w # w0
    <3>1. ASSUME NEW y \in 1..h0 PROVE Fitted(s.rows[y], w) \in RowsOf(w)
      <4>1. s.rows[y] \in ScrollbackLines
        BY <1>2, RowIsLine
      <4>2. QED
        BY <4>1, FittedRow
    <3>2. QED
      BY <2>2, <3>1, <1>1
  <2>3. QED
    BY <2>1, <2>2
<1>5. ResizeScreen(t, s, w, h, isMain) = Rebuild(h0, s, w, h, isMain, rows, drop, off, back)
  BY <1>1 DEF ResizeScreen, Rebuild
<1>6. w = w0 => rows = s.rows
  BY <1>1
<1> HIDE DEF rows
<1> DEFINE b == BlankBelow(rows, s.y)
<1>7. b \in 0..h0 - s.y /\ \A i \in 1..h0 : i > h0 - b => LastVisible(rows[i]) = 0
  BY <1>2, <1>4, BlankBelowRows
<1>8. drop = Least(Most(0, h0 - h), b) /\ off = Most(0, h0 - h - drop)
      /\ back = IF isMain /\ s.y = h0 THEN Least(Most(0, h - h0), Len(s.sb)) ELSE 0
  BY <1>1
<1> HIDE DEF b, drop, off, back
<1>9. drop \in 0..h0 - s.y /\ off \in 0..h0 - drop /\ drop <= b
  BY <1>2, <1>7, <1>8 DEF Least, Most
<1>10. /\ h >= h0 => drop = 0 /\ off = 0
       /\ h < h0 => drop + off = h0 - h
  BY <1>2, <1>7, <1>8 DEF Least, Most
<1>11. back \in 0..Len(s.sb) /\ (back = 0 \/ (isMain /\ s.y = h0 /\ back <= h - h0))
  <2>1. Len(s.sb) \in Nat /\ h \in Nat /\ h0 \in Nat
    BY <1>2, <1>3
  <2> DEFINE l == Len(s.sb)
             m == Most(0, h - h0)
  <2>2. l \in Nat
    BY <2>1
  <2>3. back = IF isMain /\ s.y = h0 THEN Least(m, l) ELSE 0
    BY <1>8
  <2>4. m \in Nat /\ (m = 0 \/ m = h - h0)
    BY <2>1 DEF Most
  <2> HIDE DEF l, m
  <2>5. Least(m, l) \in 0..l /\ Least(m, l) <= m
    BY <2>2, <2>4 DEF Least
  <2>6. back \in 0..l /\ (back = 0 \/ (isMain /\ s.y = h0 /\ back <= m /\ back \in Nat))
    BY <2>2, <2>3, <2>5
  <2>7. back = 0 \/ back <= h - h0
    BY <2>1, <2>4, <2>6
  <2>8. QED
    BY <2>6, <2>7 DEF l
<1>12. \A i \in 1..h0 : i > h0 - drop => LastVisible(rows[i]) = 0
  BY <1>2, <1>7, <1>9
<1>13. QED
  BY <1>4, <1>5, <1>6, <1>9, <1>10, <1>11, <1>12 DEF Parts

LEMMA ResizedScreen ==
  ASSUME NEW w0 \in Nat \ {0}, NEW h0 \in Nat \ {0}, NEW w \in Nat \ {0}, NEW h \in Nat \ {0},
         NEW t \in TerminalsOf(w0, h0), NEW s \in ScreensOf(w0, h0), NEW isMain \in BOOLEAN
  PROVE /\ ResizeScreen(t, s, w, h, isMain) \in ScreensOf(w, h)
        /\ ~isMain => ResizeScreen(t, s, w, h, isMain).sb = s.sb
<1>1. PICK rows, drop, off, back :
         /\ Parts(w0, h0, s, w, h, isMain, rows, drop, off, back)
         /\ ResizeScreen(t, s, w, h, isMain) = Rebuild(h0, s, w, h, isMain, rows, drop, off, back)
  BY ResizeInParts
<1> DEFINE a == [i \in 1..back |-> Fitted(s.sb[Len(s.sb) - back + i], w)]
           b == SubSeq(rows, off + 1, h0 - drop)
           c == [i \in 1..h - h0 - back |-> NewRow(w)]
           new == a \o b \o c
           sb == IF ~isMain THEN s.sb ELSE IF back > 0 THEN SubSeq(s.sb, 1, Len(s.sb) - back) ELSE PushRows(s.sb, rows, off)
           x == Least(s.x, w)
           y == Clamp(s.y - off + back, 1, h)
           sx == Least(s.saved.x, w)
           sy == Clamp(s.saved.y - off + back, 1, h)
           save == [s.saved EXCEPT !.x = sx, !.y = sy]
           v == [s EXCEPT !.rows = new, !.sb = sb, !.x = x, !.y = y, !.saved = save, !.pw = FALSE, !.top = 1, !.bot = h]
<1>2. /\ s.x \in 1..w0 /\ s.y \in 1..h0 /\ s.saved \in Saves(w0, h0)
      /\ s.sb \in Seq(ScrollbackLines) /\ Len(s.sb) <= MaxScrollback
  BY ScreenType
<1>3. Len(s.sb) \in Nat /\ MaxScrollback \in Nat
  <2>1. Len(s.sb) \in Nat
    BY <1>2
  <2>2. QED
    BY <2>1, ScreenAssumption
<1>4. /\ rows \in [1..h0 -> RowsOf(w)]
      /\ drop \in 0..h0 /\ off \in 0..h0 - drop /\ back \in 0..Len(s.sb)
      /\ h >= h0 => drop = 0 /\ off = 0 /\ back <= h - h0
      /\ h < h0 => drop + off = h0 - h /\ back = 0
  BY <1>1, <1>2, <1>3 DEF Parts
<1>5. ResizeScreen(t, s, w, h, isMain) = v
  BY <1>1, ZenonT(60) DEF Rebuild
<1>6. a \in Seq(RowsOf(w)) /\ Len(a) = back
  <2>1. ASSUME NEW i \in 1..back PROVE Fitted(s.sb[Len(s.sb) - back + i], w) \in RowsOf(w)
    <3>1. Len(s.sb) - back + i \in 1..Len(s.sb)
      BY <1>3, <1>4
    <3>2. s.sb[Len(s.sb) - back + i] \in ScrollbackLines
      BY <3>1, <1>2
    <3>3. QED
      BY <3>2, FittedRow
  <2>2. a \in [1..back -> RowsOf(w)] /\ back \in Nat
    <3>1. back \in Nat
      BY <1>3, <1>4
    <3>2. QED
      BY <2>1, <3>1
  <2> HIDE DEF a
  <2>3. QED
    BY <2>2, FunctionIsSequence
<1>7. b \in Seq(RowsOf(w)) /\ Len(b) = h0 - drop - off
  <2>1. rows \in Seq(RowsOf(w)) /\ Len(rows) = h0
    BY <1>4, FunctionIsSequence
  <2>2. off + 1 \in 1..Len(rows) + 1 /\ h0 - drop \in off..Len(rows)
    BY <2>1, <1>4
  <2>3. QED
    BY <2>1, <2>2, <1>4, PartOf
<1>8. c \in Seq(RowsOf(w)) /\ Len(c) = IF h >= h0 THEN h - h0 - back ELSE 0
  <2> DEFINE m == IF h >= h0 THEN h - h0 - back ELSE 0
  <2>1. m \in Nat /\ 1..h - h0 - back = 1..m
    BY <1>4
  <2>2. NewRow(w) \in RowsOf(w)
    BY BlankRow DEF NewRow, Styles
  <2> HIDE DEF m
  <2>3. c \in [1..m -> RowsOf(w)]
    BY <2>1, <2>2
  <2> HIDE DEF c
  <2>4. c \in Seq(RowsOf(w)) /\ Len(c) = m
    BY <2>1, <2>3, FunctionIsSequence
  <2>5. QED
    BY <2>4 DEF m
<1> HIDE DEF a, b, c
<1>9. new \in Seq(RowsOf(w)) /\ Len(new) = Len(a) + Len(b) + Len(c)
  <2>1. a \in Seq(RowsOf(w)) /\ b \in Seq(RowsOf(w)) /\ c \in Seq(RowsOf(w))
    BY <1>6, <1>7, <1>8
  <2>2. QED
    BY <2>1
<1> HIDE DEF new
<1>10. Len(new) = h
  BY <1>4, <1>6, <1>7, <1>8, <1>9
<1>11. new \in [1..h -> RowsOf(w)]
  BY <1>9, <1>10, SequenceIsFunction
<1>12. sb \in Seq(ScrollbackLines) /\ Len(sb) <= MaxScrollback /\ (~isMain => sb = s.sb)
  <2>1. CASE ~isMain
    BY <2>1, <1>2
  <2>2. CASE isMain /\ back > 0
    <3>1. sb = SubSeq(s.sb, 1, Len(s.sb) - back)
      BY <2>2
    <3>2. 1 \in 1..Len(s.sb) + 1 /\ Len(s.sb) - back \in 0..Len(s.sb)
      BY <1>3, <1>4
    <3> HIDE DEF sb
    <3>3. sb \in Seq(ScrollbackLines) /\ Len(sb) = Len(s.sb) - back
      <4>1. s.sb \in Seq(ScrollbackLines) /\ Len(s.sb) - back \in 1 - 1..Len(s.sb)
        BY <3>2, <1>2
      <4>2. sb \in Seq(ScrollbackLines) /\ Len(sb) = (Len(s.sb) - back) - 1 + 1
        BY <3>1, <3>2, <4>1, PartOf
      <4>3. QED
        BY <4>2, <1>3, <1>4
    <3>4. QED
      BY <3>3, <2>2, <1>2, <1>3, <1>4
  <2>3. CASE isMain /\ ~(back > 0)
    <3>1. sb = PushRows(s.sb, rows, off)
      BY <2>3
    <3>2. rows \in [1..h0 -> ScrollbackLines]
      <4>1. \A i \in 1..h0 : rows[i] \in ScrollbackLines
        BY <1>4, RowIsLine
      <4>2. QED
        BY <4>1, <1>4
    <3>3. off \in 0..h0 /\ s.sb \in Scrollbacks
      BY <1>2, <1>4 DEF Scrollbacks
    <3>4. PushRows(s.sb, rows, off) \in Scrollbacks
      BY <3>2, <3>3, RowsPushed
    <3>5. QED
      BY <2>3, <3>1, <3>4 DEF Scrollbacks
  <2>4. QED
    BY <2>1, <2>2, <2>3
<1> HIDE DEF sb
<1>13. x \in 1..w /\ y \in 1..h
  BY <1>2, <1>4 DEF Least, Most, Clamp
<1>14. sx \in 1..w /\ sy \in 1..h
  <2>1. s.saved.x \in Nat \ {0} /\ s.saved.y \in Nat \ {0}
    BY <1>2 DEF Saves
  <2>2. off \in Int /\ back \in Int
    BY <1>3, <1>4
  <2> DEFINE p == s.saved.x
             q == s.saved.y
  <2>3. sx = Least(p, w) /\ sy = Clamp(q - off + back, 1, h) /\ p \in Nat \ {0} /\ q \in Nat \ {0}
    BY <2>1
  <2> HIDE DEF p, q, sx, sy
  <2>4. sx \in 1..w
    BY <2>3 DEF Least
  <2>5. sy \in 1..h
    BY <2>2, <2>3 DEF Least, Most, Clamp
  <2>6. QED
    BY <2>4, <2>5
<1> HIDE DEF x, y, sx, sy
<1>15. save \in Saves(w, h)
  BY <1>2, <1>14 DEF Saves
<1> HIDE DEF save
<1>16. 1 \in 1..h /\ h \in 1..h
  OBVIOUS
<1>17. v \in ScreensOf(w, h) /\ v.sb = sb
  BY <1>11, <1>12, <1>13, <1>15, <1>16 DEF ScreensOf
<1>18. QED
  BY <1>5, <1>12, <1>17

LEMMA Resized ==
  ASSUME NEW w0 \in Nat \ {0}, NEW h0 \in Nat \ {0}, NEW w \in Nat \ {0}, NEW h \in Nat \ {0},
         NEW t \in TerminalsOf(w0, h0)
  PROVE Resize(t, w, h) \in TerminalsOf(w, h) /\ Resize(t, w, h).ok = t.ok
<1>1. t.w = w0 /\ t.h = h0 /\ t.main \in ScreensOf(w0, h0) /\ t.alt \in ScreensOf(w0, h0) /\ t.alt.sb = <<>>
  BY DEF TerminalsOf
<1>2. CASE w = t.w /\ h = t.h
  BY <1>1, <1>2 DEF Resize
<1>3. CASE ~(w = t.w /\ h = t.h)
  <2> DEFINE a == ResizeScreen(t, t.main, w, h, TRUE)
             b == ResizeScreen(t, t.alt, w, h, FALSE)
  <2>1. a \in ScreensOf(w, h) /\ b \in ScreensOf(w, h) /\ b.sb = <<>>
    <3>1. TRUE \in BOOLEAN /\ FALSE \in BOOLEAN
      OBVIOUS
    <3>2. a \in ScreensOf(w, h)
      BY <1>1, <3>1, ResizedScreen
    <3>3. \A isMain \in BOOLEAN :
            /\ ResizeScreen(t, t.alt, w, h, isMain) \in ScreensOf(w, h)
            /\ ~isMain => ResizeScreen(t, t.alt, w, h, isMain).sb = t.alt.sb
      BY <1>1, ResizedScreen
    <3>4. b \in ScreensOf(w, h) /\ b.sb = t.alt.sb
      BY <3>1, <3>3
    <3>5. QED
      BY <1>1, <3>2, <3>4
  <2>2. Resize(t, w, h) = [t EXCEPT !.w = w, !.h = h, !.tabs = TabStops(w), !.main = a, !.alt = b]
    BY <1>3 DEF Resize
  <2> HIDE DEF a, b
  <2>3. TabStops(w) \in SUBSET Nat
    BY DEF TabStops
  <2>4. QED
    BY <2>1, <2>2, <2>3, ZenonT(60) DEF TerminalsOf
<1>4. QED
  BY <1>2, <1>3

-----------------------------------------------------------------------------
(* Dispatch *)

\* No operation panics but print, on a single column.
Lives(t, u, w, h) == u \in TerminalsOf(w, h) /\ (t.ok \/ w = 1 => u.ok \/ w = 1)

LEMMA StaysLives ==
  ASSUME NEW t, NEW u, NEW w, NEW h, Stays(t, u, w, h)
  PROVE Lives(t, u, w, h)
BY DEF Stays, Lives

LEMMA Homed ==
  ASSUME NEW w \in Nat \ {0}, NEW h \in Nat \ {0}, NEW t \in TerminalsOf(w, h)
  PROVE Stays(t, On(t, [S(t) EXCEPT !.x = 1]), w, h)
<1> DEFINE v == [S(t) EXCEPT !.x = 1]
<1>1. 1 \in 1..w
  OBVIOUS
<1>2. v \in ScreensOf(w, h) /\ v.sb = S(t).sb
  BY <1>1, ActiveScreen DEF ScreensOf
<1> HIDE DEF v
<1>3. Stays(t, On(t, v), w, h)
  BY <1>2, OnStays
<1>4. QED
  BY <1>3 DEF v

LEMMA Unpended ==
  ASSUME NEW w \in Nat \ {0}, NEW h \in Nat \ {0}, NEW t \in TerminalsOf(w, h)
  PROVE Stays(t, On(t, [S(t) EXCEPT !.pw = FALSE]), w, h)
<1> DEFINE v == [S(t) EXCEPT !.pw = FALSE]
<1>0. S(t) \in ScreensOf(w, h)
  BY ActiveScreen
<1>1. v \in ScreensOf(w, h) /\ v.sb = S(t).sb
  BY <1>0 DEF ScreensOf
<1> HIDE DEF v
<1>2. Stays(t, On(t, v), w, h)
  BY <1>1, OnStays
<1>3. QED
  BY <1>2 DEF v

LEMMA Fed ==
  ASSUME NEW w \in Nat \ {0}, NEW h \in Nat \ {0}, NEW t \in TerminalsOf(w, h)
  PROVE /\ Stays(t, LineFeed(t), w, h)
        /\ Stays(t, On(LineFeed(t), [S(LineFeed(t)) EXCEPT !.x = 1]), w, h)
<1> DEFINE u == LineFeed(t)
<1>1. u \in TerminalsOf(w, h) /\ u.ok = t.ok
  BY LineFed DEF SameRegisters
<1> HIDE DEF u
<1>2. Stays(u, On(u, [S(u) EXCEPT !.x = 1]), w, h)
  BY <1>1, Homed
<1>3. QED
  BY <1>1, <1>2 DEF Stays, u

\* What a sequence of each kind consists of.
LEMMA TokenParts ==
  ASSUME NEW q \in Tokens
  PROVE \/ q[1] = "print" /\ q[2] \in Runes
        \/ q[1] \in {"set", "reset"} /\ q[2] \in Switched \cup MouseModes \cup {"alt", "altSave"}
        \/ q[1] = "sgr" /\ q[2] \in Styles
        \/ q[1] = "exec" /\ q[2] \in {"BS", "HT", "LF", "CR", "SO", "SI"}
        \/ /\ q[1] = "esc" /\ q[2] \in {"7", "8", "D", "E", "H", "M", "c", "#8", "(", ")"}
           /\ q[2] \in {"(", ")"} => q[3] \in Charsets
        \/ /\ q[1] = "csi" /\ q[2] \in CountFinals \cup {"H", "r", "J", "K", "g", "!p"}
           /\ q[2] \in CountFinals \cup {"H", "r"} => Param(q, 1, 1) \in Counts
           /\ q[2] \in {"H", "r"} => \A d : Param(q, 2, d) \in Counts \cup {d}
<1>1. CASE q \in {"print"} \X Runes
  BY <1>1
<1>2. CASE q \in {"set", "reset"} \X (Switched \cup MouseModes \cup {"alt", "altSave"})
  BY <1>2
<1>3. CASE q \in {"sgr"} \X Styles
  BY <1>3
<1>4. CASE q \in {"exec"} \X {"BS", "HT", "LF", "CR", "SO", "SI"}
  BY <1>4
<1>5. CASE q \in {"esc"} \X {"7", "8", "D", "E", "H", "M", "c", "#8"}
  BY <1>5
<1>6. CASE q \in {"esc"} \X {"(", ")"} \X Charsets
  BY <1>6
<1>7. CASE q \in {"csi"} \X (CountFinals \cup {"H", "r", "J", "K", "g", "!p"})
  <2>1. PICK a \in CountFinals \cup {"H", "r", "J", "K", "g", "!p"} : q = <<"csi", a>>
    BY <1>7
  <2>2. Len(q) = 2
    BY <2>1
  <2>3. \A i \in {1, 2} : \A d : Param(q, i, d) = d
    BY <2>2 DEF Param
  <2>4. QED
    BY <2>1, <2>3 DEF Counts
<1>8. CASE q \in {"csi"} \X (CountFinals \cup {"H", "r"}) \X Counts
  <2>1. PICK a \in CountFinals \cup {"H", "r"}, n \in Counts : q = <<"csi", a, n>>
    BY <1>8
  <2>2. Len(q) = 3 /\ q[3] = n
    BY <2>1
  <2>3. Param(q, 1, 1) = n /\ \A d : Param(q, 2, d) = d
    BY <2>2 DEF Param
  <2>4. QED
    BY <2>1, <2>3
<1>9. CASE q \in {"csi"} \X {"J"} \X Nat \/ q \in {"csi"} \X {"K"} \X (0..2) \/ q \in {"csi"} \X {"g"} \X {0, 3}
  BY <1>9 DEF CountFinals
<1>10. CASE q \in {"csi"} \X {"H", "r"} \X Counts \X Counts
  <2>1. PICK a \in {"H", "r"}, n \in Counts, m \in Counts : q = <<"csi", a, n, m>>
    BY <1>10
  <2>2. Len(q) = 4 /\ q[3] = n /\ q[4] = m
    BY <2>1
  <2>3. Param(q, 1, 1) = n /\ \A d : Param(q, 2, d) = m
    BY <2>2 DEF Param
  <2>4. QED
    BY <2>1, <2>3
<1>11. QED
  BY <1>1, <1>2, <1>3, <1>4, <1>5, <1>6, <1>7, <1>8, <1>9, <1>10 DEF Tokens

LEMMA ExecuteLives ==
  ASSUME NEW w \in Nat \ {0}, NEW h \in Nat \ {0}, NEW t \in TerminalsOf(w, h),
         NEW b \in {"BS", "HT", "LF", "CR", "SO", "SI"}
  PROVE Stays(t, Execute(t, b), w, h)
<1> DEFINE s == S(t)
           x == Most(s.x - 1, 1)
           back == [s EXCEPT !.x = x, !.pw = FALSE]
           start == [s EXCEPT !.x = 1, !.pw = FALSE]
<1>1. s \in ScreensOf(w, h) /\ s.x \in 1..w
  BY ActiveScreen, ScreenType
<1>2. CASE b = "BS"
  <2>1. Execute(t, b) = On(t, back)
    BY <1>2 DEF Execute
  <2>2. x \in 1..w
    BY <1>1 DEF Most
  <2> HIDE DEF x
  <2>3. back \in ScreensOf(w, h) /\ back.sb = s.sb
    BY <1>1, <2>2 DEF ScreensOf
  <2> HIDE DEF back
  <2>4. QED
    BY <2>1, <2>3, OnStays
<1>3. CASE b = "HT"
  <2>1. Execute(t, b) = TabForward(t, 1)
    BY <1>3 DEF Execute
  <2>2. QED
    BY <2>1, TabbedForward
<1>4. CASE b = "LF"
  <2> DEFINE u == LineFeed(t)
  <2>1. Execute(t, b) = IF "newline" \in t.modes THEN On(u, [S(u) EXCEPT !.x = 1]) ELSE u
    BY <1>4 DEF Execute
  <2>2. QED
    BY <2>1, Fed
<1>5. CASE b = "CR"
  <2>1. Execute(t, b) = On(t, start)
    BY <1>5 DEF Execute
  <2>2. 1 \in 1..w
    OBVIOUS
  <2>3. start \in ScreensOf(w, h) /\ start.sb = s.sb
    BY <1>1, <2>2 DEF ScreensOf
  <2> HIDE DEF start
  <2>4. QED
    BY <2>1, <2>3, OnStays
<1>6. CASE b = "SO"
  <2>0. 2 \in 1..2
    OBVIOUS
  <2>1. Execute(t, b) = [t EXCEPT !.gl = 2]
    BY <1>6 DEF Execute
  <2>2. QED
    BY <2>0, <2>1 DEF Stays, TerminalsOf
<1>7. CASE b = "SI"
  <2>0. 1 \in 1..2
    OBVIOUS
  <2>1. Execute(t, b) = [t EXCEPT !.gl = 1]
    BY <1>7 DEF Execute
  <2>2. QED
    BY <2>0, <2>1 DEF Stays, TerminalsOf
<1>8. QED
  BY <1>2, <1>3, <1>4, <1>5, <1>6, <1>7

LEMMA EscLives ==
  ASSUME NEW w \in Nat \ {0}, NEW h \in Nat \ {0}, NEW t \in TerminalsOf(w, h), NEW q,
         q[2] \in {"7", "8", "D", "E", "H", "M", "c", "#8", "(", ")"},
         q[2] \in {"(", ")"} => q[3] \in Charsets
  PROVE Lives(t, EscDispatch(t, q), w, h)
<1>1. CASE q[2] = "7"
  <2>1. EscDispatch(t, q) = SaveCursor(t)
    BY <1>1 DEF EscDispatch
  <2>2. QED
    BY <2>1, CursorSaved, StaysLives
<1>2. CASE q[2] = "8"
  <2>1. EscDispatch(t, q) = RestoreCursor(t)
    BY <1>2 DEF EscDispatch
  <2>2. QED
    BY <2>1, CursorRestored, StaysLives
<1>3. CASE q[2] = "D"
  <2>1. EscDispatch(t, q) = LineFeed(t)
    BY <1>3 DEF EscDispatch
  <2>2. QED
    BY <2>1, Fed, StaysLives
<1>4. CASE q[2] = "E"
  <2>1. EscDispatch(t, q) = On(LineFeed(t), [S(LineFeed(t)) EXCEPT !.x = 1])
    BY <1>4 DEF EscDispatch
  <2>2. QED
    BY <2>1, Fed, StaysLives
<1>5. CASE q[2] = "H"
  <2> DEFINE tabs == t.tabs \cup {S(t).x}
  <2>1. EscDispatch(t, q) = [t EXCEPT !.tabs = tabs]
    BY <1>5 DEF EscDispatch
  <2>2. tabs \in SUBSET Nat
    <3>1. S(t).x \in Nat
      BY ActiveScreen, ScreenType
    <3>2. QED
      BY <3>1 DEF TerminalsOf
  <2> HIDE DEF tabs
  <2>3. QED
    BY <2>1, <2>2 DEF Lives, TerminalsOf
<1>6. CASE q[2] = "M"
  <2>1. EscDispatch(t, q) = ReverseIndex(t)
    BY <1>6 DEF EscDispatch
  <2>2. QED
    BY <2>1, ReverseIndexed DEF Lives, SameRegisters
<1>7. CASE q[2] = "c"
  <2>1. EscDispatch(t, q) = FullReset(t)
    BY <1>7 DEF EscDispatch
  <2>2. QED
    BY <2>1, FullResetDone DEF Lives
<1>8. CASE q[2] = "#8"
  <2>1. EscDispatch(t, q) = AlignmentTest(t)
    BY <1>8 DEF EscDispatch
  <2>2. QED
    BY <2>1, Aligned, StaysLives
<1>9. CASE q[2] \in {"(", ")"}
  <2> DEFINE k == IF q[2] = "(" THEN 1 ELSE 2
             g == [t.g EXCEPT ![k] = q[3]]
  <2>1. EscDispatch(t, q) = [t EXCEPT !.g = g]
    <3>1. CASE q[2] = "("
      BY <3>1 DEF EscDispatch
    <3>2. CASE q[2] = ")"
      BY <3>2 DEF EscDispatch
    <3>3. QED
      BY <3>1, <3>2, <1>9
  <2>2. g \in [1..2 -> Charsets]
    BY <1>9 DEF TerminalsOf
  <2> HIDE DEF g
  <2>3. QED
    BY <2>1, <2>2 DEF Lives, TerminalsOf
<1>10. QED
  BY <1>1, <1>2, <1>3, <1>4, <1>5, <1>6, <1>7, <1>8, <1>9

LEMMA CsiLives ==
  ASSUME NEW w \in Nat \ {0}, NEW h \in Nat \ {0}, NEW t \in TerminalsOf(w, h), NEW q,
         q[2] \in CountFinals \cup {"H", "r", "J", "K", "g", "!p"},
         q[2] \in CountFinals \cup {"H", "r"} => Param(q, 1, 1) \in Counts,
         q[2] \in {"H", "r"} => \A d : Param(q, 2, d) \in Counts \cup {d}
  PROVE Lives(t, CsiDispatch(t, q), w, h)
<1> DEFINE n == Param(q, 1, 1)
<1>1. /\ q[2] \in CountFinals \cup {"H", "r", "J", "K", "g", "!p"}
      /\ q[2] \in {"H", "r"} => \A d : Param(q, 2, d) \in Counts \cup {d}
  OBVIOUS
<1>2. q[2] \in CountFinals \cup {"H", "r"} => n \in Nat \ {0} /\ n \in Nat /\ n \in Int
  BY DEF Counts
<1>3. S(t).x \in Int
  BY ActiveScreen, ScreenType
<1> HIDE DEF n
<1>4. CASE q[2] = "@"
  <2>0. n \in Nat \ {0} /\ n \in Nat /\ n \in Int
    BY <1>4, <1>2 DEF CountFinals
  <2> DEFINE u == InsertCells(t, n)
  <2>1. CsiDispatch(t, q) = On(u, [S(u) EXCEPT !.pw = FALSE])
    BY <1>4 DEF CsiDispatch, n
  <2>2. u \in TerminalsOf(w, h) /\ u.ok = t.ok
    BY <2>0, InsertedCells DEF SameRegisters
  <2> HIDE DEF u
  <2>3. QED
    BY <2>1, <2>2, Unpended DEF Stays, Lives
<1>5. CASE q[2] = "A"
  <2>0. n \in Nat \ {0} /\ n \in Nat /\ n \in Int
    BY <1>5, <1>2 DEF CountFinals
  <2>1. CsiDispatch(t, q) = CursorUp(t, n)
    BY <1>5 DEF CsiDispatch, n
  <2>2. QED
    BY <2>1, <2>0, CursorWentUp, StaysLives
<1>6. CASE q[2] = "B"
  <2>0. n \in Nat \ {0} /\ n \in Nat /\ n \in Int
    BY <1>6, <1>2 DEF CountFinals
  <2>1. CsiDispatch(t, q) = CursorDown(t, n)
    BY <1>6 DEF CsiDispatch, n
  <2>2. QED
    BY <2>1, <2>0, CursorWentDown, StaysLives
<1>7. CASE q[2] = "C"
  <2>0. n \in Nat \ {0} /\ n \in Nat /\ n \in Int
    BY <1>7, <1>2 DEF CountFinals
  <2>1. CsiDispatch(t, q) = Column(t, S(t).x + n)
    BY <1>7 DEF CsiDispatch, n
  <2>2. S(t).x + n \in Int
    BY <2>0, <1>3
  <2>3. QED
    BY <2>1, <2>2, ColumnPlaced, StaysLives
<1>8. CASE q[2] = "D"
  <2>0. n \in Nat \ {0} /\ n \in Nat /\ n \in Int
    BY <1>8, <1>2 DEF CountFinals
  <2>1. CsiDispatch(t, q) = Column(t, S(t).x - n)
    BY <1>8 DEF CsiDispatch, n
  <2>2. S(t).x - n \in Int
    BY <2>0, <1>3
  <2>3. QED
    BY <2>1, <2>2, ColumnPlaced, StaysLives
<1>9. CASE q[2] = "E"
  <2>0. n \in Nat \ {0} /\ n \in Nat /\ n \in Int
    BY <1>9, <1>2 DEF CountFinals
  <2> DEFINE u == CursorDown(t, n)
  <2>1. CsiDispatch(t, q) = On(u, [S(u) EXCEPT !.x = 1])
    BY <1>9 DEF CsiDispatch, n
  <2>2. u \in TerminalsOf(w, h) /\ u.ok = t.ok
    BY <2>0, CursorWentDown DEF Stays
  <2> HIDE DEF u
  <2>3. QED
    BY <2>1, <2>2, Homed DEF Stays, Lives
<1>10. CASE q[2] = "F"
  <2>0. n \in Nat \ {0} /\ n \in Nat /\ n \in Int
    BY <1>10, <1>2 DEF CountFinals
  <2> DEFINE u == CursorUp(t, n)
  <2>1. CsiDispatch(t, q) = On(u, [S(u) EXCEPT !.x = 1])
    BY <1>10 DEF CsiDispatch, n
  <2>2. u \in TerminalsOf(w, h) /\ u.ok = t.ok
    BY <2>0, CursorWentUp DEF Stays
  <2> HIDE DEF u
  <2>3. QED
    BY <2>1, <2>2, Homed DEF Stays, Lives
<1>11. CASE q[2] = "G"
  <2>0. n \in Nat \ {0} /\ n \in Nat /\ n \in Int
    BY <1>11, <1>2 DEF CountFinals
  <2>1. CsiDispatch(t, q) = Column(t, n)
    BY <1>11 DEF CsiDispatch, n
  <2>2. QED
    BY <2>1, <2>0, ColumnPlaced, StaysLives
<1>12. CASE q[2] = "H"
  <2>0. n \in Nat \ {0} /\ n \in Nat /\ n \in Int
    BY <1>12, <1>2 DEF CountFinals
  <2>1. CsiDispatch(t, q) = Goto(t, Param(q, 2, 1), n)
    BY <1>12 DEF CsiDispatch, n
  <2>2. Param(q, 2, 1) \in Int
    BY <1>12, <1>1 DEF Counts
  <2>3. QED
    BY <2>1, <2>2, <2>0, WentTo, StaysLives
<1>13. CASE q[2] = "I"
  <2>0. n \in Nat \ {0} /\ n \in Nat /\ n \in Int
    BY <1>13, <1>2 DEF CountFinals
  <2>1. CsiDispatch(t, q) = TabForward(t, n)
    BY <1>13 DEF CsiDispatch, n
  <2>2. QED
    BY <2>1, <2>0, TabbedForward, StaysLives
<1>14. CASE q[2] = "J"
  <2>1. CsiDispatch(t, q) = EraseInDisplay(t, Param(q, 1, 0))
    BY <1>14 DEF CsiDispatch, n
  <2>2. QED
    BY <2>1, <1>2, DisplayErased, StaysLives
<1>15. CASE q[2] = "K"
  <2>1. CsiDispatch(t, q) = EraseInLine(t, Param(q, 1, 0))
    BY <1>15 DEF CsiDispatch, n
  <2>2. QED
    BY <2>1, <1>2, LineErased, StaysLives
<1>16. CASE q[2] = "L"
  <2>0. n \in Nat \ {0} /\ n \in Nat /\ n \in Int
    BY <1>16, <1>2 DEF CountFinals
  <2>1. CsiDispatch(t, q) = InsertLines(t, n)
    BY <1>16 DEF CsiDispatch, n
  <2>2. QED
    BY <2>1, <2>0, LinesInserted, StaysLives
<1>17. CASE q[2] = "M"
  <2>0. n \in Nat \ {0} /\ n \in Nat /\ n \in Int
    BY <1>17, <1>2 DEF CountFinals
  <2>1. CsiDispatch(t, q) = DeleteLines(t, n)
    BY <1>17 DEF CsiDispatch, n
  <2>2. QED
    BY <2>1, <2>0, LinesDeleted, StaysLives
<1>18. CASE q[2] = "P"
  <2>0. n \in Nat \ {0} /\ n \in Nat /\ n \in Int
    BY <1>18, <1>2 DEF CountFinals
  <2>1. CsiDispatch(t, q) = DeleteChars(t, n)
    BY <1>18 DEF CsiDispatch, n
  <2>2. QED
    BY <2>1, <2>0, CharsDeleted, StaysLives
<1>19. CASE q[2] = "S"
  <2>0. n \in Nat \ {0} /\ n \in Nat /\ n \in Int
    BY <1>19, <1>2 DEF CountFinals
  <2>1. CsiDispatch(t, q) = Scroll(t, n, FALSE)
    BY <1>19 DEF CsiDispatch, n
  <2>2. \A keep \in BOOLEAN : Scroll(t, n, keep) \in TerminalsOf(w, h) /\ SameRegisters(t, Scroll(t, n, keep))
    BY <2>0, Scrolled
  <2>3. QED
    BY <2>1, <2>2 DEF Lives, SameRegisters
<1>20. CASE q[2] = "T"
  <2>0. n \in Nat \ {0} /\ n \in Nat /\ n \in Int
    BY <1>20, <1>2 DEF CountFinals
  <2>1. CsiDispatch(t, q) = ScrollDown(t, n)
    BY <1>20 DEF CsiDispatch, n
  <2>2. ScrollDown(t, n) \in TerminalsOf(w, h) /\ SameRegisters(t, ScrollDown(t, n))
    BY <2>0, ScrolledDown
  <2>3. QED
    BY <2>1, <2>2 DEF Lives, SameRegisters
<1>21. CASE q[2] = "X"
  <2>0. n \in Nat \ {0} /\ n \in Nat /\ n \in Int
    BY <1>21, <1>2 DEF CountFinals
  <2>1. CsiDispatch(t, q) = EraseChars(t, n)
    BY <1>21 DEF CsiDispatch, n
  <2>2. QED
    BY <2>1, <2>0, CharsErased, StaysLives
<1>22. CASE q[2] = "Z"
  <2>0. n \in Nat \ {0} /\ n \in Nat /\ n \in Int
    BY <1>22, <1>2 DEF CountFinals
  <2>1. CsiDispatch(t, q) = TabBackward(t, n)
    BY <1>22 DEF CsiDispatch, n
  <2>2. QED
    BY <2>1, <2>0, TabbedBackward, StaysLives
<1>23. CASE q[2] = "b"
  <2>0. n \in Nat \ {0} /\ n \in Nat /\ n \in Int
    BY <1>23, <1>2 DEF CountFinals
  <2>1. CsiDispatch(t, q) = Repeat(t, n)
    BY <1>23 DEF CsiDispatch, n
  <2>2. QED
    BY <2>1, <2>0, Repeated DEF Lives
<1>24. CASE q[2] = "d"
  <2>0. n \in Nat \ {0} /\ n \in Nat /\ n \in Int
    BY <1>24, <1>2 DEF CountFinals
  <2>1. CsiDispatch(t, q) = Goto(t, S(t).x, n)
    BY <1>24 DEF CsiDispatch, n
  <2>2. QED
    BY <2>1, <2>0, <1>3, WentTo, StaysLives
<1>25. CASE q[2] = "g"
  <2> DEFINE tabs == IF Param(q, 1, 0) = 0 THEN t.tabs \ {S(t).x} ELSE {}
  <2>1. CsiDispatch(t, q) = [t EXCEPT !.tabs = tabs]
    BY <1>25 DEF CsiDispatch, n
  <2>2. tabs \in SUBSET Nat
    BY DEF TerminalsOf
  <2> HIDE DEF tabs
  <2>3. QED
    BY <2>1, <2>2 DEF Lives, TerminalsOf
<1>26. CASE q[2] = "r"
  <2>0. n \in Nat \ {0} /\ n \in Nat /\ n \in Int
    BY <1>26, <1>2 DEF CountFinals
  <2>1. CsiDispatch(t, q) = SetRegion(t, n, Param(q, 2, t.h))
    BY <1>26 DEF CsiDispatch, n
  <2>2. Param(q, 2, t.h) \in Nat
    BY <1>26, <1>1, ActiveScreen DEF Counts
  <2>3. n \in Nat \ {0}
    BY <1>26, <1>2
  <2>4. QED
    BY <2>1, <2>2, <2>3, RegionSet, StaysLives
<1>27. CASE q[2] = "!p"
  <2>1. CsiDispatch(t, q) = SoftReset(t)
    BY <1>27 DEF CsiDispatch, n
  <2>2. QED
    BY <2>1, <1>2, SoftResetDone, StaysLives
<1>28. QED
  BY <1>1, <1>4, <1>5, <1>6, <1>7, <1>8, <1>9, <1>10, <1>11, <1>12, <1>13, <1>14, <1>15, <1>16, <1>17, <1>18, <1>19, <1>20, <1>21, <1>22, <1>23, <1>24, <1>25, <1>26, <1>27 DEF CountFinals

LEMMA SetModeLives ==
  ASSUME NEW w \in Nat \ {0}, NEW h \in Nat \ {0}, NEW t \in TerminalsOf(w, h),
         NEW m \in Switched \cup MouseModes \cup {"alt", "altSave"}, NEW on \in BOOLEAN
  PROVE Stays(t, SetMode(t, m, on), w, h)
<1>1. CASE m \in {"alt", "altSave"}
  <2> DEFINE save == m = "altSave"
  <2>1. save \in BOOLEAN
    OBVIOUS
  <2>2. SetMode(t, m, on) = IF on THEN EnterAltScreen(t, save) ELSE LeaveAltScreen(t, save)
    <3>1. m \notin MouseModes
      BY <1>1 DEF MouseModes
    <3>2. QED
      BY <1>1, <3>1, Zenon DEF SetMode
  <2> HIDE DEF save
  <2>3. Stays(t, EnterAltScreen(t, save), w, h) /\ Stays(t, LeaveAltScreen(t, save), w, h)
    BY <2>1, AltScreenEntered, AltScreenLeft
  <2>4. QED
    BY <2>2, <2>3, Zenon
<1>2. CASE m \in MouseModes
  <2> DEFINE mouse == IF on THEN m ELSE IF t.mouse = m THEN "off" ELSE t.mouse
  <2>1. SetMode(t, m, on) = [t EXCEPT !.mouse = mouse]
    BY <1>2 DEF SetMode, MouseModes
  <2>2. mouse \in MouseModes \cup {"off"}
    BY <1>2 DEF TerminalsOf
  <2> HIDE DEF mouse
  <2>3. QED
    BY <2>1, <2>2 DEF Stays, TerminalsOf
<1>3. CASE m \in Switched /\ m \notin MouseModes /\ m \notin {"alt", "altSave"}
  <2> DEFINE modes == IF on THEN t.modes \cup {m} ELSE t.modes \ {m}
             u == [t EXCEPT !.modes = modes]
  <2>1. SetMode(t, m, on) = IF m = "origin" THEN MoveCursor(u, 1, 1) ELSE u
    BY <1>3 DEF SetMode
  <2>2. modes \in SUBSET Switched
    BY <1>3 DEF TerminalsOf
  <2> HIDE DEF modes
  <2>3. u \in TerminalsOf(w, h) /\ u.ok = t.ok
    BY <2>2 DEF TerminalsOf
  <2> HIDE DEF u
  <2>4. Stays(t, u, w, h) /\ Stays(t, MoveCursor(u, 1, 1), w, h)
    BY <2>3, CursorPlaced DEF Stays
  <2>5. QED
    BY <2>1, <2>4, Zenon
<1>4. QED
  BY <1>1, <1>2, <1>3

LEMMA ApplyLives ==
  ASSUME NEW w \in Nat \ {0}, NEW h \in Nat \ {0}, NEW t \in TerminalsOf(w, h), NEW q \in Tokens
  PROVE Lives(t, Apply(t, q), w, h)
<1>1. CASE q[1] = "print" /\ q[2] \in Runes
  <2>1. Apply(t, q) = PrintRune(t, q[2])
    BY <1>1 DEF Apply
  <2>2. QED
    BY <1>1, <2>1, Printed DEF Lives
<1>2. CASE q[1] \in {"set", "reset"} /\ q[2] \in Switched \cup MouseModes \cup {"alt", "altSave"}
  <2>1. Apply(t, q) = SetMode(t, q[2], TRUE) \/ Apply(t, q) = SetMode(t, q[2], FALSE)
    BY <1>2 DEF Apply
  <2>2. \A on \in BOOLEAN : Stays(t, SetMode(t, q[2], on), w, h)
    BY <1>2, SetModeLives
  <2>3. Stays(t, SetMode(t, q[2], TRUE), w, h) /\ Stays(t, SetMode(t, q[2], FALSE), w, h)
    BY <2>2
  <2>4. QED
    BY <2>1, <2>3, StaysLives
<1>3. CASE q[1] = "sgr" /\ q[2] \in Styles
  <2> DEFINE st == q[2]
  <2>1. Apply(t, q) = [t EXCEPT !.pen = st]
    BY <1>3 DEF Apply, Sgr
  <2>2. st \in Styles
    BY <1>3
  <2> HIDE DEF st
  <2>3. QED
    BY <2>1, <2>2 DEF Lives, TerminalsOf
<1>4. CASE q[1] = "exec" /\ q[2] \in {"BS", "HT", "LF", "CR", "SO", "SI"}
  <2>1. Apply(t, q) = Execute(t, q[2])
    BY <1>4 DEF Apply
  <2>2. QED
    BY <1>4, <2>1, ExecuteLives, StaysLives
<1>5. CASE /\ q[1] = "esc" /\ q[2] \in {"7", "8", "D", "E", "H", "M", "c", "#8", "(", ")"}
           /\ q[2] \in {"(", ")"} => q[3] \in Charsets
  <2>1. Apply(t, q) = EscDispatch(t, q)
    BY <1>5 DEF Apply
  <2>2. QED
    BY <1>5, <2>1, EscLives
<1>6. CASE /\ q[1] = "csi" /\ q[2] \in CountFinals \cup {"H", "r", "J", "K", "g", "!p"}
           /\ q[2] \in CountFinals \cup {"H", "r"} => Param(q, 1, 1) \in Counts
           /\ q[2] \in {"H", "r"} => \A d : Param(q, 2, d) \in Counts \cup {d}
  <2>1. Apply(t, q) = CsiDispatch(t, q)
    BY <1>6 DEF Apply
  <2>2. Lives(t, CsiDispatch(t, q), w, h)
    BY <1>6, CsiLives
  <2>3. QED
    BY <2>1, <2>2
<1>7. QED
  BY <1>1, <1>2, <1>3, <1>4, <1>5, <1>6, TokenParts, Zenon

\* A stream of sequences, of any length.
LEMMA FeedLives ==
  ASSUME NEW w \in Nat \ {0}, NEW h \in Nat \ {0}, NEW t \in TerminalsOf(w, h), NEW qs \in Seq(Tokens)
  PROVE Lives(t, Feed(t, qs), w, h)
<1> DEFINE n == Len(qs)
           step(u, q) == IF u.ok THEN Apply(u, q) ELSE u
           X == {u \in TerminalsOf(w, h) : t.ok \/ w = 1 => u.ok \/ w = 1}
           g == [i \in 1..n |-> [u \in X |-> step(u, qs[i])]]
           f[i \in 0..n] == IF i = 0 THEN t ELSE step(f[i - 1], qs[i])
<1>1. n \in Nat /\ \A i \in 1..n : qs[i] \in Tokens
  OBVIOUS
<1>2. ASSUME NEW i \in 1..n, NEW u \in X PROVE step(u, qs[i]) \in X
  <2>1. CASE u.ok
    <3>1. Lives(u, Apply(u, qs[i]), w, h)
      BY <1>1, ApplyLives
    <3>2. QED
      BY <2>1, <3>1 DEF Lives
  <2>2. CASE ~u.ok
    BY <2>2
  <2>3. QED
    BY <2>1, <2>2
<1>3. t \in X
  OBVIOUS
<1>4. Feed(t, qs) = f[n]
  BY DEF Feed
<1> HIDE DEF X, n, step, f
<1>5. g \in Steps(n, X)
  BY <1>2 DEF Steps
<1> HIDE DEF g
<1>6. PICK F : Computed(F, X, n, t, g)
  BY <1>1, <1>3, <1>5, StepsExist
<1>7. F \in [0..n -> X] /\ F[0] = t /\ \A i \in 1..n : F[i] = step(F[i - 1], qs[i])
  <2>1. \A i \in 1..n : F[i - 1] \in X
    BY <1>1, <1>6 DEF Computed
  <2>2. QED
    BY <1>6, <2>1 DEF g, Computed
<1>8. F = [i \in 0..n |-> IF i = 0 THEN t ELSE step(F[i - 1], qs[i])]
  BY <1>1, <1>7
<1>9. f = [i \in 0..n |-> IF i = 0 THEN t ELSE step(f[i - 1], qs[i])]
  BY <1>8 DEF f
<1>10. SameSteps(f, F, n)
  BY <1>1, <1>7, <1>9 DEF SameSteps
<1>11. f[n] \in X
  BY <1>1, <1>7, <1>10, StepsAgree DEF SameValues
<1>12. QED
  BY <1>4, <1>11 DEF X, Lives

-----------------------------------------------------------------------------
(* The theorems *)

LEMMA InitTypeOK == Init => TypeOK
<1> SUFFICES ASSUME Init PROVE TypeOK
  OBVIOUS
<1>1. PICK size \in Sizes, p \in Preludes : term = Feed(New(size[1], size[2]), p)
  BY DEF Init
<1> DEFINE w == size[1]
           h == size[2]
<1>2. w \in Nat \ {0} /\ h \in Nat \ {0} /\ p \in Seq(Tokens)
  BY TerminalAssumption
<1> HIDE DEF w, h
<1>3. New(w, h) \in TerminalsOf(w, h) /\ New(w, h).ok
  BY <1>2, NewType
<1>4. Lives(New(w, h), term, w, h)
  BY <1>1, <1>2, <1>3, FeedLives DEF w, h
<1>5. term \in TerminalsOf(w, h) /\ (term.ok \/ w = 1)
  BY <1>3, <1>4 DEF Lives
<1>6. term.w = w /\ term.h = h
  BY <1>5, ActiveScreen
<1>7. writes = 0 /\ resizes = 0 /\ MaxWrites \in Nat /\ MaxResizes \in Nat
  BY TerminalAssumption DEF Init
<1>8. writes \in 0..MaxWrites /\ resizes \in 0..MaxResizes
  BY <1>7
<1>9. QED
  BY <1>2, <1>5, <1>6, <1>8 DEF TypeOK

LEMMA NextTypeOK == TypeOK /\ [Next]_vars => TypeOK'
<1> SUFFICES ASSUME TypeOK, [Next]_vars PROVE TypeOK'
  OBVIOUS
<1>0. MaxWrites \in Nat /\ MaxResizes \in Nat
  BY TerminalAssumption
<1> DEFINE w == term.w
           h == term.h
<1>1. w \in Nat \ {0} /\ h \in Nat \ {0} /\ term \in TerminalsOf(w, h) /\ (term.ok \/ w = 1)
  BY DEF TypeOK
<1>2. ASSUME NEW q \in Output, Write(q) PROVE TypeOK'
  <2>1. q \in Seq(Tokens)
    BY TerminalAssumption
  <2>2. term' = Feed(term, q)
    BY <1>2 DEF Write
  <2>3. term' \in TerminalsOf(w, h) /\ (term'.ok \/ w = 1)
    <3> HIDE DEF w, h
    <3>1. Lives(term, Feed(term, q), w, h)
      BY <1>1, <2>1, FeedLives
    <3>2. QED
      BY <3>1, <2>2, <1>1 DEF Lives
  <2>4. term'.w = w /\ term'.h = h
    <3> HIDE DEF w, h
    <3>1. QED
      BY <2>3, ActiveScreen
  <2>5. writes' \in 0..MaxWrites /\ resizes' \in 0..MaxResizes
    BY <1>0, <1>2 DEF Write, TypeOK
  <2>6. QED
    BY <1>1, <2>3, <2>4, <2>5 DEF TypeOK
<1>3. ASSUME NEW size \in Sizes, ResizeTo(size) PROVE TypeOK'
  <2> DEFINE nw == size[1]
             nh == size[2]
  <2>1. nw \in Nat \ {0} /\ nh \in Nat \ {0}
    BY TerminalAssumption
  <2>2. term' = Resize(term, nw, nh) /\ term.ok
    BY <1>3 DEF ResizeTo
  <2> HIDE DEF nw, nh
  <2>3. term' \in TerminalsOf(nw, nh) /\ term'.ok
    <3> HIDE DEF w, h
    <3>1. w \in Nat \ {0} /\ h \in Nat \ {0} /\ term \in TerminalsOf(w, h)
      BY <1>1
    <3>2. \A a, b, c, d \in Nat \ {0} : \A t \in TerminalsOf(a, b) :
            Resize(t, c, d) \in TerminalsOf(c, d) /\ Resize(t, c, d).ok = t.ok
      BY Resized
    <3>3. Resize(term, nw, nh) \in TerminalsOf(nw, nh)
      BY <3>1, <3>2, <2>1
    <3>4. \A c, d \in Nat \ {0} : Resize(term, c, d).ok = term.ok
      BY <3>1, <3>2
    <3>5. Resize(term, nw, nh).ok = term.ok
      BY <3>4, <2>1
    <3>6. QED
      BY <3>3, <3>5, <2>2
  <2>4. term'.w = nw /\ term'.h = nh
    BY <2>3, ActiveScreen
  <2>5. writes' \in 0..MaxWrites /\ resizes' \in 0..MaxResizes
    BY <1>0, <1>3 DEF ResizeTo, TypeOK
  <2>6. QED
    BY <2>1, <2>3, <2>4, <2>5 DEF TypeOK
<1>4. CASE UNCHANGED vars
  BY <1>4 DEF TypeOK, vars, TerminalsOf, ScreensOf
<1>5. QED
  BY <1>2, <1>3, <1>4 DEF Next

(* Whatever the program writes and however the terminal is resized, both
   screens have the terminal's size, cursors and margins lie on them, and only
   a wide character on a single column indexes outside a row (Terminal.Write,
   Terminal.Resize, print).                                                *)
THEOREM TypeCorrect == Spec => []TypeOK
BY InitTypeOK, NextTypeOK, PTL DEF Spec

(* print blanks the other half of every wide character it overwrites in part,
   in any state the terminal reaches (print, term.go:373).                 *)
THEOREM PrintingIsWhole == Spec => []PrintsKeepWideWhole
<1>1. TypeOK => PrintsKeepWideWhole
  <2> SUFFICES ASSUME TypeOK, ~HasHalfWide(S(term)), "insert" \notin term.modes, ~NoRoomOverTail(term),
                      NEW c \in {"a", "m", " ", "W"}
               PROVE ~HasHalfWide(S(PrintRune(term, c)))
    BY DEF PrintsKeepWideWhole
  <2> DEFINE w == term.w
             h == term.h
  <2>1. w \in Nat \ {0} /\ h \in Nat \ {0} /\ term \in TerminalsOf(w, h)
    BY DEF TypeOK
  <2>2. c \in Runes
    BY ScreenAssumption
  <2> HIDE DEF w, h
  <2>3. QED
    BY <2>1, <2>2, Printed
<1>2. QED
  BY <1>1, TypeCorrect, PTL

-----------------------------------------------------------------------------
(* The text of the main screen *)

LEMMA ThreeParts ==
  ASSUME NEW X, NEW a \in Seq(X), NEW b \in Seq(X), NEW c \in Seq(X)
  PROVE LET s == a \o b \o c IN
        /\ \A i \in 1..Len(a) : s[i] = a[i]
        /\ \A i \in 1..Len(b) : s[Len(a) + i] = b[i]
        /\ \A i \in 1..Len(c) : s[Len(a) + Len(b) + i] = c[i]
<1> DEFINE d == a \o b
           s == d \o c
<1>1. /\ d \in Seq(X) /\ Len(d) = Len(a) + Len(b)
      /\ \A i \in 1..Len(a) : d[i] = a[i]
      /\ \A i \in 1..Len(b) : d[Len(a) + i] = b[i]
  OBVIOUS
<1>2. Len(a) \in Nat /\ Len(b) \in Nat /\ Len(c) \in Nat
  OBVIOUS
<1> HIDE DEF d
<1>3. /\ \A i \in 1..Len(d) : s[i] = d[i]
      /\ \A i \in 1..Len(c) : s[Len(d) + i] = c[i]
  BY <1>1
<1> HIDE DEF s
<1>4. \A i \in 1..Len(a) : s[i] = a[i]
  BY <1>1, <1>2, <1>3
<1>5. \A i \in 1..Len(b) : s[Len(a) + i] = b[i]
  <2>1. \A i \in 1..Len(b) : Len(a) + i \in 1..Len(d)
    BY <1>1, <1>2
  <2>2. QED
    BY <1>1, <1>3, <2>1
<1>6. \A i \in 1..Len(c) : s[Len(a) + Len(b) + i] = c[i]
  BY <1>1, <1>3
<1>7. QED
  BY <1>4, <1>5, <1>6 DEF s, d

\* Lines that show the same.
LEMMA SameTrimmed ==
  ASSUME NEW r \in ScrollbackLines, NEW q \in ScrollbackLines, LastVisible(r) = LastVisible(q),
         \A i \in 1..LastVisible(r) : r.cells[i] = q.cells[i]
  PROVE Trimmed(r).cells = Trimmed(q).cells
<1> DEFINE n == LastVisible(r)
           a == Trimmed(r).cells
           b == Trimmed(q).cells
<1>1. n \in Nat
  <2>1. Len(r.cells) \in Nat
    BY DEF ScrollbackLines
  <2>2. QED
    BY <2>1, LastVisibleCell
<1>2. a \in Seq(Cells) /\ Len(a) = n /\ \A i \in 1..n : a[i] = r.cells[i]
  BY TrimmedLine DEF ScrollbackLines
<1>3. b \in Seq(Cells) /\ Len(b) = n /\ \A i \in 1..n : b[i] = q.cells[i]
  BY TrimmedLine DEF ScrollbackLines
<1> HIDE DEF a, b, n
<1>4. a \in [1..n -> Cells] /\ b \in [1..n -> Cells]
  BY <1>2, <1>3, SequenceIsFunction
<1>5. \A i \in 1..n : a[i] = b[i]
  BY <1>2, <1>3 DEF n
<1>6. a = b
  <2>1. a = [i \in 1..n |-> a[i]]
    BY <1>4
  <2>2. b = [i \in 1..n |-> b[i]]
    BY <1>4
  <2>3. [i \in 1..n |-> a[i]] = [i \in 1..n |-> b[i]]
    BY <1>5
  <2>4. QED
    BY <2>1, <2>2, <2>3, Zenon
<1>7. QED
  BY <1>6 DEF a, b

LEMMA TrimmedTwice ==
  ASSUME NEW r \in ScrollbackLines
  PROVE Trimmed(Trimmed(r)).cells = Trimmed(r).cells
<1> DEFINE q == Trimmed(r)
           n == LastVisible(r)
           m == LastVisible(q)
<1>0. Len(r.cells) \in Nat
  BY DEF ScrollbackLines
<1>1. /\ n \in 0..Len(r.cells)
      /\ n > 0 => ~IsBlank(r.cells[n])
  BY LastVisibleCell
<1>2. /\ q \in ScrollbackLines /\ Len(q.cells) = n
      /\ \A i \in 1..n : q.cells[i] = r.cells[i]
  BY TrimmedLine
<1> HIDE DEF q
<1>3. /\ m \in 0..Len(q.cells)
      /\ \A i \in 1..Len(q.cells) : i > m => IsBlank(q.cells[i])
  BY <1>2, LastVisibleCell
<1> HIDE DEF n, m
<1>4. m = n
  BY <1>0, <1>1, <1>2, <1>3
<1>5. Trimmed(q).cells = Trimmed(r).cells
  BY <1>2, <1>4, SameTrimmed DEF m, n
<1>6. QED
  BY <1>5 DEF q

LEMMA FittedKeepsText ==
  ASSUME NEW w \in Nat \ {0}, NEW r \in ScrollbackLines, Fits(r, w)
  PROVE Trimmed(Fitted(r, w)).cells = Trimmed(r).cells
<1> DEFINE q == Fitted(r, w)
           n == LastVisible(r)
           m == LastVisible(q)
           k == Len(r.cells)
<1>0. k \in Nat /\ k <= w /\ (k = w => r.cells[w].w # 2)
  <2>1. k \in Nat
    BY DEF ScrollbackLines
  <2>2. QED
    BY <2>1 DEF Fits
<1>1. /\ n \in 0..k
      /\ n > 0 => ~IsBlank(r.cells[n])
      /\ \A i \in 1..k : i > n => IsBlank(r.cells[i])
  BY LastVisibleCell
<1>2. /\ q \in RowsOf(w)
      /\ \A i \in 1..w - 1 : q.cells[i] = IF i <= k THEN r.cells[i] ELSE Blank("plain")
      /\ LET last == IF w <= k THEN r.cells[w] ELSE Blank("plain")
         IN q.cells[w] = IF last.w = 2 THEN Blank("plain") ELSE last
  BY FittedRow
<1>3. q \in ScrollbackLines /\ Len(q.cells) = w
  BY <1>2, RowIsLine
<1> HIDE DEF q
<1>4. /\ m \in 0..w
      /\ m > 0 => ~IsBlank(q.cells[m])
      /\ \A i \in 1..w : i > m => IsBlank(q.cells[i])
  BY <1>3, LastVisibleCell
<1>5. IsBlank(Blank("plain")) /\ Blank("plain").w = 1
  BY DEF IsBlank, Blank, Cell, EraseStyle
<1> HIDE DEF n, m, k
<1>6. \A i \in 1..w : q.cells[i] = IF i <= k THEN r.cells[i] ELSE Blank("plain")
  <2>1. q.cells[w] = IF w <= k THEN r.cells[w] ELSE Blank("plain")
    BY <1>0, <1>2, <1>5
  <2>2. QED
    BY <1>2, <2>1
<1>7. m = n
  <2>1. m <= n
    <3>1. m > 0 => m <= k
      BY <1>4, <1>5, <1>6
    <3>2. QED
      BY <1>0, <1>1, <1>4, <1>6, <3>1
  <2>2. n <= m
    BY <1>0, <1>1, <1>4, <1>6
  <2>3. QED
    BY <1>1, <1>4, <2>1, <2>2, <1>0
<1>8. \A i \in 1..n : r.cells[i] = q.cells[i]
  BY <1>0, <1>1, <1>6
<1>9. Trimmed(q).cells = Trimmed(r).cells
  BY <1>3, <1>7, <1>8, SameTrimmed DEF n, m
<1>10. QED
  BY <1>9 DEF q

\* A sequence without the empty elements at its end.
Clip(a) == SubSeq(a, 1, Max({0} \cup {i \in DOMAIN a : a[i] # <<>>}))

LEMMA ClippedSame ==
  ASSUME NEW X, NEW a \in Seq(X), NEW b \in Seq(X), NEW n \in Nat, n <= Len(a), n <= Len(b),
         \A i \in 1..n : a[i] = b[i],
         \A i \in 1..Len(a) : i > n => a[i] = <<>>,
         \A i \in 1..Len(b) : i > n => b[i] = <<>>
  PROVE Clip(a) = Clip(b)
<1> DEFINE T == {0} \cup {i \in 1..n : a[i] # <<>>}
           A == {0} \cup {i \in DOMAIN a : a[i] # <<>>}
           B == {0} \cup {i \in DOMAIN b : b[i] # <<>>}
           m == Max(T)
<1>0. /\ Len(a) \in Nat /\ Len(b) \in Nat
      /\ DOMAIN a = 1..Len(a) /\ DOMAIN b = 1..Len(b)
  OBVIOUS
<1>1. \A i \in A : i \in T
  BY <1>0
<1>2. \A i \in B : i \in T
  BY <1>0
<1>3. \A i \in T : i \in A /\ i \in B
  BY <1>0
<1>4. A = T /\ B = T
  BY <1>1, <1>2, <1>3
<1>5. T \subseteq 0..n /\ T # {}
  OBVIOUS
<1> HIDE DEF A, B, T
<1>6. m \in 0..n
  BY <1>5, MaxOfBounded
<1>7. Clip(a) = SubSeq(a, 1, m) /\ Clip(b) = SubSeq(b, 1, m)
  BY <1>4 DEF Clip, A, B
<1> HIDE DEF m
<1> DEFINE p == SubSeq(a, 1, m)
           q == SubSeq(b, 1, m)
<1>8. p \in Seq(X) /\ Len(p) = m /\ \A i \in 1..m : p[i] = a[i]
  BY <1>0, <1>6, PartOf
<1>9. q \in Seq(X) /\ Len(q) = m /\ \A i \in 1..m : q[i] = b[i]
  BY <1>0, <1>6, PartOf
<1> HIDE DEF p, q
<1>10. p \in [1..m -> X] /\ q \in [1..m -> X]
  BY <1>8, <1>9, SequenceIsFunction
<1>11. \A i \in 1..m : p[i] = q[i]
  BY <1>6, <1>8, <1>9
<1>12. p = q
  <2>1. p = [i \in 1..m |-> p[i]]
    BY <1>10
  <2>2. q = [i \in 1..m |-> q[i]]
    BY <1>10
  <2>3. [i \in 1..m |-> p[i]] = [i \in 1..m |-> q[i]]
    BY <1>11
  <2>4. QED
    BY <2>1, <2>2, <2>3, Zenon
<1>13. QED
  BY <1>7, <1>12 DEF p, q

\* A row without a visible cell shows nothing.
LEMMA NothingShown ==
  ASSUME NEW r \in ScrollbackLines, LastVisible(r) = 0
  PROVE Trimmed(r).cells = <<>>
<1>1. Trimmed(r).cells \in Seq(Cells) /\ Len(Trimmed(r).cells) = 0
  BY TrimmedLine DEF ScrollbackLines
<1> DEFINE a == Trimmed(r).cells
<1>2. a \in Seq(Cells) /\ Len(a) = 0
  BY <1>1
<1> HIDE DEF a
<1>3. a = <<>>
  BY <1>2
<1>4. QED
  BY <1>3 DEF a

LEMMA NewRowShowsNothing ==
  ASSUME NEW w \in Nat \ {0}
  PROVE NewRow(w) \in RowsOf(w) /\ Trimmed(NewRow(w)).cells = <<>>
<1> DEFINE r == NewRow(w)
<1>1. r \in RowsOf(w) /\ \A i \in 1..w : r.cells[i] = Blank("plain")
  BY BlankRow DEF NewRow, Styles
<1> HIDE DEF r
<1>2. r \in ScrollbackLines /\ Len(r.cells) = w
  BY <1>1, RowIsLine
<1>3. IsBlank(Blank("plain"))
  BY DEF IsBlank, Blank, Cell, EraseStyle
<1>4. LastVisible(r) = 0
  BY <1>1, <1>2, <1>3, LastVisibleCell
<1>5. QED
  BY <1>1, <1>2, <1>4, NothingShown DEF r

\* The text of a screen's lines, the scrollback first.
Texts(s) == [i \in DOMAIN Lines(s) |-> Trimmed(Lines(s)[i]).cells]

LEMMA TextOfLines ==
  ASSUME NEW w \in Nat \ {0}, NEW h \in Nat \ {0}, NEW s \in ScreensOf(w, h)
  PROVE /\ Texts(s) \in Seq(Seq(Cells)) /\ Len(Texts(s)) = Len(s.sb) + h
        /\ \A i \in 1..Len(s.sb) : Texts(s)[i] = Trimmed(s.sb[i]).cells
        /\ \A i \in 1..h : Texts(s)[Len(s.sb) + i] = Trimmed(s.rows[i]).cells
<1> DEFINE sb == s.sb
           rows == s.rows
           all == sb \o rows
           n == Len(all)
           f == [i \in 1..n |-> Trimmed(all[i]).cells]
<1>1. sb \in Seq(ScrollbackLines) /\ rows \in [1..h -> RowsOf(w)]
  BY ScreenType
<1> HIDE DEF sb, rows
<1>2. rows \in Seq(ScrollbackLines) /\ Len(rows) = h
  <2>1. \A i \in 1..h : rows[i] \in ScrollbackLines
    BY <1>1, RowIsLine
  <2>2. rows \in [1..h -> ScrollbackLines]
    BY <1>1, <2>1
  <2>3. QED
    BY <2>2, FunctionIsSequence
<1>3. /\ all \in Seq(ScrollbackLines) /\ Len(all) = Len(sb) + Len(rows)
      /\ \A i \in 1..Len(sb) : all[i] = sb[i]
      /\ \A i \in 1..Len(rows) : all[Len(sb) + i] = rows[i]
      /\ Len(sb) \in Nat
  <2>1. sb \in Seq(ScrollbackLines) /\ rows \in Seq(ScrollbackLines)
    BY <1>1, <1>2
  <2>2. QED
    BY <2>1
<1>4. Texts(s) = f
  <2>1. Texts(s) = [i \in DOMAIN all |-> Trimmed(all[i]).cells]
    BY DEF Texts, Lines, sb, rows
  <2>2. DOMAIN all = 1..n
    BY <1>3
  <2>3. QED
    BY <2>1, <2>2
<1> HIDE DEF all
<1>5. n = Len(sb) + h /\ n \in Nat
  BY <1>2, <1>3
<1> HIDE DEF n
<1>6. f \in [1..n -> Seq(Cells)]
  <2>1. ASSUME NEW i \in 1..n PROVE Trimmed(all[i]).cells \in Seq(Cells)
    <3>1. all[i] \in ScrollbackLines
      BY <1>3, <1>5 DEF n
    <3>2. QED
      BY <3>1, TrimmedLine DEF ScrollbackLines
  <2>2. QED
    BY <2>1
<1>7. \A i \in 1..Len(sb) : f[i] = Trimmed(sb[i]).cells
  BY <1>3, <1>5
<1>8. \A i \in 1..h : f[Len(sb) + i] = Trimmed(rows[i]).cells
  BY <1>2, <1>3, <1>5
<1> HIDE DEF f
<1>9. f \in Seq(Seq(Cells)) /\ Len(f) = n
  BY <1>5, <1>6, FunctionIsSequence
<1>10. QED
  BY <1>4, <1>5, <1>7, <1>8, <1>9 DEF sb, rows

\* Which line each line of the rebuilt screen was.
CameBack(w, h0, h, s, v, drop, off, back) ==
  /\ Len(v.sb) = Len(s.sb) - back + off
  /\ \A i \in 1..Len(s.sb) - back : v.sb[i] = s.sb[i]
  /\ \A i \in 1..off : v.sb[Len(s.sb) + i] = Trimmed(s.rows[i])
  /\ \A i \in 1..back : v.rows[i] = Fitted(s.sb[Len(s.sb) - back + i], w)
  /\ \A i \in 1..h0 - drop - off : v.rows[back + i] = s.rows[off + i]
  /\ \A i \in 1..h : i > back + (h0 - drop - off) => v.rows[i] = NewRow(w)
  /\ v.y = Clamp(s.y - off + back, 1, h)

LEMMA RebuiltLines ==
  ASSUME NEW w \in Nat \ {0}, NEW h0 \in Nat \ {0}, NEW h \in Nat \ {0}, NEW s \in ScreensOf(w, h0),
         NEW rows, NEW drop, NEW off, NEW back, Parts(w, h0, s, w, h, TRUE, rows, drop, off, back),
         Len(s.sb) + off <= MaxScrollback, NEW v, v = Rebuild(h0, s, w, h, TRUE, rows, drop, off, back)
  PROVE CameBack(w, h0, h, s, v, drop, off, back)
<1> DEFINE k == Len(s.sb)
           a == [i \in 1..back |-> Fitted(s.sb[k - back + i], w)]
           b == SubSeq(rows, off + 1, h0 - drop)
           c == [i \in 1..h - h0 - back |-> NewRow(w)]
           new == a \o b \o c
           sb == IF back > 0 THEN SubSeq(s.sb, 1, k - back) ELSE PushRows(s.sb, rows, off)
<1>1. s.sb \in Seq(ScrollbackLines) /\ k <= MaxScrollback /\ s.y \in 1..h0
  BY ScreenType
<1>2. k \in Nat
  BY <1>1
<1>3. v.rows = new /\ v.sb = sb /\ v.y = Clamp(s.y - off + back, 1, h)
  <2>1. v.rows = new /\ v.y = Clamp(s.y - off + back, 1, h)
    BY DEF Rebuild, ScreensOf
  <2>2. v.sb = sb
    BY DEF Rebuild, ScreensOf
  <2>3. QED
    BY <2>1, <2>2
<1>4. /\ rows = s.rows /\ rows \in [1..h0 -> RowsOf(w)]
      /\ drop \in 0..h0 /\ off \in 0..h0 - drop /\ back \in 0..k
      /\ h >= h0 => drop = 0 /\ off = 0 /\ back <= h - h0
      /\ h < h0 => drop + off = h0 - h /\ back = 0
      /\ back > 0 => off = 0
  BY <1>1, <1>2 DEF Parts
<1>5. a \in Seq(RowsOf(w)) /\ Len(a) = back /\ \A i \in 1..back : a[i] = Fitted(s.sb[k - back + i], w)
  <2>1. ASSUME NEW i \in 1..back PROVE Fitted(s.sb[k - back + i], w) \in RowsOf(w)
    <3>1. k - back + i \in 1..Len(s.sb)
      BY <1>2, <1>4, SMTT(30)
    <3>2. s.sb[k - back + i] \in ScrollbackLines
      BY <3>1, <1>1
    <3>3. QED
      BY <3>2, FittedRow
  <2>2. a \in [1..back -> RowsOf(w)] /\ back \in Nat
    <3>1. back \in Nat
      BY <1>2, <1>4
    <3>2. QED
      BY <2>1, <3>1
  <2>3. \A i \in 1..back : a[i] = Fitted(s.sb[k - back + i], w)
    OBVIOUS
  <2> HIDE DEF a
  <2>4. QED
    BY <2>2, <2>3, FunctionIsSequence
<1>6. b \in Seq(RowsOf(w)) /\ Len(b) = h0 - drop - off /\ \A i \in 1..h0 - drop - off : b[i] = rows[off + i]
  <2>1. rows \in Seq(RowsOf(w)) /\ Len(rows) = h0
    BY <1>4, FunctionIsSequence
  <2>2. off + 1 \in 1..Len(rows) + 1 /\ h0 - drop \in (off + 1) - 1..Len(rows)
    BY <2>1, <1>4
  <2>3. /\ b \in Seq(RowsOf(w)) /\ Len(b) = h0 - drop - (off + 1) + 1
        /\ \A i \in 1..h0 - drop - (off + 1) + 1 : b[i] = rows[off + 1 + i - 1]
    BY <2>1, <2>2, PartOf
  <2> HIDE DEF b
  <2>4. QED
    BY <2>3, <1>4
<1> DEFINE m == IF h >= h0 THEN h - h0 - back ELSE 0
<1>7. c \in Seq(RowsOf(w)) /\ Len(c) = m /\ \A i \in 1..m : c[i] = NewRow(w)
  <2>1. m \in Nat /\ 1..h - h0 - back = 1..m
    BY <1>4
  <2> HIDE DEF m
  <2>2. c \in [1..m -> RowsOf(w)] /\ \A i \in 1..m : c[i] = NewRow(w)
    BY <2>1, NewRowShowsNothing
  <2> HIDE DEF c
  <2>3. QED
    BY <2>1, <2>2, FunctionIsSequence
<1> HIDE DEF a, b, c
<1>8. /\ \A i \in 1..Len(a) : new[i] = a[i]
      /\ \A i \in 1..Len(b) : new[Len(a) + i] = b[i]
      /\ \A i \in 1..Len(c) : new[Len(a) + Len(b) + i] = c[i]
  <2>1. a \in Seq(RowsOf(w)) /\ b \in Seq(RowsOf(w)) /\ c \in Seq(RowsOf(w))
    BY <1>5, <1>6, <1>7
  <2>2. QED
    BY <2>1, ThreeParts
<1> HIDE DEF new
<1>9. \A i \in 1..back : v.rows[i] = Fitted(s.sb[k - back + i], w)
  BY <1>3, <1>5, <1>8
<1>10. \A i \in 1..h0 - drop - off : v.rows[back + i] = s.rows[off + i]
  BY <1>3, <1>4, <1>5, <1>6, <1>8, ZenonT(60)
<1>11. \A i \in 1..h : i > back + (h0 - drop - off) => v.rows[i] = NewRow(w)
  <2> SUFFICES ASSUME NEW i \in 1..h, i > back + (h0 - drop - off) PROVE new[i] = NewRow(w)
    BY <1>3
  <2> DEFINE j == i - (back + (h0 - drop - off))
  <2>1. j \in 1..m /\ i = Len(a) + Len(b) + j
    BY <1>2, <1>4, <1>5, <1>6
  <2> HIDE DEF j, m
  <2>2. QED
    BY <1>7, <1>8, <2>1
<1>12. CASE back > 0
  <2>1. sb = SubSeq(s.sb, 1, k - back) /\ off = 0
    BY <1>12, <1>4
  <2>2. 1 \in 1..Len(s.sb) + 1 /\ k - back \in 1 - 1..Len(s.sb)
    BY <1>2, <1>4
  <2> HIDE DEF sb
  <2>3. Len(sb) = k - back - 1 + 1 /\ \A i \in 1..k - back - 1 + 1 : sb[i] = s.sb[1 + i - 1]
    BY <1>1, <2>1, <2>2, PartOf
  <2> HIDE DEF k, CameBack
  <2>4. Len(sb) = k - back + off /\ (\A i \in 1..k - back : sb[i] = s.sb[i])
        /\ (\A i \in 1..off : sb[k + i] = Trimmed(s.rows[i]))
    BY <1>2, <1>4, <2>1, <2>3
  <2>5. QED
    BY <1>3, <1>9, <1>10, <1>11, <2>4 DEF k, CameBack
<1>13. CASE ~(back > 0)
  <2>1. sb = PushRows(s.sb, rows, off) /\ back = 0
    BY <1>13, <1>2, <1>4
  <2>2. rows \in [1..h0 -> ScrollbackLines]
    <3>1. \A i \in 1..h0 : rows[i] \in ScrollbackLines
      BY <1>4, RowIsLine
    <3>2. QED
      BY <3>1, <1>4
  <2>3. off \in 0..h0 /\ s.sb \in Scrollbacks
    BY <1>1, <1>4 DEF Scrollbacks
  <2>4. Followed(PushRows(s.sb, rows, off), s.sb, rows, off)
    BY <2>2, <2>3, RowsPushed
  <2> HIDE DEF sb
  <2>5. Len(sb) = k - back + off /\ (\A i \in 1..k - back : sb[i] = s.sb[i])
        /\ (\A i \in 1..off : sb[k + i] = Trimmed(s.rows[i]))
    BY <1>2, <1>4, <2>1, <2>3, <2>4 DEF Followed
  <2>6. QED
    BY <1>3, <1>9, <1>10, <1>11, <2>5 DEF k, CameBack
<1>14. QED
  BY <1>12, <1>13

\* No line of the scrollback is wider than the screen.
Uncut(s, w) == \A i \in 1..Len(s.sb) : Fits(s.sb[i], w)

SameText(v, s) == Clip(Texts(v)) = Clip(Texts(s))

\* The lines a change of height keeps are the same ones, and only empty ones come
\* after them.
LEMMA RebuiltText ==
  ASSUME NEW w \in Nat \ {0}, NEW h0 \in Nat \ {0}, NEW h \in Nat \ {0}, NEW s \in ScreensOf(w, h0),
         NEW rows, NEW drop, NEW off, NEW back, Parts(w, h0, s, w, h, TRUE, rows, drop, off, back),
         Len(s.sb) + off <= MaxScrollback,
         back > 0 => Uncut(s, w),
         NEW v \in ScreensOf(w, h), v = Rebuild(h0, s, w, h, TRUE, rows, drop, off, back)
  PROVE SameText(v, s)
<1> DEFINE k == Len(s.sb)
           a == Texts(v)
           b == Texts(s)
           n == k + h0 - drop
<1>1. s.sb \in Seq(ScrollbackLines) /\ s.y \in 1..h0 /\ s.rows \in [1..h0 -> RowsOf(w)]
  BY ScreenType
<1>2. k \in Nat
  BY <1>1
<1>3. /\ rows = s.rows
      /\ drop \in 0..h0 /\ off \in 0..h0 - drop /\ back \in 0..k
      /\ h >= h0 => drop = 0 /\ off = 0 /\ back <= h - h0
      /\ h < h0 => drop + off = h0 - h /\ back = 0
      /\ back > 0 => off = 0
      /\ \A i \in 1..h0 : i > h0 - drop => LastVisible(s.rows[i]) = 0
  BY <1>1, <1>2 DEF Parts
<1>4. /\ Len(v.sb) = k - back + off
      /\ \A i \in 1..k - back : v.sb[i] = s.sb[i]
      /\ \A i \in 1..off : v.sb[k + i] = Trimmed(s.rows[i])
      /\ \A i \in 1..back : v.rows[i] = Fitted(s.sb[k - back + i], w)
      /\ \A i \in 1..h0 - drop - off : v.rows[back + i] = s.rows[off + i]
      /\ \A i \in 1..h : i > back + (h0 - drop - off) => v.rows[i] = NewRow(w)
  <2>1. CameBack(w, h0, h, s, v, drop, off, back)
    BY RebuiltLines, Zenon
  <2>2. QED
    BY <2>1 DEF CameBack
<1>5. /\ a \in Seq(Seq(Cells)) /\ Len(a) = k - back + off + h
      /\ \A i \in 1..k - back + off : a[i] = Trimmed(v.sb[i]).cells
      /\ \A i \in 1..h : a[k - back + off + i] = Trimmed(v.rows[i]).cells
  <2>1. /\ a \in Seq(Seq(Cells)) /\ Len(a) = Len(v.sb) + h
        /\ \A i \in 1..Len(v.sb) : a[i] = Trimmed(v.sb[i]).cells
        /\ \A i \in 1..h : a[Len(v.sb) + i] = Trimmed(v.rows[i]).cells
    BY TextOfLines
  <2>2. Len(v.sb) = k - back + off
    BY <1>4
  <2> HIDE DEF a, k
  <2>3. QED
    BY <2>1, <2>2
<1>6. /\ b \in Seq(Seq(Cells)) /\ Len(b) = k + h0
      /\ \A i \in 1..k : b[i] = Trimmed(s.sb[i]).cells
      /\ \A i \in 1..h0 : b[k + i] = Trimmed(s.rows[i]).cells
  BY TextOfLines
<1>7. \A i \in 1..k : s.sb[i] \in ScrollbackLines
  BY <1>1
<1>8. \A i \in 1..h0 : s.rows[i] \in ScrollbackLines
  BY <1>1, RowIsLine
<1> HIDE DEF a, b, k, n
<1>9. n \in Nat /\ n <= Len(a) /\ n <= Len(b)
  <2>1. n \in Nat /\ n <= k + h0 /\ n <= k - back + off + h
    BY <1>2, <1>3 DEF n
  <2>2. QED
    BY <1>5, <1>6, <2>1
<1>10. ASSUME NEW i \in 1..n PROVE a[i] = b[i]
  <2>1. CASE i <= k - back
    <3>1. i \in 1..k - back /\ i \in 1..k - back + off /\ i \in 1..k
      BY <2>1, <1>2, <1>3
    <3>2. v.sb[i] = s.sb[i]
      BY <3>1, <1>4
    <3>3. a[i] = Trimmed(v.sb[i]).cells /\ b[i] = Trimmed(s.sb[i]).cells
      BY <3>1, <1>5, <1>6
    <3>4. QED
      BY <3>2, <3>3
  <2>2. CASE i > k - back /\ i <= k /\ back > 0
    <3> DEFINE j == i - (k - back)
    <3>1. j \in 1..back /\ j \in 1..h /\ i = k - back + j /\ i = k - back + off + j /\ i \in 1..k
      BY <2>2, <1>2, <1>3
    <3>2. a[i] = Trimmed(v.rows[j]).cells /\ v.rows[j] = Fitted(s.sb[i], w)
      <4> HIDE DEF j
      <4>1. QED
        BY <3>1, <1>4, <1>5
    <3>3. s.sb[i] \in ScrollbackLines /\ Fits(s.sb[i], w)
      BY <2>2, <3>1, <1>7 DEF k, Uncut
    <3>4. Trimmed(Fitted(s.sb[i], w)).cells = Trimmed(s.sb[i]).cells
      BY <3>3, FittedKeepsText
    <3>5. QED
      BY <3>1, <3>2, <3>4, <1>6
  <2>3. CASE i > k /\ i <= k + off
    <3> DEFINE j == i - k
    <3>1. j \in 1..off /\ j \in 1..h0 /\ i = k + j /\ i \in 1..k - back + off
      BY <2>3, <1>2, <1>3
    <3> HIDE DEF j
    <3>2. a[i] = Trimmed(Trimmed(s.rows[j])).cells
      BY <3>1, <1>4, <1>5
    <3>3. Trimmed(Trimmed(s.rows[j])).cells = Trimmed(s.rows[j]).cells
      BY <3>1, <1>8, TrimmedTwice
    <3>4. QED
      BY <3>1, <3>2, <3>3, <1>6
  <2>4. CASE i > k + off
    <3> DEFINE j == i - k - off
    <3>1. /\ j \in 1..h0 - drop - off /\ off + j \in 1..h0 /\ i = k + (off + j)
          /\ back + j \in 1..h /\ i = k - back + off + (back + j)
      BY <2>4, <1>2, <1>3 DEF n
    <3> HIDE DEF j
    <3>2. a[i] = Trimmed(v.rows[back + j]).cells /\ v.rows[back + j] = s.rows[off + j]
      BY <3>1, <1>4, <1>5
    <3>3. b[i] = Trimmed(s.rows[off + j]).cells
      BY <3>1, <1>6
    <3>4. QED
      BY <3>2, <3>3
  <2>5. QED
    BY <2>1, <2>2, <2>3, <2>4, <1>2, <1>3
<1>11. ASSUME NEW i \in 1..Len(a), i > n PROVE a[i] = <<>>
  <2> DEFINE j == i - (k - back + off)
  <2>1. j \in 1..h /\ j > back + (h0 - drop - off) /\ i = k - back + off + j
    BY <1>2, <1>3, <1>5, <1>11 DEF n
  <2> HIDE DEF j
  <2>2. a[i] = Trimmed(NewRow(w)).cells
    BY <2>1, <1>4, <1>5
  <2>3. QED
    BY <2>2, NewRowShowsNothing
<1>12. ASSUME NEW i \in 1..Len(b), i > n PROVE b[i] = <<>>
  <2> DEFINE j == i - k
  <2>1. j \in 1..h0 /\ j > h0 - drop /\ i = k + j
    BY <1>2, <1>3, <1>6, <1>12 DEF n
  <2> HIDE DEF j
  <2>2. b[i] = Trimmed(s.rows[j]).cells /\ LastVisible(s.rows[j]) = 0 /\ s.rows[j] \in ScrollbackLines
    BY <2>1, <1>3, <1>6, <1>8
  <2>3. QED
    BY <2>2, NothingShown
<1>13. Clip(a) = Clip(b)
  BY <1>5, <1>6, <1>9, <1>10, <1>11, <1>12, ClippedSame
<1>14. QED
  BY <1>13 DEF a, b, SameText

LEMMA TextIsClipped ==
  ASSUME NEW t
  PROVE Text(t) = Clip(Texts(t.main))
BY DEF Text, Clip, Texts

LEMMA WritingKeepsSize ==
  ASSUME TypeOK, NEW q \in Output, Write(q)
  PROVE term'.w = term.w /\ term'.h = term.h
<1> DEFINE w == term.w
           h == term.h
<1>1. w \in Nat \ {0} /\ h \in Nat \ {0} /\ term \in TerminalsOf(w, h) /\ q \in Seq(Tokens)
  BY TerminalAssumption DEF TypeOK
<1>2. term' = Feed(term, q)
  BY DEF Write
<1> HIDE DEF w, h
<1>3. term' \in TerminalsOf(w, h)
  BY <1>1, <1>2, FeedLives DEF Lives
<1>4. term'.w = w /\ term'.h = h
  BY <1>3, ActiveScreen
<1>5. QED
  BY <1>4 DEF w, h

\* A terminal that only gets another height.
LEMMA HeightChanged ==
  ASSUME NEW w \in Nat \ {0}, NEW h0 \in Nat \ {0}, NEW h \in Nat \ {0}, NEW t \in TerminalsOf(w, h0), h # h0,
         Len(t.main.sb) + h0 - h <= MaxScrollback,
         h > h0 => Uncut(t.main, w),
         NEW u, u = Resize(t, w, h)
  PROVE /\ Text(u) = Text(t)
        /\ CursorLine(u) = CursorLine(t) \/ u.main.y = 1
<1> DEFINE s == t.main
           v == u.main
           k == Len(s.sb)
<1>1. s \in ScreensOf(w, h0) /\ t.h = h0
  BY DEF TerminalsOf
<1>2. u \in TerminalsOf(w, h) /\ v = ResizeScreen(t, s, w, h, TRUE)
  <2>1. u \in TerminalsOf(w, h)
    BY Resized
  <2>2. u = [t EXCEPT !.w = w, !.h = h, !.tabs = TabStops(w),
                      !.main = ResizeScreen(t, s, w, h, TRUE),
                      !.alt = ResizeScreen(t, t.alt, w, h, FALSE)]
    BY <1>1 DEF Resize
  <2>3. v = ResizeScreen(t, s, w, h, TRUE)
    BY <2>2 DEF TerminalsOf
  <2>4. QED
    BY <2>1, <2>3
<1>3. v \in ScreensOf(w, h)
  BY <1>2 DEF TerminalsOf
<1>4. PICK rows, drop, off, back :
         /\ Parts(w, h0, s, w, h, TRUE, rows, drop, off, back)
         /\ ResizeScreen(t, s, w, h, TRUE) = Rebuild(h0, s, w, h, TRUE, rows, drop, off, back)
  <2>1. TRUE \in BOOLEAN
    OBVIOUS
  <2>2. QED
    <3>1. \A m \in BOOLEAN : \E rows, drop, off, back :
            /\ Parts(w, h0, s, w, h, m, rows, drop, off, back)
            /\ ResizeScreen(t, s, w, h, m) = Rebuild(h0, s, w, h, m, rows, drop, off, back)
      BY <1>1, ResizeInParts
    <3>2. QED
      BY <2>1, <3>1, Zenon
<1>5. v = Rebuild(h0, s, w, h, TRUE, rows, drop, off, back)
  BY <1>2, <1>4
<1>6. s.sb \in Seq(ScrollbackLines) /\ k <= MaxScrollback /\ s.y \in 1..h0
  BY <1>1, ScreenType
<1>7. k \in Nat /\ MaxScrollback \in Nat
  <2>1. k \in Nat
    BY <1>6
  <2>2. QED
    BY <2>1, ScreenAssumption
<1>8. /\ drop \in 0..h0 - s.y /\ off \in 0..h0 - drop /\ back \in 0..k
      /\ h >= h0 => drop = 0 /\ off = 0
      /\ h < h0 => drop + off = h0 - h
      /\ back = 0 \/ (s.y = h0 /\ back <= h - h0)
  BY <1>4 DEF Parts
<1> HIDE DEF s, v
<1>9. k + off <= MaxScrollback /\ (back > 0 => h > h0)
  <2>1. k + h0 - h <= MaxScrollback
    BY DEF s
  <2> HIDE DEF k
  <2>2. QED
    BY <1>6, <1>7, <1>8, <2>1
<1>10. back > 0 => Uncut(s, w)
  BY <1>9 DEF s
<1>11. SameText(v, s)
  <2>1. /\ Parts(w, h0, s, w, h, TRUE, rows, drop, off, back) /\ Len(s.sb) + off <= MaxScrollback
        /\ (back > 0 => Uncut(s, w)) /\ s \in ScreensOf(w, h0) /\ v \in ScreensOf(w, h)
        /\ v = Rebuild(h0, s, w, h, TRUE, rows, drop, off, back)
    BY <1>1, <1>3, <1>4, <1>5, <1>9, <1>10
  <2>2. QED
    BY <2>1, RebuiltText, Zenon
<1>12. CameBack(w, h0, h, s, v, drop, off, back)
  BY <1>1, <1>4, <1>5, <1>9, RebuiltLines, Zenon
<1>13. Len(v.sb) = k - back + off /\ v.y = Clamp(s.y - off + back, 1, h)
  BY <1>12 DEF CameBack
<1>14. k - back + off + v.y = k + s.y \/ v.y = 1
  <2> DEFINE y == s.y
             z == v.y
  <2>1. /\ y \in 1..h0 /\ drop \in 0..h0 - y /\ off \in 0..h0 - drop /\ back \in 0..k
        /\ z = Clamp(y - off + back, 1, h) /\ (back = 0 \/ (y = h0 /\ back <= h - h0))
    BY <1>6, <1>8, <1>13
  <2> HIDE DEF y, z, k
  <2>2. k - back + off + z = k + y \/ z = 1
    BY <1>7, <1>8, <2>1 DEF Clamp, Least, Most
  <2>3. QED
    BY <2>2 DEF y, z
<1>15. Text(u) = Text(t)
  BY <1>11, TextIsClipped DEF s, v, SameText
<1>16. CursorLine(u) = CursorLine(t) \/ u.main.y = 1
  BY <1>13, <1>14 DEF CursorLine, s, v
<1>17. QED
  BY <1>15, <1>16

(* A resize that changes only the height shows the same lines in the same
   order, scrollback and screen together, and the cursor stays on its line
   (resizeScreen).                                                         *)
THEOREM HeightChangeKeepsText == Spec => HeightChangeKeepsLines
<1> DEFINE Kept ==
      term'.w = term.w /\ term'.h # term.h =>
        \/ Len(term.main.sb) + term.h - term'.h > MaxScrollback
        \/ term'.h > term.h /\ \E i \in DOMAIN term.main.sb : ~Fits(term.main.sb[i], term.w)
        \/ /\ Text(term') = Text(term)
           /\ CursorLine(term') = CursorLine(term) \/ term'.main.y = 1
<1>1. TypeOK /\ [Next]_vars => [Kept]_vars
  <2> SUFFICES ASSUME TypeOK, [Next]_vars, term'.w = term.w, term'.h # term.h,
                      ~(Len(term.main.sb) + term.h - term'.h > MaxScrollback),
                      ~(term'.h > term.h /\ \E i \in DOMAIN term.main.sb : ~Fits(term.main.sb[i], term.w))
               PROVE /\ Text(term') = Text(term)
                     /\ CursorLine(term') = CursorLine(term) \/ term'.main.y = 1
    OBVIOUS
  <2>1. CASE \E q \in Output : Write(q)
    BY <2>1, WritingKeepsSize
  <2>2. CASE \E size \in Sizes : ResizeTo(size)
    <3>1. PICK size \in Sizes : ResizeTo(size)
      BY <2>2
    <3> DEFINE w == term.w
               h0 == term.h
               h == size[2]
    <3>2. /\ w \in Nat \ {0} /\ h0 \in Nat \ {0} /\ term \in TerminalsOf(w, h0)
          /\ h \in Nat \ {0} /\ size[1] \in Nat \ {0}
          /\ term' = Resize(term, size[1], h)
      BY <3>1, TerminalAssumption DEF TypeOK, ResizeTo
    <3>3. term' \in TerminalsOf(size[1], h)
      BY <3>2, Resized
    <3>4. size[1] = w /\ term'.h = h
      BY <3>3, ActiveScreen
    <3>5. term' = Resize(term, w, h) /\ h # h0
      BY <3>2, <3>4
    <3> DEFINE k == Len(term.main.sb)
    <3>6. DOMAIN term.main.sb = 1..k /\ k \in Nat
      <4>1. term.main \in ScreensOf(w, h0)
        BY <3>2 DEF TerminalsOf
      <4>2. term.main.sb \in Seq(ScrollbackLines)
        BY <4>1, ScreenType
      <4>3. QED
        BY <4>2
    <3>7. h > h0 => Uncut(term.main, w)
      BY <3>4, <3>6 DEF Uncut
    <3>8. k + h0 - h <= MaxScrollback
      <4>1. MaxScrollback \in Nat
        BY ScreenAssumption
      <4>2. ~(k + h0 - h > MaxScrollback)
        BY <3>4
      <4> HIDE DEF k, h0, h
      <4>3. QED
        BY <3>2, <3>6, <4>1, <4>2
    <3> HIDE DEF w, h0, h
    <3>9. QED
      <4>1. \A u : u = Resize(term, w, h) => Text(u) = Text(term) /\ (CursorLine(u) = CursorLine(term) \/ u.main.y = 1)
        BY <3>2, <3>5, <3>7, <3>8, HeightChanged
      <4>2. QED
        BY <3>5, <4>1, Zenon
  <2>3. CASE UNCHANGED vars
    BY <2>3 DEF vars
  <2>4. QED
    BY <2>1, <2>2, <2>3 DEF Next
<1>2. QED
  BY <1>1, TypeCorrect, PTL DEF Spec, HeightChangeKeepsLines
=============================================================================
