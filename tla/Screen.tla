------------------------------- MODULE Screen -------------------------------
(***************************************************************************)
(* The terminal emulator of internal/vterm: a terminal is a record, and    *)
(* each operation of term.go is an operator from a terminal to a terminal. *)
(* Rows and columns are numbered from 1, as in escape sequences; the code  *)
(* numbers them from 0.                                                    *)
(*                                                                         *)
(* A rendition (Style) is "plain", "ink" (attributes or a foreground, which*)
(* an erase drops) or "paper" (a background, which an erase keeps).        *)
(* Hyperlinks, the title, the cursor's shape and the report encoding are   *)
(* registers of no consequence for the picture and are left out.           *)
(***************************************************************************)
EXTENDS Integers, Sequences, FiniteSetsExt

CONSTANTS
  MaxScrollback,  \* maxScrollback
  Runes           \* the characters

\* The second half of a wide character and a cell never written have no rune.
ASSUME ScreenAssumption ==
  /\ MaxScrollback \in Nat
  /\ {" ", "-", "E", "W", "a", "m", "q"} \subseteq Runes /\ "" \notin Runes

Least(a, b) == IF a < b THEN a ELSE b
Most(a, b) == IF a > b THEN a ELSE b
Clamp(n, lo, hi) == Most(lo, Least(n, hi))

-----------------------------------------------------------------------------
(* Cells and rows *)

\* A character cell: w is the columns it takes, 0 for the second half of a
\* wide character; mark, whether combining marks were attached.
Cell(ch, w, st) == [ch |-> ch, mark |-> FALSE, w |-> w, st |-> st]
EraseStyle(st) == IF st = "paper" THEN st ELSE "plain"
Blank(st) == Cell("", 1, EraseStyle(st))
Blanks(n, st) == [i \in 1..n |-> Blank(st)]
IsBlank(c) == c.ch = "" /\ c.w # 0 /\ c.st = "plain"

NewRow(n) == [cells |-> Blanks(n, "plain"), wrapped |-> FALSE]
LastVisible(r) == Max({0} \cup {i \in DOMAIN r.cells : ~IsBlank(r.cells[i])})
Trimmed(r) == [r EXCEPT !.cells = SubSeq(@, 1, LastVisible(r))]
\* A wide character cut by the new right edge is blanked.
Fitted(r, n) ==
  LET c == SubSeq(r.cells \o Blanks(n, "plain"), 1, n)
  IN [r EXCEPT !.cells = IF c[n].w = 2 THEN [c EXCEPT ![n] = Blank("plain")] ELSE c]

\* Rows from..to move up (down) by n; n copies of fill come in.
RowsUp(rows, from, to, n, fill) ==
  SubSeq(rows, 1, from - 1) \o SubSeq(rows, from + n, to)
    \o [i \in 1..n |-> fill] \o SubSeq(rows, to + 1, Len(rows))
RowsDown(rows, from, to, n, fill) ==
  SubSeq(rows, 1, from - 1) \o [i \in 1..n |-> fill]
    \o SubSeq(rows, from, to - n) \o SubSeq(rows, to + 1, Len(rows))

-----------------------------------------------------------------------------
(* Terminals *)

ASCII == <<"ascii", "ascii">>
NoSave == [valid |-> FALSE, x |-> 1, y |-> 1, pen |-> "plain", g |-> ASCII, gl |-> 1, origin |-> FALSE]

NewScreen(w, h) ==
  [rows |-> [y \in 1..h |-> NewRow(w)], x |-> 1, y |-> 1, pw |-> FALSE,
   saved |-> NoSave, top |-> 1, bot |-> h, sb |-> <<>>]

TabStops(w) == {i \in 2..w : (i - 1) % 8 = 0}

\* ok turns FALSE when the code indexes outside a row (a panic, which ends the
\* program) or leaves the cursor where the next print does.
New(w, h) ==
  [w |-> w, h |-> h, main |-> NewScreen(w, h), alt |-> NewScreen(w, h), altActive |-> FALSE,
   pen |-> "plain", modes |-> {"autowrap", "cursorVisible"}, mouse |-> "off",
   g |-> ASCII, gl |-> 1, last |-> "", tabs |-> TabStops(w), ok |-> TRUE]

\* The types: a cell, a row of w cells, a line of the scrollback, and a screen and
\* a terminal of w columns and h rows.  The scroll region is the whole screen or
\* has two rows or more; the alternate screen has no scrollback.
Styles == {"plain", "ink", "paper"}
Charsets == {"ascii", "graphics"}
Switched == {"autowrap", "bracketedPaste", "cursorKeys", "cursorVisible", "focusEvents", "insert", "newline", "origin"}
MouseModes == {"mouse9", "mouse1000", "mouse1002", "mouse1003"}
Cells == [ch : Runes \cup {""}, mark : BOOLEAN, w : 0..2, st : Styles]
RowsOf(w) == [cells : [1..w -> Cells], wrapped : BOOLEAN]
ScrollbackLines == [cells : Seq(Cells), wrapped : BOOLEAN]
Saves(w, h) == [valid : BOOLEAN, x : 1..w, y : 1..h, pen : Styles,
                g : [1..2 -> Charsets], gl : 1..2, origin : BOOLEAN]
ScreensOf(w, h) ==
  {s \in [rows : [1..h -> RowsOf(w)], x : 1..w, y : 1..h, pw : BOOLEAN, saved : Saves(w, h),
          top : 1..h, bot : 1..h, sb : Seq(ScrollbackLines)] :
     /\ s.top < s.bot \/ (s.top = 1 /\ s.bot = h)
     /\ Len(s.sb) <= MaxScrollback}
TerminalsOf(w, h) ==
  {t \in [w : {w}, h : {h}, main : ScreensOf(w, h), alt : ScreensOf(w, h), altActive : BOOLEAN,
          pen : Styles, modes : SUBSET Switched, mouse : MouseModes \cup {"off"},
          g : [1..2 -> Charsets], gl : 1..2, last : Runes \cup {""}, tabs : SUBSET Nat, ok : BOOLEAN] :
     t.alt.sb = <<>>}

\* The active screen, and the terminal with another active screen.
S(t) == IF t.altActive THEN t.alt ELSE t.main
On(t, s) == IF t.altActive THEN [t EXCEPT !.alt = s] ELSE [t EXCEPT !.main = s]
EmptyRow(t) == [cells |-> Blanks(t.w, t.pen), wrapped |-> FALSE]

\* The oldest lines are dropped in batches.
PushScrollback(sb, r) ==
  LET all == Append(sb, Trimmed(r))
      drop == Most(Len(all) - MaxScrollback, MaxScrollback \div 8)
  IN IF MaxScrollback = 0 THEN sb
     ELSE IF Len(all) <= MaxScrollback THEN all ELSE SubSeq(all, drop + 1, Len(all))

\* keep: a line feed at the bottom margin, whose top line enters the scrollback.
Scroll(t, n, keep) ==
  LET s == S(t)
      m == Least(n, s.bot - s.top + 1)
      up == RowsUp(s.rows, s.top, s.bot, m, EmptyRow(t))
  IN On(t, [s EXCEPT !.rows = [up EXCEPT ![s.top].wrapped = FALSE],
                     !.sb = IF keep /\ s.top = 1 /\ ~t.altActive THEN PushScrollback(@, s.rows[1]) ELSE @])
ScrollDown(t, n) ==
  LET s == S(t) IN
  On(t, [s EXCEPT !.rows = RowsDown(@, s.top, s.bot, Least(n, s.bot - s.top + 1), EmptyRow(t))])

LineFeed(t) ==
  LET s == [S(t) EXCEPT !.pw = FALSE]
  IN IF s.y = s.bot THEN Scroll(On(t, s), 1, TRUE)
     ELSE On(t, [s EXCEPT !.y = Least(@ + 1, t.h)])
ReverseIndex(t) ==
  LET s == [S(t) EXCEPT !.pw = FALSE]
  IN IF s.y = s.top THEN ScrollDown(On(t, s), 1)
     ELSE On(t, [s EXCEPT !.y = Most(@ - 1, 1)])
WrapToNextLine(t) ==
  LET u == LineFeed(On(t, [S(t) EXCEPT !.x = 1]))
  IN On(u, [S(u) EXCEPT !.rows[S(u).y].wrapped = TRUE])

-----------------------------------------------------------------------------
(* Printing: "W" is a wide character, "m" a combining mark, " " a space. *)

Width(c) == CASE c = "W" -> 2 [] c = "m" -> 0 [] OTHER -> 1
Glyph(t, c) == IF t.g[t.gl] = "graphics" /\ c = "q" THEN "-" ELSE c

\* A mark goes to the last printed cell.
Combine(t) ==
  LET s == S(t)
      cells == s.rows[s.y].cells
      last == IF s.pw THEN t.w ELSE s.x - 1
      x == IF last > 1 /\ cells[last].w = 0 THEN last - 1 ELSE last
      c == cells[x]
  IN IF last = 0 \/ (c.ch = "" /\ c.w # 1) THEN t
     ELSE On(t, [s EXCEPT !.rows[s.y].cells[x] =
                    [c EXCEPT !.ch = IF @ = "" THEN " " ELSE @, !.mark = TRUE]])

InsertCells(t, n) ==
  LET s == S(t)
      m == Least(n, t.w - s.x + 1)
      old == s.rows[s.y].cells
      new == SubSeq(old, 1, s.x - 1) \o Blanks(m, t.pen) \o SubSeq(old, s.x, t.w - m)
  IN On(t, [s EXCEPT !.rows[s.y].cells =
              IF new[t.w].w = 2 THEN [new EXCEPT ![t.w] = Blank(new[t.w].st)] ELSE new])

\* The cells after c is printed at x: the other half of a wide character
\* that is overwritten in part is blanked.
Overwrite_LeavesFirstHalf(cells, x, c, w, st) ==
  [i \in DOMAIN cells |->
     CASE i = x -> Cell(IF c = " " THEN "" ELSE c, w, st)
       [] i = x + 1 /\ w = 2 -> Cell("", 0, st)
       [] i = x + 1 /\ w = 1 /\ cells[x].w = 2 -> Blank(cells[i].st)
       [] OTHER -> cells[i]]
Overwrite(cells, x, c, w, st) ==
  [i \in DOMAIN cells |->
     CASE i = x -> Cell(IF c = " " THEN "" ELSE c, w, st)
       [] i = x + 1 /\ w = 2 -> Cell("", 0, st)
       [] \/ i = x - 1 /\ cells[x].w = 0
          \/ i = x + 1 /\ w = 1 /\ cells[x].w = 2
          \/ i = x + 2 /\ w = 2 /\ cells[x + 1].w = 2 -> Blank(cells[i].st)
       [] OTHER -> cells[i]]

\* Where c goes: after a pending wrap, and on the next line when a wide
\* character does not fit, which leaves the last column blank.
Wrapped(t) ==
  LET s == S(t) IN
  IF ~s.pw THEN t
  ELSE IF "autowrap" \in t.modes THEN WrapToNextLine(t)
  ELSE On(t, [s EXCEPT !.x = t.w, !.pw = FALSE])
MadeRoom(t, w) ==
  LET s == S(t) IN
  IF w = 1 \/ s.x < t.w THEN t
  ELSE IF "autowrap" \in t.modes
       THEN WrapToNextLine(On(t, [s EXCEPT !.rows[s.y].cells[s.x] = Blank(t.pen)]))
  ELSE On(t, [s EXCEPT !.x = t.w - 1])

\* On a single column a wide character has no room for its second half.
PrintRune(t, c) ==
  LET g == Glyph(t, c)
      w == Width(g)
      at == MadeRoom(Wrapped([t EXCEPT !.last = g]), w)
      u == IF "insert" \in t.modes THEN InsertCells(at, w) ELSE at
      s == S(u)
  IN IF w = 0 THEN Combine(t)
     ELSE IF w > t.w THEN [t EXCEPT !.ok = FALSE]
     ELSE On(u, [s EXCEPT !.rows[s.y].cells = Overwrite(@, s.x, g, w, t.pen),
                          !.x = Least(@ + w, t.w),
                          !.pw = s.x + w > t.w])
Repeat(t, n) ==
  LET f[i \in 0..n] == IF i = 0 THEN t ELSE PrintRune(f[i - 1], t.last)
  IN IF t.last = "" THEN t ELSE f[n]

-----------------------------------------------------------------------------
(* Cursor *)

NextTab(t, x) == Min({t.w} \cup {i \in t.tabs : i > x})
PrevTab(t, x) == Max({1} \cup {i \in t.tabs : i < x})
TabForward(t, n) ==
  LET f[i \in 0..n] == IF i = 0 THEN S(t).x ELSE NextTab(t, f[i - 1])
  IN On(t, [S(t) EXCEPT !.x = f[n], !.pw = FALSE])
TabBackward(t, n) ==
  LET f[i \in 0..n] == IF i = 0 THEN S(t).x ELSE PrevTab(t, f[i - 1])
  IN On(t, [S(t) EXCEPT !.x = f[n], !.pw = FALSE])

MoveCursor(t, x, y) ==
  LET s == S(t)
      lo == IF "origin" \in t.modes THEN s.top ELSE 1
      hi == IF "origin" \in t.modes THEN s.bot ELSE t.h
  IN On(t, [s EXCEPT !.x = Clamp(x, 1, t.w), !.y = Clamp(y, lo, hi), !.pw = FALSE])
\* CUP and VPA count from the region's top row in origin mode.
Goto(t, x, y) == MoveCursor(t, x, IF "origin" \in t.modes THEN y + S(t).top - 1 ELSE y)
Column_NoRightEdge(t, x) == On(t, [S(t) EXCEPT !.x = Most(x, 1), !.pw = FALSE])
Column(t, x) == On(t, [S(t) EXCEPT !.x = Clamp(x, 1, t.w), !.pw = FALSE])
CursorUp(t, n) ==
  LET s == S(t) IN
  On(t, [s EXCEPT !.y = Most(@ - n, IF @ >= s.top THEN s.top ELSE 1), !.pw = FALSE])
CursorDown(t, n) ==
  LET s == S(t) IN
  On(t, [s EXCEPT !.y = Least(@ + n, IF @ <= s.bot THEN s.bot ELSE t.h), !.pw = FALSE])

SaveCursor(t) ==
  LET s == S(t) IN
  On(t, [s EXCEPT !.saved = [valid |-> TRUE, x |-> s.x, y |-> s.y, pen |-> t.pen, g |-> t.g,
                             gl |-> t.gl, origin |-> "origin" \in t.modes]])
RestoreCursor(t) ==
  LET s == S(t)
      v == s.saved
  IN IF ~v.valid THEN [MoveCursor(t, 1, 1) EXCEPT !.pen = "plain"]
     ELSE [On(t, [s EXCEPT !.x = Least(v.x, t.w), !.y = Least(v.y, t.h), !.pw = FALSE])
             EXCEPT !.pen = v.pen, !.g = v.g, !.gl = v.gl,
                    !.modes = IF v.origin THEN @ \cup {"origin"} ELSE @ \ {"origin"}]

-----------------------------------------------------------------------------
(* Erase, insert, delete *)

ClearCells(t, r, from, to) ==
  [r EXCEPT !.cells = [i \in DOMAIN @ |-> IF i \in from..to THEN Blank(t.pen) ELSE @[i]]]
\* Erasing up to the first half of a wide character erases both halves.
EraseInLine(t, mode) ==
  LET s == S(t)
      r == s.rows[s.y]
      upTo == IF s.x < t.w /\ r.cells[s.x + 1].w = 0 THEN s.x + 1 ELSE s.x
      from == IF mode = 0 THEN s.x ELSE 1
      to == IF mode = 1 THEN upTo ELSE t.w
  IN On(t, [s EXCEPT !.rows[s.y] = ClearCells(t, r, from, to)])
EraseInDisplay(t, mode) ==
  LET u == IF mode \in {0, 1} THEN EraseInLine(t, mode) ELSE t
      s == S(u)
      gone == CASE mode = 0 -> s.y + 1..t.h [] mode = 1 -> 1..s.y - 1 [] mode = 2 -> 1..t.h [] OTHER -> {}
  IN On(u, [s EXCEPT !.rows = [y \in 1..t.h |-> IF y \in gone THEN EmptyRow(t) ELSE @[y]],
                     !.sb = IF mode = 3 THEN <<>> ELSE @])
EraseChars(t, n) ==
  LET s == S(t) IN
  On(t, [s EXCEPT !.rows[s.y] = ClearCells(t, @, s.x, s.x + n - 1), !.pw = FALSE])
DeleteChars(t, n) ==
  LET s == S(t)
      m == Least(n, t.w - s.x + 1)
  IN On(t, [s EXCEPT !.rows[s.y].cells = SubSeq(@, 1, s.x - 1) \o SubSeq(@, s.x + m, t.w) \o Blanks(m, t.pen),
                     !.pw = FALSE])
InsertLines(t, n) ==
  LET s == S(t) IN
  IF s.y \notin s.top..s.bot THEN t
  ELSE On(t, [s EXCEPT !.rows = RowsDown(@, s.y, s.bot, Least(n, s.bot - s.y + 1), EmptyRow(t)),
                       !.x = 1, !.pw = FALSE])
DeleteLines(t, n) ==
  LET s == S(t) IN
  IF s.y \notin s.top..s.bot THEN t
  ELSE On(t, [s EXCEPT !.rows = RowsUp(@, s.y, s.bot, Least(n, s.bot - s.y + 1), EmptyRow(t)),
                       !.x = 1, !.pw = FALSE])
AlignmentTest(t) ==
  MoveCursor(On(t, [S(t) EXCEPT !.rows = [y \in 1..t.h |-> [cells |-> [x \in 1..t.w |-> Cell("E", 1, "plain")],
                                                            wrapped |-> FALSE]],
                                !.top = 1, !.bot = t.h]), 1, 1)
SetRegion(t, top, bot) ==
  LET b == Least(bot, t.h) IN
  IF top >= b THEN t ELSE MoveCursor(On(t, [S(t) EXCEPT !.top = top, !.bot = b]), 1, 1)

-----------------------------------------------------------------------------
(* Screens and resets *)

\* The alternate screen is cleared on every activation; the cursor carries over.
EnterAltScreen(t, save) ==
  LET u == IF save THEN SaveCursor(t) ELSE t IN
  IF t.altActive THEN t
  ELSE [u EXCEPT !.altActive = TRUE,
                 !.alt = [@ EXCEPT !.rows = [y \in 1..t.h |-> EmptyRow(t)], !.top = 1, !.bot = t.h,
                                   !.x = t.main.x, !.y = t.main.y, !.pw = FALSE]]
LeaveAltScreen(t, restore) ==
  LET u == [t EXCEPT !.altActive = FALSE,
                     !.main = [@ EXCEPT !.x = t.alt.x, !.y = t.alt.y, !.pw = FALSE]] IN
  IF ~t.altActive THEN t ELSE IF restore THEN RestoreCursor(u) ELSE u
SoftReset(t) ==
  [On(t, [S(t) EXCEPT !.top = 1, !.bot = t.h, !.saved = NoSave, !.pw = FALSE])
     EXCEPT !.modes = (@ \ {"origin", "insert", "cursorKeys"}) \cup {"cursorVisible", "autowrap"},
            !.pen = "plain", !.g = ASCII, !.gl = 1]
\* The scrollback survives; so does the rune REP repeats.
FullReset(t) == [New(t.w, t.h) EXCEPT !.main.sb = t.main.sb, !.last = t.last]

-----------------------------------------------------------------------------
(* Resize: no line is wrapped anew.  A main screen that gets shorter puts  *)
(* the rows that do not fit into the scrollback, after the blank ones below*)
(* the cursor; one that gets taller takes them back if the cursor is on the*)
(* last row.                                                               *)

\* The blank rows at the bottom, below row y.
BlankBelow_AnyRow(rows, y) == Len(rows) - y
BlankBelow(rows, y) == Len(rows) - Max({y} \cup {i \in y..Len(rows) : LastVisible(rows[i]) > 0})

\* Rows 1..n go into the scrollback, one after the other.
PushRows(sb, rows, n) ==
  LET pushed[i \in 0..n] == IF i = 0 THEN sb ELSE PushScrollback(pushed[i - 1], rows[i])
  IN pushed[n]

ResizeScreen(t, s, w, h, isMain) ==
  LET rows == IF w = t.w THEN s.rows ELSE [y \in 1..t.h |-> Fitted(s.rows[y], w)]
      drop == Least(Most(0, t.h - h), BlankBelow(rows, s.y))
      off == Most(0, t.h - h - drop)
      back == IF isMain /\ s.y = t.h THEN Least(Most(0, h - t.h), Len(s.sb)) ELSE 0
      kept == Len(s.sb) - back
  IN [s EXCEPT
        !.rows = [i \in 1..back |-> Fitted(s.sb[kept + i], w)] \o SubSeq(rows, off + 1, t.h - drop)
                   \o [i \in 1..h - t.h - back |-> NewRow(w)],
        !.sb = IF ~isMain THEN @ ELSE IF back > 0 THEN SubSeq(@, 1, kept) ELSE PushRows(@, rows, off),
        !.x = Least(@, w),
        !.y = Clamp(@ - off + back, 1, h),
        !.saved.x = Least(@, w),
        !.saved.y = Clamp(@ - off + back, 1, h),
        !.pw = FALSE, !.top = 1, !.bot = h]
Resize(t, w, h) ==
  IF w = t.w /\ h = t.h THEN t
  ELSE [t EXCEPT !.w = w, !.h = h, !.tabs = TabStops(w),
                 !.main = ResizeScreen(t, t.main, w, h, TRUE),
                 !.alt = ResizeScreen(t, t.alt, w, h, FALSE)]
=============================================================================
