------------------------------ MODULE Terminal ------------------------------
(***************************************************************************)
(* A session's terminal: the PTY reader writes the program's output to it  *)
(* (Terminal.Write), the browser resizes it (Terminal.Resize), and a client*)
(* that attaches is sent Snapshot, an ANSI stream that rebuilds its state  *)
(* in an empty terminal of the same size.                                  *)
(*                                                                         *)
(* A sequence of the stream is a tuple: its kind, its final character or   *)
(* mode, its parameters.  How bytes become sequences is Parser's subject.  *)
(***************************************************************************)
EXTENDS Screen, SequencesExt

CONSTANTS
  Sizes,      \* the sizes, <<columns, rows>>, a browser may ask for
  Output,     \* what the program may write next
  Preludes,   \* what it may have written before the run begins
  MaxWrites,  \* bound: writes after the prelude
  MaxResizes  \* bound: changes of size

\* A count is 1 when it is absent or 0 (param); the erase modes and the tab
\* clears are taken as they are (rawParam).
Counts == Nat \ {0}
CountFinals == {"@", "A", "B", "C", "D", "E", "F", "G", "I", "L", "M", "P", "S", "T", "X", "Z", "b", "d"}
Tokens ==
  ({"print"} \X Runes)
    \cup ({"set", "reset"} \X (Switched \cup MouseModes \cup {"alt", "altSave"}))
    \cup ({"sgr"} \X Styles)
    \cup ({"exec"} \X {"BS", "HT", "LF", "CR", "SO", "SI"})
    \cup ({"esc"} \X {"7", "8", "D", "E", "H", "M", "c", "#8"})
    \cup ({"esc"} \X {"(", ")"} \X Charsets)
    \cup ({"csi"} \X (CountFinals \cup {"H", "r", "J", "K", "g", "!p"}))
    \cup ({"csi"} \X (CountFinals \cup {"H", "r"}) \X Counts)
    \cup ({"csi"} \X {"J"} \X Nat) \cup ({"csi"} \X {"K"} \X (0..2)) \cup ({"csi"} \X {"g"} \X {0, 3})
    \cup ({"csi"} \X {"H", "r"} \X Counts \X Counts)

ASSUME TerminalAssumption ==
  /\ Sizes \subseteq (Nat \ {0}) \X (Nat \ {0})
  /\ Output \subseteq Seq(Tokens) /\ Preludes \subseteq Seq(Tokens)
  /\ MaxWrites \in Nat /\ MaxResizes \in Nat

VARIABLES
  term,     \* the emulator
  writes,   \* sequences written so far
  resizes   \* changes of size so far

vars == <<term, writes, resizes>>

-----------------------------------------------------------------------------
(* Dispatch *)

Execute(t, b) ==
  LET s == S(t) IN
  CASE b = "BS" -> On(t, [s EXCEPT !.x = Most(@ - 1, 1), !.pw = FALSE])
    [] b = "HT" -> TabForward(t, 1)
    [] b = "LF" -> LET u == LineFeed(t) IN IF "newline" \in t.modes THEN On(u, [S(u) EXCEPT !.x = 1]) ELSE u
    [] b = "CR" -> On(t, [s EXCEPT !.x = 1, !.pw = FALSE])
    [] b = "SO" -> [t EXCEPT !.gl = 2]
    [] b = "SI" -> [t EXCEPT !.gl = 1]

EscDispatch(t, q) ==
  CASE q[2] = "7" -> SaveCursor(t)
    [] q[2] = "8" -> RestoreCursor(t)
    [] q[2] = "D" -> LineFeed(t)
    [] q[2] = "E" -> LET u == LineFeed(t) IN On(u, [S(u) EXCEPT !.x = 1])
    [] q[2] = "H" -> [t EXCEPT !.tabs = @ \cup {S(t).x}]
    [] q[2] = "M" -> ReverseIndex(t)
    [] q[2] = "c" -> FullReset(t)
    [] q[2] = "(" -> [t EXCEPT !.g[1] = q[3]]
    [] q[2] = ")" -> [t EXCEPT !.g[2] = q[3]]
    [] q[2] = "#8" -> AlignmentTest(t)

\* Parameter i, or the default when it is absent.
Param(q, i, default) == IF Len(q) < i + 2 THEN default ELSE q[i + 2]

CsiDispatch(t, q) ==
  LET s == S(t)
      n == Param(q, 1, 1)
      home(u) == On(u, [S(u) EXCEPT !.x = 1])
  IN CASE q[2] = "@" -> LET u == InsertCells(t, n) IN On(u, [S(u) EXCEPT !.pw = FALSE])
       [] q[2] = "A" -> CursorUp(t, n)
       [] q[2] = "B" -> CursorDown(t, n)
       [] q[2] = "C" -> Column(t, s.x + n)
       [] q[2] = "D" -> Column(t, s.x - n)
       [] q[2] = "E" -> home(CursorDown(t, n))
       [] q[2] = "F" -> home(CursorUp(t, n))
       [] q[2] = "G" -> Column(t, n)
       [] q[2] = "H" -> Goto(t, Param(q, 2, 1), n)
       [] q[2] = "I" -> TabForward(t, n)
       [] q[2] = "J" -> EraseInDisplay(t, Param(q, 1, 0))
       [] q[2] = "K" -> EraseInLine(t, Param(q, 1, 0))
       [] q[2] = "L" -> InsertLines(t, n)
       [] q[2] = "M" -> DeleteLines(t, n)
       [] q[2] = "P" -> DeleteChars(t, n)
       [] q[2] = "S" -> Scroll(t, n, FALSE)
       [] q[2] = "T" -> ScrollDown(t, n)
       [] q[2] = "X" -> EraseChars(t, n)
       [] q[2] = "Z" -> TabBackward(t, n)
       [] q[2] = "b" -> Repeat(t, n)
       [] q[2] = "d" -> Goto(t, s.x, n)
       [] q[2] = "g" -> [t EXCEPT !.tabs = IF Param(q, 1, 0) = 0 THEN @ \ {s.x} ELSE {}]
       [] q[2] = "r" -> SetRegion(t, n, Param(q, 2, t.h))
       [] q[2] = "!p" -> SoftReset(t)

\* Modes that are plain switches, and those that do something when set.
SetMode(t, m, on) ==
  CASE m \in {"alt", "altSave"} -> IF on THEN EnterAltScreen(t, m = "altSave") ELSE LeaveAltScreen(t, m = "altSave")
    [] m \in MouseModes -> [t EXCEPT !.mouse = IF on THEN m ELSE IF @ = m THEN "off" ELSE @]
    [] OTHER ->
       LET u == [t EXCEPT !.modes = IF on THEN @ \cup {m} ELSE @ \ {m}]
       IN IF m = "origin" THEN MoveCursor(u, 1, 1) ELSE u

\* SGR: the pen takes the rendition the parameters amount to.
Sgr(t, st) == [t EXCEPT !.pen = st]

Apply(t, q) ==
  CASE q[1] = "print" -> PrintRune(t, q[2])
    [] q[1] = "exec" -> Execute(t, q[2])
    [] q[1] = "esc" -> EscDispatch(t, q)
    [] q[1] = "csi" -> CsiDispatch(t, q)
    [] q[1] = "set" -> SetMode(t, q[2], TRUE)
    [] q[1] = "reset" -> SetMode(t, q[2], FALSE)
    [] q[1] = "sgr" -> Sgr(t, q[2])

\* A panic ends the program: nothing is written after it.
Feed(t, qs) ==
  LET f[i \in 0..Len(qs)] ==
        IF i = 0 THEN t ELSE LET u == f[i - 1] IN IF u.ok THEN Apply(u, qs[i]) ELSE u
  IN f[Len(qs)]

-----------------------------------------------------------------------------
(* Snapshot *)

\* The code sends a rendition only when it changes.
CellText(c) ==
  << <<"sgr", c.st>>, <<"print", IF c.ch = "" THEN " " ELSE c.ch>> >>
    \o IF c.mark THEN << <<"print", "m">> >> ELSE <<>>

\* full: the next line continues this one, so it is written to its end.
WriteRow_Trimmed(r, full) ==
  FlattenSeq([x \in 1..LastVisible(r) |-> IF r.cells[x].w = 0 THEN <<>> ELSE CellText(r.cells[x])])
WriteRow(r, full) ==
  FlattenSeq([x \in 1..IF full THEN Len(r.cells) ELSE LastVisible(r) |->
                IF r.cells[x].w = 0 THEN <<>> ELSE CellText(r.cells[x])])

Newline == << <<"exec", "CR">>, <<"exec", "LF">> >>
Continued(lines, i) == i < Len(lines) /\ lines[i + 1].wrapped
WriteLines(lines) ==
  FlattenSeq([i \in 1..Len(lines) |->
    WriteRow(lines[i], Continued(lines, i))
      \o IF i = Len(lines) \/ Continued(lines, i) THEN <<>> ELSE Newline])

\* A cursor past the last column: its cell is printed again.
WritePendingWrap(c) == IF c.w = 1 /\ c.ch # "" THEN CellText(c) \o << <<"sgr", "plain">> >> ELSE <<>>

WriteScreen(t, s, active) ==
  WriteLines(s.sb \o s.rows) \o << <<"sgr", "plain">> >>
    \o (IF s.saved.valid
        THEN << <<"sgr", s.saved.pen>>, <<"csi", "H", s.saved.y, s.saved.x>>, <<"esc", "7">>, <<"sgr", "plain">> >>
        ELSE <<>>)
    \o (IF s.top # 1 \/ s.bot # t.h THEN << <<"csi", "r", s.top, s.bot>> >> ELSE <<>>)
    \o (IF active /\ "origin" \in t.modes
        THEN << <<"set", "origin">>, <<"csi", "H", s.y - s.top + 1, s.x>> >>
        ELSE << <<"csi", "H", s.y, s.x>> >>)
    \o (IF s.pw THEN WritePendingWrap(s.rows[s.y].cells[t.w]) ELSE <<>>)

\* The switches written when they are on.
Switches == <<"insert", "newline", "cursorKeys", "bracketedPaste", "focusEvents", "cursorVisible">>
When(cond, q) == IF cond THEN <<q>> ELSE <<>>

Snapshot(t) ==
  << <<"sgr", "plain">>, <<"set", "autowrap">>, <<"reset", "origin">>, <<"reset", "cursorVisible">> >>
    \o WriteScreen(t, t.main, ~t.altActive)
    \o (IF t.altActive THEN << <<"set", "altSave">> >> \o WriteScreen(t, t.alt, TRUE) ELSE <<>>)
    \o << <<"sgr", t.pen>> >>
    \o When(t.g[1] = "graphics", <<"esc", "(", "graphics">>)
    \o When(t.g[2] = "graphics", <<"esc", ")", "graphics">>)
    \o When(t.gl = 2, <<"exec", "SO">>)
    \o When("autowrap" \notin t.modes, <<"reset", "autowrap">>)
    \o When(t.mouse # "off", <<"set", t.mouse>>)
    \o FlattenSeq([i \in DOMAIN Switches |-> When(Switches[i] \in t.modes, <<"set", Switches[i]>>)])

-----------------------------------------------------------------------------
(* The machine *)

Init ==
  /\ \E size \in Sizes, p \in Preludes : term = Feed(New(size[1], size[2]), p)
  /\ writes = 0 /\ resizes = 0

Write(q) ==
  /\ term.ok /\ writes < MaxWrites
  /\ term' = Feed(term, q)
  /\ writes' = writes + 1
  /\ UNCHANGED resizes

ResizeTo(size) ==
  /\ term.ok /\ resizes < MaxResizes
  /\ size # <<term.w, term.h>>
  /\ term' = Resize(term, size[1], size[2])
  /\ resizes' = resizes + 1
  /\ UNCHANGED writes

Next ==
  \/ \E q \in Output : Write(q)
  \/ \E size \in Sizes : ResizeTo(size)

Spec == Init /\ [][Next]_vars

-----------------------------------------------------------------------------
(* Properties *)

Screens == {term.main, term.alt}

(* Both screens have the terminal's size, the cursor, the saved cursor and the
   scroll region lie where the operations may use them, and no operation
   indexes outside a row, but for a wide character on a terminal of one column
   (Resize, moveCursor, print).                                            *)
TypeOK ==
  /\ term.w \in Nat \ {0} /\ term.h \in Nat \ {0}
  /\ term \in TerminalsOf(term.w, term.h)
  /\ term.ok \/ term.w = 1
  /\ writes \in 0..MaxWrites /\ resizes \in 0..MaxResizes

\* What a viewer sees of one screen, where the next character goes, and where
\* DECRC takes the cursor.
Picture(t, s) ==
  [rows |-> [y \in 1..t.h |-> s.rows[y].cells],
   scrollback |-> [i \in DOMAIN s.sb |-> Fitted(s.sb[i], t.w).cells],
   cursor |-> <<s.x, s.y, s.pw>>, region |-> <<s.top, s.bot>>,
   saved |-> IF s.saved.valid THEN <<s.saved.x, s.saved.y, s.saved.pen>> ELSE <<>>]
\* The main screen's cursors mean nothing to the viewer of the alternate one.
Visible(t) ==
  [screen |-> Picture(t, S(t)),
   behind |-> IF t.altActive THEN [Picture(t, t.main) EXCEPT !.cursor = <<>>, !.saved = <<>>] ELSE <<>>,
   pen |-> t.pen, modes |-> t.modes, mouse |-> t.mouse, g |-> t.g, gl |-> t.gl]

\* What a client's terminal shows once it has read the snapshot.
Rebuilt == Feed(New(term.w, term.h), Snapshot(term))

Lines(s) == s.sb \o s.rows
Written(lines, i) == IF Continued(lines, i) THEN Len(lines[i].cells) ELSE LastVisible(lines[i])
WideWhole(r) ==
  \A i \in DOMAIN r.cells :
    /\ r.cells[i].w = 2 => i + 1 \in DOMAIN r.cells /\ r.cells[i + 1].w = 0
    /\ r.cells[i].w = 0 => i - 1 \in DOMAIN r.cells /\ r.cells[i - 1].w = 2

\* The states Snapshot does not reproduce; README lists them.
EndsOnWideOrSpace(t, s) == s.pw /\ LET c == s.rows[s.y].cells[t.w] IN c.w # 1 \/ c.ch = ""
HasHalfWide(s) == \E i \in DOMAIN Lines(s) : ~WideWhole(Lines(s)[i])
HasBlankContinuation(s) ==
  \E i \in 2..Len(Lines(s)) : Lines(s)[i].wrapped /\ Written(Lines(s), i) = 0
HasOddScrollback(t, s) ==
  \E i \in DOMAIN s.sb :
    \/ Len(s.sb[i].cells) > t.w
    \/ Continued(Lines(s), i) /\ Len(s.sb[i].cells) < t.w
\* Rows that come in while the snapshot is written take the pen's background.
HasPaperAtMargin(s) ==
  \E i \in DOMAIN Lines(s) :
    LET n == Written(Lines(s), i) IN n > 0 /\ "paper" \in {Lines(s)[i].cells[x].st : x \in {1, n}}
\* The alternate screen is written from where the main one's cursor stood.
StartsOffMargin(t) == t.altActive /\ t.main.x # 1
OutsideOriginRegion(t) == "origin" \in t.modes /\ S(t).y \notin S(t).top..S(t).bot

Reproducible(t) ==
  /\ ~StartsOffMargin(t) /\ ~OutsideOriginRegion(t)
  /\ HasPaperAtMargin(t.main) => t.main.sb = <<>>
  /\ HasPaperAtMargin(t.alt) => t.main.y = 1
  /\ \A s \in Screens :
       ~(\/ EndsOnWideOrSpace(t, s) \/ HasHalfWide(s) \/ HasBlankContinuation(s)
         \/ HasOddScrollback(t, s))

(* "Written into a freshly reset terminal of the same size, [the snapshot]
   reproduces the scrollback, both screens, the cursor, the pen and every
   mode" (snapshot.go:8), but for the states named above: the stream is read
   by the same print, wrap, scroll and erase rules it describes.           *)
SnapshotRestores == term.ok /\ Reproducible(term) => Visible(Rebuilt) = Visible(term)

\* The same without the exceptions, for the rows alone.
Rows(t) == [main |-> Picture(t, t.main).rows, alt |-> IF t.altActive THEN Picture(t, t.alt).rows ELSE <<>>]
SnapshotShowsTheRows == term.ok => Rows(Rebuilt) = Rows(term)

\* The main screen's lines, without the blank ones at the bottom.
Text(t) ==
  LET all == [i \in DOMAIN Lines(t.main) |-> Trimmed(Lines(t.main)[i]).cells]
  IN SubSeq(all, 1, Max({0} \cup {i \in DOMAIN all : all[i] # <<>>}))
CursorLine(t) == Len(t.main.sb) + t.main.y

\* A line of a screen that was wider: it is cut when it comes back.
Fits(r, w) == Len(r.cells) < w \/ (Len(r.cells) = w /\ r.cells[w].w # 2)

(* A change of height moves lines between the screen and the scrollback and
   drops none, unless the scrollback is full, and cuts none, unless one comes
   back that was written on a wider screen; the cursor stays on its line
   unless that line left the screen (resizeScreen).                        *)
HeightChangeKeepsLines ==
  [][term'.w = term.w /\ term'.h # term.h =>
       \/ Len(term.main.sb) + term.h - term'.h > MaxScrollback
       \/ term'.h > term.h /\ \E i \in DOMAIN term.main.sb : ~Fits(term.main.sb[i], term.w)
       \/ /\ Text(term') = Text(term)
          /\ CursorLine(term') = CursorLine(term) \/ term'.main.y = 1]_vars

(* Printing never leaves half of a wide character on the screen, except in
   insert mode and for a wide character that finds no room over another's
   second half (print, term.go:373).                                       *)
NoRoomOverTail(t) == S(t).x = t.w /\ ~S(t).pw /\ S(t).rows[S(t).y].cells[t.w].w = 0
PrintsKeepWideWhole ==
  term.ok /\ ~HasHalfWide(S(term)) /\ "insert" \notin term.modes /\ ~NoRoomOverTail(term)
    => \A c \in {"a", "m", " ", "W"} : ~HasHalfWide(S(PrintRune(term, c)))
=============================================================================
