----------------------------- MODULE MCTerminal -----------------------------
\* Small instances of Terminal: one token, or a few that come together, per write.
EXTENDS Terminal

Text3(a, b, c) == << <<"print", a>>, <<"print", b>>, <<"print", c>> >>
Csi(f) == << <<"csi", f>> >>
Csi1(f, n) == << <<"csi", f, n>> >>
Exec(b) == << <<"exec", b>> >>
Esc(f) == << <<"esc", f>> >>
On1(m) == << <<"set", m>> >>
Off1(m) == << <<"reset", m>> >>
Pen(st) == << <<"sgr", st>> >>

MCSizes == {<<3, 3>>, <<3, 2>>, <<1, 2>>, <<1, 3>>}

\* A fresh screen; a wrapped line with scrollback above it; wide characters on
\* every row; the alternate screen over a page of text; a region in origin mode;
\* a full scrollback; a cursor saved before the page scrolled; characters
\* inserted, or written without wrapping; a screen erased above the cursor; the
\* main screen again after the alternate one.
Page == Text3("a", "b", "c") \o Newline \o << <<"print", "W">> >> \o Newline \o << <<"print", "a">> >>
MCPreludes ==
  { <<>>,
    Text3("a", "b", "c") \o Text3("a", "b", "c") \o Text3("a", "b", "c") \o Text3("a", " ", "b"),
    Text3("W", "W", "W") \o Pen("paper") \o << <<"print", "a">> >>,
    Page \o Newline \o On1("altSave") \o Page,
    Page \o << <<"csi", "r", 1, 2>>, <<"set", "origin">>, <<"print", "b">> >>,
    Page \o Page \o Page,
    Text3("a", "b", "m") \o Pen("ink") \o Esc("7") \o Newline \o Page,
    On1("insert") \o Text3("W", "a", "b") \o Exec("BS"),
    Off1("autowrap") \o Text3("a", "b", "W") \o Text3("m", "a", "c"),
    Page \o Csi1("J", 1) \o Csi("A"),
    Page \o On1("altSave") \o Text3("a", "W", "W") \o Off1("altSave") \o Text3("a", "b", "a") }

Prints == { << <<"print", c>> >> : c \in {"a", "W", "m", " "} }
Execs == { Exec(b) : b \in {"BS", "HT", "LF", "CR", "SO"} }
Escs == { Esc(f) : f \in {"7", "8", "M", "c", "#8", "H"} } \cup { << <<"esc", ")", "graphics">>, <<"exec", "SO">>, <<"print", "q">> >> }
Csis == { Csi(f) : f \in {"@", "A", "B", "D", "E", "F", "H", "J", "K", "L", "M", "P", "S", "T", "X", "b", "g", "I", "Z", "!p"} }
        \cup { Csi1("J", n) : n \in 1..3 } \cup { Csi1("K", 1), Csi1("C", 2), Csi1("G", 2), Csi1("d", 3), Csi1("b", 3),
               << <<"csi", "r", 2, 3>> >> }
Sets == { On1(m) : m \in {"alt", "altSave", "insert", "origin", "mouse1000", "newline"} }
        \cup { Off1(m) : m \in {"autowrap", "altSave", "alt", "cursorVisible"} }
MCOutput == Prints \cup Execs \cup Escs \cup Csis \cup Sets \cup {Newline, Pen("paper"), Pen("ink"), Pen("plain"),
             << <<"set", "mouse1002">>, <<"reset", "mouse1000">>, <<"exec", "SI">>, <<"esc", "(", "graphics">>, <<"esc", "D">>, <<"esc", "E">> >>}

\* A program that enters the alternate screen in the middle of a line.
MCFewSizes == {<<3, 2>>}
MCFewPreludes == {<<>>}
MCFewOutput == { <<<<"print", "a">>>>, Newline, On1("altSave") }
=============================================================================
