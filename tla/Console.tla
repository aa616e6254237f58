------------------------------ MODULE Console -------------------------------
(***************************************************************************)
(* The console server: terminal.cc, escape_parser.cc, framebuffer.cc and   *)
(* the handler of standard input in servers/console/main.cc.               *)
(*                                                                         *)
(* Programs write characters into a pipe; the server reads it in pieces of *)
(* any size, so a control sequence may be cut anywhere.  A cell of the     *)
(* frame buffer holds the glyph that was drawn there and says whether the  *)
(* cursor's block was.  A character is a string: "esc", "bs" and "nl" are  *)
(* escape, backspace and newline.                                          *)
(***************************************************************************)
EXTENDS Integers, Sequences, SequencesExt

CONSTANTS Cols,      \* m_column_count
          Rows,      \* m_row_count
          ReadLimit    \* bound: bytes that one read returns

VARIABLES ttyOut,   \* the pipe to the server's standard input
          ttyTerms, \* the default and the alternate terminal
          ttyParse, \* EscapeParser, and which terminal is the current one
          fbCells   \* the back buffer

ttyVars == <<ttyOut, ttyTerms, ttyParse, fbCells>>

Columns == 0 .. Cols - 1
Lines == 0 .. Rows - 1
Wrapped == 2147483647 \* stands for 2^32 - 1: a column beyond all others

BlankLine == [chars |-> [c \in Columns |-> " "], dirty |-> FALSE]

NewTerminal == [lines |-> [r \in Lines |-> BlankLine], x |-> 0, y |-> 0]

BlankRow == [c \in Columns |-> [glyph |-> " ", block |-> FALSE]]

ConsoleInit(out) ==
    /\ ttyOut = out
    /\ ttyTerms = [t \in {"default", "alternate"} |-> NewTerminal]
    /\ ttyParse = [inEscape |-> FALSE, params |-> <<>>, current |-> 0, terminal |-> "default"]
    /\ fbCells = [r \in Lines |-> BlankRow]
-----------------------------------------------------------------------------
(* Terminal::set_char of a character: the rest of the line moves right. *)
InsertChar(line, col, ch) ==
    [chars |-> [c \in Columns |-> IF c < col THEN line.chars[c] ELSE IF c = col THEN ch ELSE line.chars[c - 1]],
     dirty |-> TRUE]

(* Terminal::set_char of '\b': the rest moves left, the last column keeps its character. *)
DeleteChar(line, col) ==
    [chars |-> [c \in Columns |-> IF c < col \/ c = Cols - 1 THEN line.chars[c] ELSE line.chars[c + 1]],
     dirty |-> TRUE]

AllDirty(lines) == [r \in Lines |-> [lines[r] EXCEPT !.dirty = TRUE]]

(* Terminal::newline scrolls in the last row. *)
Newline(t) ==
    IF t.y + 1 < Rows THEN [t EXCEPT !.x = 0, !.y = @ + 1]
    ELSE [t EXCEPT !.x = 0, !.lines = AllDirty([r \in Lines |-> IF r = Rows - 1 THEN BlankLine
                                                                ELSE t.lines[r + 1]])]

Backspace(t) ==
    LET x == IF t.x = 0 THEN Cols - 2 ELSE t.x - 1
        y == IF t.x = 0 /\ t.y > 0 THEN t.y - 1 ELSE t.y
    IN  [t EXCEPT !.x = x, !.y = y, !.lines[y] = DeleteChar(@, x)]

PutChar(term, ch) ==
    LET t == IF term.x = Cols - 1 THEN Newline(term) ELSE term
    IN  [t EXCEPT !.lines[t.y] = InsertChar(@, t.x, ch), !.x = @ + 1]

Clear(t) ==
    [t EXCEPT !.lines = AllDirty([r \in Lines |-> [t.lines[r] EXCEPT !.chars = BlankLine.chars]]),
              !.x = 0, !.y = 0]
-----------------------------------------------------------------------------
(* The last character of a control sequence does this, with the parameters;*)
(* "m" sets the colour, which is left out.                                 *)
Control(ch, s) ==
    LET p == s.parse.params
        t == s.parse.terminal
    IN  CASE ch = "D" -> [s EXCEPT !.terms[t].x = IF @ = 0 THEN Wrapped ELSE @ - 1]
          [] ch = "C" -> [s EXCEPT !.terms[t].x = @ + 1]
          [] ch = "H" /\ Len(p) = 2 -> [s EXCEPT !.terms[t].x = p[2], !.terms[t].y = p[1]]
          [] ch = "J" -> [s EXCEPT !.terms[t] = Clear(@)]
          [] ch = "h" /\ p = <<1049>> -> [s EXCEPT !.parse.terminal = "alternate",
                                                  !.terms["alternate"] = Clear(@)]
          [] ch = "l" /\ p = <<1049>> -> [s EXCEPT !.parse.terminal = "default",
                                                  !.terms["default"].lines = AllDirty(@)]
          [] OTHER -> s

DigitChars == <<"0", "1", "2", "3", "4", "5", "6", "7", "8", "9">>

(* Fault: the parameters of the last sequence are kept. *)
ParseKeepsParams(ch, s) ==
    IF ch = "esc" THEN [s EXCEPT !.parse.inEscape = TRUE]
    ELSE IF ch \in {"[", "?"} THEN s
    ELSE IF \E d \in 0 .. 9 : DigitChars[d + 1] = ch
         THEN [s EXCEPT !.parse.current = @ * 10 + (CHOOSE d \in 0 .. 9 : DigitChars[d + 1] = ch)]
    ELSE IF ch = ";" THEN [s EXCEPT !.parse.params = Append(@, s.parse.current), !.parse.current = 0]
    ELSE Control(ch, [s EXCEPT !.parse.params = Append(@, s.parse.current),
                               !.parse.current = 0, !.parse.inEscape = FALSE])

(* EscapeParser::parse inside a sequence and at its start *)
Parse(ch, s) ==
    IF ch = "esc" THEN [s EXCEPT !.parse.inEscape = TRUE, !.parse.params = <<>>]
    ELSE IF ch \in {"[", "?"} THEN s
    ELSE IF \E d \in 0 .. 9 : DigitChars[d + 1] = ch
         THEN [s EXCEPT !.parse.current = @ * 10 + (CHOOSE d \in 0 .. 9 : DigitChars[d + 1] = ch)]
    ELSE IF ch = ";" THEN [s EXCEPT !.parse.params = Append(@, s.parse.current), !.parse.current = 0]
    ELSE Control(ch, [s EXCEPT !.parse.params = Append(@, s.parse.current),
                               !.parse.current = 0, !.parse.inEscape = FALSE])

(* One character of the input *)
Feed(s, ch) ==
    IF ch = "esc" \/ s.parse.inEscape THEN Parse(ch, s)
    ELSE [s EXCEPT !.terms[s.parse.terminal] =
             CASE ch = "bs" -> Backspace(@) [] ch = "nl" -> Newline(@) [] OTHER -> PutChar(@, ch)]
-----------------------------------------------------------------------------
(* Terminal::clear_cursor *)
ClearCursor(s) ==
    LET t == s.terms[s.parse.terminal]
    IN  [s EXCEPT !.cells[t.y][t.x] = [glyph |-> " ", block |-> FALSE],
                  !.terms[s.parse.terminal].lines[t.y].dirty = TRUE]

(* Terminal::render: the dirty lines are cleared, the cursor is drawn, its *)
(* line becomes dirty, and the dirty lines' characters are drawn.          *)
Render(s) ==
    LET t == s.terms[s.parse.terminal]
        cleared == [r \in Lines |-> IF t.lines[r].dirty THEN BlankRow ELSE s.cells[r]]
        cursor == [cleared EXCEPT ![t.y][t.x].block = TRUE]
        Draw(r) == [c \in Columns |-> IF t.lines[r].chars[c] = " " THEN cursor[r][c]
                                      ELSE [cursor[r][c] EXCEPT !.glyph = t.lines[r].chars[c]]]
    IN  [s EXCEPT !.cells = [r \in Lines |-> IF t.lines[r].dirty \/ r = t.y THEN Draw(r) ELSE cursor[r]],
                  !.terms[s.parse.terminal].lines = [r \in Lines |-> [@[r] EXCEPT !.dirty = FALSE]]]

(* The handler of standard input reads what there is, or a part of it. *)
ConsoleRead(n) ==
    LET s == Render(FoldLeft(Feed, ClearCursor([terms |-> ttyTerms, parse |-> ttyParse, cells |-> fbCells]),
                             SubSeq(ttyOut, 1, n)))
    IN  /\ n \in 1 .. Len(ttyOut) /\ n <= ReadLimit
        /\ ttyOut' = SubSeq(ttyOut, n + 1, Len(ttyOut))
        /\ ttyTerms' = s.terms /\ ttyParse' = s.parse /\ fbCells' = s.cells

ConsoleNext == \E n \in {ReadLimit, Len(ttyOut)} : ConsoleRead(n)
-----------------------------------------------------------------------------
(* What programs print: a number, and a control sequence *)
Decimal(n) ==
    LET ds == <<(n \div 1000) % 10, (n \div 100) % 10, (n \div 10) % 10, n % 10>>
        from == CHOOSE k \in 1 .. 4 : (ds[k] # 0 \/ k = 4) /\ \A j \in 1 .. k - 1 : ds[j] = 0
    IN  [k \in 1 .. 5 - from |-> DigitChars[ds[from + k - 1] + 1]]

Csi(params, final) ==
    <<"esc", "[">> \o FoldLeft(LAMBDA a, n : a \o (IF a = <<>> THEN <<>> ELSE <<";">>) \o Decimal(n),
                              <<>>, params) \o <<final>>

Times(n, s) == FlattenSeq([k \in 1 .. n |-> s])

=============================================================================
