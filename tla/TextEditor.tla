----------------------------- MODULE TextEditor -----------------------------
(***************************************************************************)
(* The text editor te, coreutils/te.cc: it keeps the file as lines, moves  *)
(* a window over them and prints the whole window after every key, on the  *)
(* alternate terminal of the console.                                      *)
(***************************************************************************)
EXTENDS Console

CONSTANTS TextLetters, \* characters that are typed into the text
          MaxText      \* bound: characters and line ends of the text

VARIABLES te,    \* whether it runs, m_lines, the cursor, m_file_x, m_file_y,
                 \* m_saved_cursor_x as a set
          teFile \* the content of the file

teVars == <<te, teFile>>

TextEditorInit ==
    /\ te = [on |-> "no", lines |-> <<>>, x |-> 0, y |-> 0, fx |-> 0, fy |-> 0, saved |-> {}]
    /\ teFile = <<>>

Put(s) == ttyOut' = ttyOut \o s /\ UNCHANGED <<ttyTerms, ttyParse, fbCells>>

(* Editor::load: the line after the last line end is dropped, unless it is the only one. *)
Load(text) ==
    LET ls == FoldLeft(LAMBDA l, ch : IF ch = "nl" THEN Append(l, <<>>)
                                      ELSE [l EXCEPT ![Len(l)] = Append(@, ch)],
                       <<<<>>>>, text)
    IN  IF Len(ls) > 1 THEN Front(ls) ELSE ls

(* Ctrl-X writes every line and a line end. *)
Saved(lines) == FlattenSeq([k \in DOMAIN lines |-> Append(lines[k], "nl")])

(* The window follows the cursor. *)
WindowX(e) == IF e.x < e.fx THEN e.x ELSE IF e.x >= e.fx + (Cols - 1) THEN e.x - Cols + 2 ELSE e.fx
WindowY(e) == IF e.y < e.fy THEN e.y ELSE IF e.y >= e.fy + (Rows - 1) THEN e.y - (Rows - 1) ELSE e.fy

(* Editor::render: what is printed of the text *)
Rendering(e) ==
    LET Cut(line) == SubSeq(line, e.fx + 1, IF Len(line) < e.fx + Cols - 1 THEN Len(line) ELSE e.fx + Cols - 1)
        Row(r) == Cut(e.lines[e.fy + r + 1]) \o (IF r = Rows - 1 THEN <<>> ELSE <<"nl">>)
        rows == IF Len(e.lines) - e.fy < Rows THEN Len(e.lines) - e.fy ELSE Rows
    IN  <<"esc", "[", "J">> \o FlattenSeq([k \in 1 .. rows |-> Row(k - 1)])
        \o Csi(<<e.y - e.fy, e.x - e.fx>>, "H")

(* The loop of main: after what a key does, the text is rendered. *)
ShowText(e, before) ==
    LET shown == [e EXCEPT !.fx = WindowX(e), !.fy = WindowY(e)]
    IN  te' = shown /\ Put(before \o Rendering(shown)) /\ UNCHANGED teFile

(* main: the constructor, load, render *)
StartEditor ==
    /\ te.on = "no"
    /\ ShowText([te EXCEPT !.on = "yes", !.lines = Load(teFile)], Csi(<<1049>>, "h"))
-----------------------------------------------------------------------------
(* Bound: the next key comes when the console has read what was printed. *)
CanEdit == te.on = "yes" /\ ttyOut = <<>>

Width(y) == Len(te.lines[y + 1])

Edited(lines, x, y) == ShowText([te EXCEPT !.lines = lines, !.x = x, !.y = y], <<>>)

(* The end of the handler of the arrow keys: below the last line a new one *)
(* is begun unless that is empty, and the cursor is brought into the line. *)
Arrow(x, y, vertical) ==
    LET n     == Len(te.lines)
        below == y = n
        lines == IF below /\ Width(n - 1) > 0 THEN Append(te.lines, <<>>) ELSE te.lines
        row   == IF below /\ Width(n - 1) = 0 THEN y - 1 ELSE y
        width == Len(lines[row + 1])
        back  == IF vertical /\ te.saved # {} THEN (CHOOSE s \in te.saved : TRUE) ELSE x
        want  == IF vertical /\ te.saved # {} /\ back > width THEN width ELSE back
    IN  /\ Len(Saved(lines)) <= MaxText
        /\ ShowText([te EXCEPT !.lines = lines, !.y = row, !.x = IF want > width THEN width ELSE want,
                            !.saved = IF want > width THEN {want} ELSE IF vertical THEN @ ELSE {}], <<>>)

RightKey ==
    /\ CanEdit
    /\ IF te.x < Width(te.y) THEN Arrow(te.x + 1, te.y, FALSE) ELSE Arrow(0, te.y + 1, FALSE)

LeftKey ==
    /\ CanEdit
    /\ IF te.x > 0 THEN Arrow(te.x - 1, te.y, FALSE)
       ELSE IF te.y > 0 THEN Arrow(Width(te.y - 1), te.y - 1, FALSE) ELSE Arrow(0, 0, FALSE)

DownKey == CanEdit /\ Arrow(te.x, te.y + 1, TRUE)

UpKey == CanEdit /\ Arrow(te.x, IF te.y > 0 THEN te.y - 1 ELSE 0, TRUE)

(* With alt they swap lines, and the cursor goes with its line. *)
SwapLines(with) ==
    /\ CanEdit /\ with \in 0 .. Len(te.lines) - 1
    /\ Edited([te.lines EXCEPT ![te.y + 1] = te.lines[with + 1], ![with + 1] = te.lines[te.y + 1]], te.x, with)

HomeKey == CanEdit /\ ShowText([te EXCEPT !.x = 0, !.saved = {}], <<>>)
EndKey == CanEdit /\ ShowText([te EXCEPT !.x = Width(te.y), !.saved = {}], <<>>)

TextSize == Len(Saved(te.lines))

TypeText(ch) ==
    /\ CanEdit /\ TextSize < MaxText
    /\ Edited([te.lines EXCEPT ![te.y + 1] = InsertAt(@, te.x + 1, ch)], te.x + 1, te.y)

(* Backspace at the start of a line joins it to the one before. *)
EraseText ==
    /\ CanEdit
    /\ IF te.x > 0 THEN Edited([te.lines EXCEPT ![te.y + 1] = RemoveAt(@, te.x)], te.x - 1, te.y)
       ELSE IF te.y > 0
            THEN Edited(RemoveAt([te.lines EXCEPT ![te.y] = @ \o te.lines[te.y + 1]], te.y + 1),
                        Width(te.y - 1), te.y - 1)
            ELSE Edited(te.lines, te.x, te.y)

(* Enter: a new line before this one takes what is left of the cursor. *)
SplitLine ==
    LET line == te.lines[te.y + 1]
    IN  /\ CanEdit /\ TextSize < MaxText
        /\ Edited(InsertAt([te.lines EXCEPT ![te.y + 1] = SubSeq(line, te.x + 1, Len(line))],
                           te.y + 1, SubSeq(line, 1, te.x)), 0, te.y + 1)

(* Ctrl-Q leaves, Ctrl-X saves first; the destructor leaves the alternate terminal. *)
QuitEditor(save) ==
    /\ CanEdit
    /\ te' = [te EXCEPT !.on = "left", !.lines = <<>>, !.x = 0, !.y = 0, !.fx = 0, !.fy = 0, !.saved = {}]
    /\ teFile' = IF save THEN Saved(te.lines) ELSE teFile
    /\ Put(Csi(<<1049>>, "l"))

TextEditorNext ==
    \/ RightKey \/ LeftKey \/ DownKey \/ UpKey \/ HomeKey \/ EndKey
    \/ \E w \in {te.y - 1, te.y + 1} : SwapLines(w)
    \/ \E ch \in TextLetters : TypeText(ch)
    \/ EraseText \/ SplitLine
-----------------------------------------------------------------------------
(* When the console has read everything, the cursor stands in the text and *)
(* the screen shows the part of the text around it: every row cut to the   *)
(* window, nothing wrapped and nothing scrolled away.                      *)
TextOnScreen ==
    LET t == ttyTerms["alternate"]
    IN  CanEdit =>
            /\ te.y < Len(te.lines) /\ te.x <= Width(te.y)
            /\ t.x = te.x - te.fx /\ t.y = te.y - te.fy
            /\ \A r \in Lines : \A c \in Columns :
                 LET line == IF te.fy + r < Len(te.lines) THEN te.lines[te.fy + r + 1] ELSE <<>>
                 IN  t.lines[r].chars[c] = IF c < Cols - 1 /\ te.fx + c < Len(line)
                                           THEN line[te.fx + c + 1] ELSE " "

=============================================================================
