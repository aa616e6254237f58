----------------------------- MODULE LineEditor -----------------------------
(***************************************************************************)
(* The line editor of the shell, shell/line_editor.cc, and the loop in     *)
(* shell/main.cc that gives it key events and runs the lines it returns.   *)
(* It never reads the screen: it keeps the line and prints what should     *)
(* bring the console, an unknown number of reads behind, to show it.       *)
(***************************************************************************)
EXTENDS Console

CONSTANTS Prompt,    \* the working directory and m_prompt, as printed
          Letters,   \* characters that are typed, " " among them
          MaxLine,   \* bound: length of the line; it does not wrap
          MaxHistory \* bound: lines of history

VARIABLES ed \* m_buffer, m_cursor_pos, m_history, m_history_pos; whether a
             \* command runs; whether history came to stand behind other text

edVars == <<ed>>

(* LineEditor::begin_line *)
BeginLine == Csi(<<38, 2, 179, 179, 255>>, "m") \o Prompt \o Csi(<<38, 2, 255, 255, 255>>, "m")

LineEditorInit ==
    ed = [buffer |-> <<>>, cursor |-> 0, history |-> <<>>, pos |-> 0, running |-> FALSE, mid |-> FALSE]

(* Bound: the next key comes when the console has read what was printed. *)
CanType == ~ed.running /\ ttyOut = <<>>

Show(s) == ttyOut' = ttyOut \o s /\ UNCHANGED <<ttyTerms, ttyParse, fbCells>>

MoveTo(pos, right, left) ==
    /\ ed' = [ed EXCEPT !.cursor = pos]
    /\ Show(Times(left, <<"esc", "[", "D">>) \o Times(right, <<"esc", "[", "C">>))

(* A printable character goes in at the cursor. *)
TypeLetter(ch) ==
    /\ CanType /\ Len(ed.buffer) < MaxLine
    /\ ed' = [ed EXCEPT !.buffer = InsertAt(@, ed.cursor + 1, ch), !.cursor = @ + 1]
    /\ Show(<<ch>>)

TypeBackspace ==
    /\ CanType /\ ed.cursor > 0
    /\ ed' = [ed EXCEPT !.buffer = RemoveAt(@, ed.cursor), !.cursor = @ - 1]
    /\ Show(<<"bs">>)

(* The line goes to the shell, and into the history unless it is empty. *)
Enter ==
    /\ CanType
    /\ IF ed.buffer = <<>>
       THEN ed' = [ed EXCEPT !.mid = FALSE] /\ Show(<<"nl">> \o BeginLine)
       ELSE /\ Len(ed.history) < MaxHistory
            /\ ed' = [ed EXCEPT !.buffer = <<>>, !.cursor = 0, !.history = Append(@, ed.buffer),
                                !.pos = Len(ed.history) + 1, !.running = TRUE, !.mid = FALSE]
            /\ Show(<<"nl">>)

(* Command::evaluate and execute of a command return to the loop. *)
CommandEnds ==
    /\ ed.running
    /\ ed' = [ed EXCEPT !.running = FALSE]
    /\ Show(BeginLine)

(* goto_start and goto_end *)
GotoStart == CanType /\ MoveTo(0, 0, ed.cursor)
GotoEnd == CanType /\ MoveTo(Len(ed.buffer), Len(ed.buffer) - ed.cursor, 0)

(* The arrow keys *)
StepRight == CanType /\ ed.cursor < Len(ed.buffer) /\ MoveTo(ed.cursor + 1, 1, 0)
StepLeft == CanType /\ ed.cursor > 0 /\ MoveTo(ed.cursor - 1, 0, 1)

(* With control they go by words. *)
WordRight ==
    LET n == Len(ed.buffer)
        c == ed.cursor
        stop == IF c + 1 = n THEN n
                ELSE CHOOSE k \in c + 2 .. n : /\ k = n \/ ed.buffer[k + 1] = " "
                                               /\ \A j \in c + 2 .. k - 1 : ed.buffer[j + 1] # " "
    IN  CanType /\ c < n /\ MoveTo(stop, stop - c, 0)

WordLeft ==
    LET c == ed.cursor
        stop == IF c = 1 THEN 0
                ELSE CHOOSE k \in 0 .. c - 2 : /\ k = 0 \/ ed.buffer[k + 1] = " "
                                               /\ \A j \in k + 1 .. c - 2 : ed.buffer[j + 1] # " "
        back == IF stop = 0 THEN 0 ELSE 1
    IN  CanType /\ c > 0 /\ MoveTo(stop + back, back, c - stop)

(* Ctrl-L: the screen and the line are cleared. *)
ClearScreen ==
    /\ CanType
    /\ ed' = [ed EXCEPT !.buffer = <<>>, !.cursor = 0, !.mid = FALSE]
    /\ Show(<<"esc", "[", "J">> \o BeginLine)

(* clear_line removes what stands before the cursor. *)
Rest == SubSeq(ed.buffer, ed.cursor + 1, Len(ed.buffer))

ClearLine ==
    /\ CanType
    /\ ed' = [ed EXCEPT !.buffer = Rest, !.cursor = 0]
    /\ Show(Times(ed.cursor, <<"bs">>))


(* The arrow keys for history: clear_line, then the line is put at the end *)
(* of the buffer and printed at the cursor.                                *)
History(pos) ==
    LET line == IF pos < Len(ed.history) THEN ed.history[pos + 1] ELSE <<>>
    IN  /\ CanType /\ Len(Rest \o line) <= MaxLine
        /\ ed' = [ed EXCEPT !.pos = pos, !.buffer = Rest \o line, !.cursor = Len(line),
                            !.mid = @ \/ Rest # <<>>]
        /\ Show(Times(ed.cursor, <<"bs">>) \o line)

HistoryDown == History(IF ed.pos < Len(ed.history) THEN ed.pos + 1 ELSE ed.pos)
HistoryUp == History(IF ed.pos > 0 THEN ed.pos - 1 ELSE ed.pos)

LineEditorNext ==
    \/ \E ch \in Letters : TypeLetter(ch)
    \/ TypeBackspace \/ Enter \/ GotoStart \/ GotoEnd \/ StepRight \/ StepLeft \/ WordRight \/ WordLeft
    \/ ClearScreen \/ ClearLine \/ HistoryDown \/ HistoryUp
-----------------------------------------------------------------------------
=============================================================================
