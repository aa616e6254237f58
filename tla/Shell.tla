------------------------------- MODULE Shell --------------------------------
(***************************************************************************)
(* How the shell runs a line: lexer.cc, parser.cc, ast.cc and execute in   *)
(* shell/main.cc, with the parts of sys_create_process and of the pipes    *)
(* that it uses and with coreutils/cat.cc as the program that reads.       *)
(*                                                                         *)
(* A line is a sequence of characters, one of them a tab.  The program     *)
(* "a" writes Items items, "b" is cat, "c" is the builtin cd, no other     *)
(* command is found.  A process inherits every open descriptor.            *)
(***************************************************************************)
EXTENDS Integers, Sequences, SequencesExt, FiniteSets

CONSTANTS LineChars, \* characters of a line
          LineLength,\* bound: length of a line
          Items,     \* what the program "a" writes
          PipeSize   \* capacity of a pipe; Items fit

VARIABLES shLine, \* the line
          sh,     \* where execute is, the commands left, rewirings and open descriptors
          shPipes,\* the bytes in each pipe
          shProcs,\* the processes of the line, in order
          shScreen\* what reached the terminal

shVars == <<shLine, sh, shPipes, shProcs, shScreen>>

ShellInit ==
    /\ shLine \in UNION {[1 .. n -> LineChars] : n \in 1 .. LineLength}
    /\ sh = [at |-> "parse", commands |-> <<>>, rewirings |-> <<>>, fds |-> {}]
    /\ shPipes = <<>> /\ shProcs = <<>> /\ shScreen = <<>>
-----------------------------------------------------------------------------
(* is_space and is_identifier_character *)
Spaces == {" ", "tab"}
IdentifierChars == LineChars \ {" ", "|"}

(* The first index from i on of another character, or the one after the last *)
SkipFrom(line, i, chars) ==
    CHOOSE k \in i .. Len(line) + 1 : /\ k = Len(line) + 1 \/ line[k] \notin chars
                                      /\ \A j \in i .. k - 1 : line[j] \in chars

(* Lexer::next_token: spaces are skipped; a tab inside a word belongs to it. *)
NextToken(line, pos) ==
    LET from == SkipFrom(line, pos, Spaces)
    IN  IF from > Len(line) THEN [kind |-> "eof", text |-> <<>>, pos |-> from]
        ELSE IF line[from] = "|" THEN [kind |-> "pipe", text |-> <<>>, pos |-> from + 1]
        ELSE LET end == SkipFrom(line, from + 1, IdentifierChars)
             IN  [kind |-> "identifier", text |-> SubSeq(line, from, end - 1), pos |-> end]

(* The tokens as the parser takes them, the end included *)
Tokens(line) ==
    LET toks[n \in 0 .. Len(line) + 1] ==
            IF n = 0 THEN <<NextToken(line, 1)>>
            ELSE LET before == toks[n - 1]
                 IN  IF Last(before).kind = "eof" THEN before
                     ELSE Append(before, NextToken(line, Last(before).pos))
    IN  toks[Len(line) + 1]

(* parse_list: the index of the token after a command's words *)
ListEnd(toks, i) == CHOOSE k \in i .. Len(toks) : /\ toks[k].kind # "identifier"
                                                  /\ \A j \in i .. k - 1 : toks[j].kind = "identifier"

(* parse_pipe, with the commands in order; a command without a word is     *)
(* <<>>: Token::text asserts that the token is an identifier.              *)
ParsePipe(toks) ==
    LET from[i \in 1 .. Len(toks)] ==
            LET end == ListEnd(toks, i)
                words == [k \in 1 .. end - i |-> toks[i + k - 1].text]
            IN  IF end > i /\ toks[end].kind = "pipe" THEN <<words>> \o from[end + 1] ELSE <<words>>
    IN  from[1]

(* main: lexer, parser, and what ASSERT makes of a missing word *)
ParseLine ==
    LET commands == ParsePipe(Tokens(shLine))
    IN  /\ sh.at = "parse"
        /\ sh' = [sh EXCEPT !.at = IF <<>> \in ToSet(commands) THEN "assert" ELSE "execute",
                            !.commands = commands]
        /\ UNCHANGED <<shLine, shPipes, shProcs, shScreen>>
-----------------------------------------------------------------------------
(* Command::evaluate: cd is a builtin, other commands are looked for in /bin. *)
Program(command) == CASE command[1] = <<"a">> -> "writer" [] command[1] = <<"b">> -> "cat"
                      [] command[1] = <<"c">> -> "builtin" [] OTHER -> "missing"

Terminal == <<0, "tty">>

(* Fault: the first rewiring of a descriptor counts. *)
RewiredFirst(rewirings, fd) ==
    LET is == {i \in DOMAIN rewirings : rewirings[i].child = fd}
    IN  IF is = {} THEN Terminal ELSE rewirings[CHOOSE i \in is : \A k \in is : i <= k].parent

(* sys_create_process: the rewirings are made in order. *)
Rewired(rewirings, fd) ==
    LET is == {i \in DOMAIN rewirings : rewirings[i].child = fd}
    IN  IF is = {} THEN Terminal ELSE rewirings[CHOOSE i \in is : \A k \in is : i >= k].parent

(* execute of a PipeValue's left side makes the pipe first; spawn of a Job. *)
Spawn ==
    LET command == sh.commands[1]
        kind == Program(command)
        pipe == Len(shPipes) + 1
        piped == Len(sh.commands) > 1
        rewirings == IF piped THEN Append(sh.rewirings, [parent |-> <<pipe, "w">>, child |-> 1])
                     ELSE sh.rewirings
        fds == IF piped THEN sh.fds \cup {<<pipe, "r">>, <<pipe, "w">>} ELSE sh.fds
        new == [kind |-> kind, in |-> Rewired(rewirings, 0), out |-> Rewired(rewirings, 1),
                left |-> IF kind = "writer" THEN Items ELSE 0, has |-> fds, at |-> "running"]
        spawned == kind \in {"writer", "cat"}
    IN  /\ sh.at = "execute"
        /\ sh' = [sh EXCEPT !.at = IF spawned THEN "await" ELSE "after", !.rewirings = rewirings, !.fds = fds]
        /\ shPipes' = IF piped THEN Append(shPipes, 0) ELSE shPipes
        /\ shProcs' = IF spawned THEN Append(shProcs, new) ELSE shProcs
        /\ UNCHANGED <<shLine, shScreen>>

(* Job::await_completion: sys_wait_pid returns when the process has no thread. *)
Await ==
    /\ sh.at = "await" /\ Last(shProcs).at # "running"
    /\ sh' = [sh EXCEPT !.at = "after"]
    /\ UNCHANGED <<shLine, shPipes, shProcs, shScreen>>

(* Fault: the write end stays open in the shell. *)
AfterKeepsWriteEnd ==
    LET pipe == Len(shPipes)
    IN  /\ sh.at = "after"
        /\ sh' = IF Len(sh.commands) = 1 THEN [sh EXCEPT !.at = "done", !.fds = {}]
                 ELSE [at |-> "execute", commands |-> Tail(sh.commands), fds |-> sh.fds,
                       rewirings |-> Append(Front(sh.rewirings), [parent |-> <<pipe, "r">>, child |-> 0])]
        /\ UNCHANGED <<shLine, shPipes, shProcs, shScreen>>

(* The rest of execute: the right side reads the pipe.  After the last     *)
(* command the destructors of the pipes close the read ends.               *)
After ==
    LET pipe == Len(shPipes)
    IN  /\ sh.at = "after"
        /\ sh' = IF Len(sh.commands) = 1 THEN [sh EXCEPT !.at = "done", !.fds = {f \in @ : f[2] # "r"}]
                 ELSE [at |-> "execute", commands |-> Tail(sh.commands), fds |-> sh.fds \ {<<pipe, "w">>},
                       rewirings |-> Append(Front(sh.rewirings), [parent |-> <<pipe, "r">>, child |-> 0])]
        /\ UNCHANGED <<shLine, shPipes, shProcs, shScreen>>
-----------------------------------------------------------------------------
(* A process writes an item that it has, unless the pipe is full. *)
ProcWrites(p) ==
    LET proc == shProcs[p]
    IN  /\ proc.at = "running" /\ proc.left > 0
        /\ shProcs' = [shProcs EXCEPT ![p].left = @ - 1]
        /\ IF proc.out = Terminal
           THEN shScreen' = Append(shScreen, p) /\ UNCHANGED shPipes
           ELSE /\ shPipes[proc.out[1]] < PipeSize
                /\ shPipes' = [shPipes EXCEPT ![proc.out[1]] = @ + 1]
                /\ UNCHANGED shScreen
        /\ UNCHANGED <<shLine, sh>>

WriteEndOpen(pipe) == \/ <<pipe, "w">> \in sh.fds
                      \/ \E p \in DOMAIN shProcs : <<pipe, "w">> \in shProcs[p].has

(* cat reads what there is, however much, and ends when nothing can come.  *)
CatReads(p) ==
    LET proc == shProcs[p]
        pipe == proc.in[1]
    IN  /\ proc.kind = "cat" /\ proc.at = "running" /\ proc.left = 0 /\ proc.in # Terminal
        /\ shPipes[pipe] > 0
        /\ \E n \in 1 .. shPipes[pipe] : /\ shProcs' = [shProcs EXCEPT ![p].left = n]
                                         /\ shPipes' = [shPipes EXCEPT ![pipe] = @ - n]
        /\ UNCHANGED <<shLine, sh, shScreen>>

ProcEnds(p) ==
    LET proc == shProcs[p]
    IN  /\ proc.at = "running" /\ proc.left = 0
        /\ proc.kind = "cat" => proc.in # Terminal /\ shPipes[proc.in[1]] = 0 /\ ~WriteEndOpen(proc.in[1])
        /\ shProcs' = [shProcs EXCEPT ![p].at = "ended"]
        /\ UNCHANGED <<shLine, sh, shPipes, shScreen>>

(* The last reference to a process goes some time after its thread. *)
ProcDestroyed(p) ==
    /\ shProcs[p].at = "ended"
    /\ shProcs' = [shProcs EXCEPT ![p].at = "gone", ![p].has = {}]
    /\ UNCHANGED <<shLine, sh, shPipes, shScreen>>

ProcStep(p) == ProcWrites(p) \/ CatReads(p) \/ ProcEnds(p) \/ ProcDestroyed(p)
ExecuteStep == Spawn \/ Await \/ After

ShellNext == ParseLine \/ ExecuteStep \/ \E p \in DOMAIN shProcs : ProcStep(p)

(* The scheduler runs the shell and every process again and again. *)
ShellFairness ==
    /\ WF_shVars(ExecuteStep)
    /\ \A p \in 1 .. LineLength : WF_shVars(p \in DOMAIN shProcs /\ ProcStep(p))

ShellSpec == ShellInit /\ [][ShellNext]_shVars /\ ShellFairness
-----------------------------------------------------------------------------
(* The commands as the characters of the line say it: bars part commands,  *)
(* blanks part words, and a word begins at a character that is no blank    *)
(* with nothing but blanks since the last bar, space or line start.        *)
CommandsOf(line) ==
    LET Begins(i) == /\ line[i] \notin Spaces /\ line[i] # "|"
                     /\ \E s \in 0 .. i - 1 : /\ s = 0 \/ line[s] \in {" ", "|"}
                                              /\ \A j \in s + 1 .. i - 1 : line[j] \in Spaces
        starts == {i \in DOMAIN line : Begins(i)}
        Word(i) == SubSeq(line, i, (CHOOSE k \in i .. Len(line) :
                                       /\ k = Len(line) \/ line[k + 1] \in {" ", "|"}
                                       /\ \A j \in i .. k : line[j] \notin {" ", "|"}))
        Bars(i) == Cardinality({k \in 1 .. i : line[k] = "|"})
        Words(b) == LET S == {i \in starts : Bars(i) = b}
                    IN  [k \in 1 .. Cardinality(S) |->
                           Word(CHOOSE i \in S : Cardinality({j \in S : j < i}) = k - 1)]
    IN  [b \in 1 .. Bars(Len(line)) + 1 |-> Words(b - 1)]

(* The number of items that reach the terminal: cat passes on what its left*)
(* side wrote, nothing comes from a builtin or a missing command.          *)
Expected(commands) ==
    LET out[k \in 0 .. Len(commands)] ==
            IF k = 0 THEN 0
            ELSE LET before == out[k - 1]
                 IN  CASE Program(commands[k]) = "writer" -> Items
                       [] Program(commands[k]) = "cat" -> before
                       [] OTHER -> 0
    IN  out[Len(commands)]

(* When a pipeline of any length is done, the terminal has what its last   *)
(* command makes of the others' output, every item once and only from that *)
(* command, and the shell has no descriptor left open.                     *)
PipelineOutput ==
    sh.at = "done" => /\ Len(shScreen) = Expected(CommandsOf(shLine))
                      /\ \A k \in DOMAIN shScreen : shScreen[k] = Len(shProcs)
                      /\ sh.fds = {}

(* The shell comes back to its prompt, as long as what a command writes    *)
(* fits a pipe (the shell starts the reader only when the writer has       *)
(* ended) and cat is not left to read the keyboard: the reader sees the    *)
(* end although every process inherits the descriptors of the shell.       *)
PipelineEnds ==
    (sh.at = "execute" /\ \A k \in DOMAIN sh.commands : Program(sh.commands[k]) = "cat" => k > 1)
        ~> sh.at = "done"
=============================================================================
