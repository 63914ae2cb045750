-------------------------------- MODULE Shell --------------------------------
(***************************************************************************)
(* The shell, user/sh.c: a line of words is parsed into a pipeline, whose  *)
(* programs are started one after the other, connected by pipes, and       *)
(* waited for unless they run in the background.                           *)
(*                                                                         *)
(* What a descriptor stands for is <<pipe, end>>, or with pipe 0 the       *)
(* terminal and the files of < and >.  The programs are filters: they read their input to   *)
(* its end and write as they read; any of them may stop at any time.  What *)
(* the kernel does for them is module Handle; here a pipe is the number of *)
(* bytes in it.                                                            *)
(***************************************************************************)
EXTENDS Integers, Sequences, SequencesExt, FiniteSets, FiniteSetsExt

CONSTANTS
    Lines,           \* the command lines that are typed, as words
    ParsedLines,     \* the command lines sh_parse is checked on
    CharLines,       \* the lines sh_tokenize is checked on
    Builtins,        \* words that name a builtin, "exit" and "kill" too
    SH_MAX_STAGES, SH_MAX_ARGS,
    MAX_FDS,         \* descriptors besides the standard ones
    PIPE_SIZE,
    MaxPids,         \* bound: programs at a time
    MaxPipes,        \* bound: pipes at a time
    MaxInput         \* bound: bytes a program reads from a file or the keys

ASSUME ShellAssumption ==
    /\ SH_MAX_STAGES \in Nat \ {0} /\ SH_MAX_ARGS \in Nat \ {0}
    /\ {MAX_FDS, PIPE_SIZE, MaxPids, MaxPipes, MaxInput} \subseteq Nat \ {0}

VARIABLES
    job,     \* where the shell is, and the pipeline it starts or waits for
    held,    \* descriptors the shell has open besides the standard ones
    procs,   \* pid -> program
    pipes    \* pipe -> bytes in it

vars == <<job, held, procs, pipes>>

Pids == 1..MaxPids
Pipes == 1..MaxPipes
Operators == {"|", "<", ">", ">>", "&"}
Redirections == {"<", ">", ">>"}
Terminal == <<0, "tty">>
InFile == <<0, "in">>
OutFile == <<0, "out">>

-----------------------------------------------------------------------------
(* Words.  A char is a string of length one *)

Delimiters == {" ", "|", "<", ">", "&"}
NewWord(acc, w, open, quoted) ==
    [acc EXCEPT !.words = Append(@, w), !.open = open, !.quoted = quoted]

(* mutant: an operator ends a word inside quotes too *)
TokenizeCharUnquoted(chars, acc, i) ==
    LET c == chars[i]
        twice == c = ">" /\ i < Len(chars) /\ chars[i + 1] = ">"
    IN  CASE acc.skip -> [acc EXCEPT !.skip = FALSE]
          [] ~acc.skip /\ acc.open /\ c \notin Delimiters ->
               IF c = "\"" THEN [acc EXCEPT !.quoted = ~@]
               ELSE [acc EXCEPT !.words = Append(Front(@), Append(Last(@), c))]
          [] OTHER ->
               CASE c = " " -> [acc EXCEPT !.open = FALSE]
                 [] c \in Delimiters \ {" "} ->
                      [NewWord(acc, IF twice THEN <<c, c>> ELSE <<c>>,
                               FALSE, FALSE) EXCEPT !.skip = twice]
                 [] c = "\"" -> NewWord(acc, <<>>, TRUE, TRUE)
                 [] OTHER -> NewWord(acc, <<c>>, TRUE, FALSE)

TokenizeChar(chars, acc, i) ==
    LET c == chars[i]
        twice == c = ">" /\ i < Len(chars) /\ chars[i + 1] = ">"
    IN  CASE acc.skip -> [acc EXCEPT !.skip = FALSE]
          [] ~acc.skip /\ acc.open /\ (acc.quoted \/ c \notin Delimiters) ->
               IF c = "\"" THEN [acc EXCEPT !.quoted = ~@]
               ELSE [acc EXCEPT !.words = Append(Front(@), Append(Last(@), c))]
          [] OTHER ->
               CASE c = " " -> [acc EXCEPT !.open = FALSE]
                 [] c \in Delimiters \ {" "} ->
                      [NewWord(acc, IF twice THEN <<c, c>> ELSE <<c>>,
                               FALSE, FALSE) EXCEPT !.skip = twice]
                 [] c = "\"" -> NewWord(acc, <<>>, TRUE, TRUE)
                 [] OTHER -> NewWord(acc, <<c>>, TRUE, FALSE)

sh_tokenize(chars) ==
    FoldLeftDomain(LAMBDA acc, i : TokenizeChar(chars, acc, i),
                   [words |-> <<>>, open |-> FALSE, quoted |-> FALSE,
                    skip |-> FALSE], chars).words

-----------------------------------------------------------------------------
(* Parsing a line of words *)

EmptyPipeline ==
    [stages |-> <<<<>>>>, input |-> "", output |-> "", background |-> FALSE,
     error |-> FALSE, skip |-> FALSE]

Wrong(p) == [p EXCEPT !.error = TRUE]
AddWord(stages, w) ==
    Append(Front(stages), Append(Last(stages), w))

ParsePipe(p) ==
    IF Last(p.stages) = <<>> \/ p.output # "" \/ Len(p.stages) = SH_MAX_STAGES
    THEN Wrong(p) ELSE [p EXCEPT !.stages = Append(@, <<>>)]

ParseFile(words, p, i) ==
    IF \/ i = Len(words) \/ words[i + 1] \in Operators
       \/ words[i] = "<" /\ Len(p.stages) > 1
    THEN Wrong(p)
    ELSE IF words[i] = "<"
         THEN [p EXCEPT !.input = words[i + 1], !.skip = TRUE]
         ELSE [p EXCEPT !.output = words[i + 1], !.skip = TRUE]

ParseWord(words, p, i) ==
    IF p.error THEN p
    ELSE IF p.skip THEN [p EXCEPT !.skip = FALSE]
    ELSE CASE words[i] = "|" -> ParsePipe(p)
           [] words[i] \in Redirections -> ParseFile(words, p, i)
           [] words[i] = "&" -> IF i # Len(words) THEN Wrong(p)
                                ELSE [p EXCEPT !.background = TRUE]
           [] OTHER -> IF Len(Last(p.stages)) = SH_MAX_ARGS THEN Wrong(p)
                       ELSE [p EXCEPT !.stages = AddWord(@, words[i])]

sh_parse(words) ==
    LET p == FoldLeftDomain(LAMBDA acc, i : ParseWord(words, acc, i),
                            EmptyPipeline, words)
    IN  IF ~p.error /\ Last(p.stages) = <<>> THEN Wrong(p) ELSE p

(* "run" skips the builtins, "prio" and a number set a priority too *)
Numbers == {"1", "9"}
StripPrefix(words) ==
    LET last == Len(words)
        from[i \in 1..last + 1] ==
            CASE i < last /\ words[i] = "run" -> from[i + 1]
              [] i < last /\ words[i] = "prio" ->
                   IF i + 1 < last /\ words[i + 1] \in Numbers THEN from[i + 2]
                   ELSE [usage |-> TRUE, words |-> <<>>, force |-> i > 1]
              [] OTHER -> [usage |-> FALSE, words |-> SubSeq(words, i, last),
                           force |-> i > 1]
    IN  from[1]

-----------------------------------------------------------------------------
(* Pipes and programs *)

NoProc == [state |-> "free", in |-> Terminal, out |-> Terminal,
           doing |-> "read", left |-> 0, background |-> FALSE]
Running(p) == procs[p].state = "runs"

(* who holds an end of a pipe *)
Refs(k, end) ==
    {p \in Pids : Running(p) /\ <<k, end>> \in {procs[p].in, procs[p].out}}
      \cup (IF <<k, end>> \in held THEN {0} ELSE {})
UnusedPipes == {k \in Pipes : Refs(k, "r") = {} /\ Refs(k, "w") = {}}
FreePids == {p \in Pids : procs[p].state = "free"}

(* what exits in the background is reaped by the kernel *)
Exited(p) ==
    [procs EXCEPT ![p] = IF @.background THEN NoProc
                         ELSE [NoProc EXCEPT !.state = "zombie"]]
Exits(p) == procs' = Exited(p) /\ UNCHANGED <<job, held>>

IsPipe(f) == f[1] > 0

Read(p) ==
    LET f == procs[p].in
    IN  /\ Running(p) /\ procs[p].doing = "read"
        /\ IF IsPipe(f)
           THEN \/ /\ pipes[f[1]] > 0
                   /\ pipes' = [pipes EXCEPT ![f[1]] = @ - 1]
                   /\ procs' = [procs EXCEPT ![p].doing = "write"]
                   /\ UNCHANGED <<job, held>>
                \/ /\ pipes[f[1]] = 0 /\ Refs(f[1], "w") = {}
                   /\ Exits(p) /\ UNCHANGED pipes
           ELSE \/ /\ procs[p].left > 0
                   /\ procs' = [procs EXCEPT ![p].doing = "write",
                                             ![p].left = @ - 1]
                   /\ UNCHANGED <<job, held, pipes>>
                \/ procs[p].left = 0 /\ Exits(p) /\ UNCHANGED pipes

Write(p) ==
    LET f == procs[p].out
    IN  /\ Running(p) /\ procs[p].doing = "write"
        /\ IF IsPipe(f) /\ Refs(f[1], "r") = {}
           THEN Exits(p) /\ UNCHANGED pipes
           ELSE /\ IsPipe(f) => pipes[f[1]] < PIPE_SIZE
                /\ pipes' = IF IsPipe(f) THEN [pipes EXCEPT ![f[1]] = @ + 1]
                            ELSE pipes
                /\ procs' = [procs EXCEPT ![p].doing = "read"]
                /\ UNCHANGED <<job, held>>

(* a program that has seen enough, or is killed *)
Dies(p) == Running(p) /\ Exits(p) /\ UNCHANGED pipes

(* ctrl+c kills the programs in the foreground *)
CtrlC ==
    /\ \E p \in Pids : Running(p) /\ ~procs[p].background
    /\ procs' = [p \in Pids |->
                   IF Running(p) /\ ~procs[p].background
                   THEN [NoProc EXCEPT !.state = "zombie"] ELSE procs[p]]
    /\ UNCHANGED <<job, held, pipes>>

-----------------------------------------------------------------------------
(* The shell *)

AtPrompt ==
    [phase |-> "prompt", n |-> 0, i |-> 0, input |-> FALSE, output |-> FALSE,
     background |-> FALSE, next |-> Terminal, stdin |-> Terminal,
     stdout |-> Terminal, pids |-> <<>>]

Init ==
    /\ job = [AtPrompt EXCEPT !.phase = "boot"]
    /\ held = {}
    /\ procs = [p \in Pids |-> NoProc]
    /\ pipes = [k \in Pipes |-> 0]

Boot == job.phase = "boot" /\ job' = AtPrompt /\ UNCHANGED <<held, procs, pipes>>

(* kill stops any program, or none *)
cmd_kill ==
    procs' \in {procs} \cup {Exited(q) : q \in {r \in Pids : Running(r)}}
cmd_exit == job' = [job EXCEPT !.phase = "exited"]

IsBuiltin(cmd, p) == ~cmd.force /\ Head(Head(p.stages)) \in Builtins
Plain(p) ==
    Len(p.stages) = 1 /\ p.input = "" /\ p.output = "" /\ ~p.background

(* sh_execute_line on a line that starts no program *)
ExecuteBuiltin(words) ==
    LET cmd == StripPrefix(words)
        p == sh_parse(cmd.words)
    IN  /\ job.phase = "prompt" /\ ~cmd.usage /\ ~p.error
        /\ IsBuiltin(cmd, p) /\ Plain(p)
        /\ CASE Head(Head(p.stages)) = "exit" -> cmd_exit /\ UNCHANGED procs
             [] Head(Head(p.stages)) = "kill" -> cmd_kill /\ UNCHANGED job
             [] OTHER -> UNCHANGED <<job, procs>>
        /\ UNCHANGED <<held, pipes>>

(* ... and on one that does; sh_find_program may not find one of them *)
ExecutePipeline(words) ==
    LET cmd == StripPrefix(words)
        p == sh_parse(cmd.words)
    IN  /\ job.phase = "prompt" /\ ~cmd.usage /\ ~p.error
        /\ ~IsBuiltin(cmd, p)
        /\ job' = [AtPrompt EXCEPT !.phase = "input", !.n = Len(p.stages),
                                   !.input = p.input # "",
                                   !.output = p.output # "",
                                   !.background = p.background]
        /\ UNCHANGED <<held, procs, pipes>>

Opens(f) == Cardinality(held) < MAX_FDS /\ held' = held \cup {f}

OpenInput ==
    /\ job.phase = "input" /\ UNCHANGED <<procs, pipes>>
    /\ \/ ~job.input /\ job' = [job EXCEPT !.phase = "output"] /\ UNCHANGED held
       \/ /\ job.input /\ Opens(InFile)
          /\ job' = [job EXCEPT !.phase = "output", !.next = InFile]
       \/ job.input /\ job' = AtPrompt /\ UNCHANGED held

(* mutant: the input stays open when the output cannot be opened *)
OpenOutputKeepsInput ==
    /\ job.phase = "output" /\ UNCHANGED <<procs, pipes>>
    /\ \/ /\ ~job.output /\ UNCHANGED held
          /\ job' = [job EXCEPT !.phase = "pipe", !.i = 1]
       \/ /\ job.output /\ Opens(OutFile)
          /\ job' = [job EXCEPT !.phase = "pipe", !.i = 1]
       \/ job.output /\ job' = AtPrompt /\ UNCHANGED held

OpenOutput ==
    /\ job.phase = "output" /\ UNCHANGED <<procs, pipes>>
    /\ \/ /\ ~job.output /\ UNCHANGED held
          /\ job' = [job EXCEPT !.phase = "pipe", !.i = 1]
       \/ /\ job.output /\ Opens(OutFile)
          /\ job' = [job EXCEPT !.phase = "pipe", !.i = 1]
       \/ job.output /\ job' = AtPrompt /\ held' = held \ {InFile}

(* the pipe to the next stage; a pipe call may fail *)
StagePipe ==
    LET out == IF job.output THEN OutFile ELSE Terminal
        staged == [job EXCEPT !.phase = "run", !.stdin = job.next]
    IN  /\ job.phase = "pipe" /\ UNCHANGED procs
        /\ \/ /\ job' = [staged EXCEPT !.next = Terminal, !.stdout = out]
              /\ UNCHANGED <<held, pipes>>
           \/ /\ job.i < job.n /\ Cardinality(held) + 2 <= MAX_FDS
              /\ \E k \in UnusedPipes :
                   /\ k = Min(UnusedPipes)
                   /\ held' = held \cup {<<k, "r">>, <<k, "w">>}
                   /\ pipes' = [pipes EXCEPT ![k] = 0]
                   /\ job' = [staged EXCEPT !.next = <<k, "r">>,
                                            !.stdout = <<k, "w">>]

StageRun ==
    /\ job.phase = "run" /\ UNCHANGED <<held, pipes>>
    /\ \/ /\ job' = [job EXCEPT !.phase = "close", !.pids = Append(@, 0)]
          /\ UNCHANGED procs
       \/ \E p \in FreePids :
            /\ p = Min(FreePids)
            /\ procs' = [procs EXCEPT ![p] =
                           [NoProc EXCEPT !.state = "runs", !.in = job.stdin,
                              !.out = job.stdout,
                              !.left = IF IsPipe(job.stdin) THEN 0 ELSE MaxInput,
                              !.background = job.background]]
            /\ job' = [job EXCEPT !.phase = "close", !.pids = Append(@, p)]

(* mutant: every program is waited for before the next one is started *)
StageCloseWaits ==
    LET last == job.i = job.n
        pid == job.pids[job.i]
    IN  /\ job.phase = "close" /\ UNCHANGED <<procs, pipes>>
        /\ pid # 0 => procs[pid].state = "zombie"
        /\ held' = held \ ({job.stdin} \cup ({job.stdout} \ {OutFile})
                             \cup (IF last THEN {OutFile} ELSE {}))
        /\ job' = CASE ~last -> [job EXCEPT !.phase = "pipe", !.i = @ + 1]
                    [] last /\ job.background -> AtPrompt
                    [] last /\ ~job.background ->
                         [job EXCEPT !.phase = "wait", !.i = 1,
                                     !.stdin = Terminal, !.stdout = Terminal]

(* the programs hold their own references now; after the last one the      *)
(* output is closed too                                                    *)
StageClose ==
    LET last == job.i = job.n
    IN  /\ job.phase = "close" /\ UNCHANGED <<procs, pipes>>
        /\ held' = held \ ({job.stdin} \cup ({job.stdout} \ {OutFile})
                             \cup (IF last THEN {OutFile} ELSE {}))
        /\ job' = CASE ~last -> [job EXCEPT !.phase = "pipe", !.i = @ + 1]
                    [] last /\ job.background -> AtPrompt
                    [] last /\ ~job.background ->
                         [job EXCEPT !.phase = "wait", !.i = 1,
                                     !.stdin = Terminal, !.stdout = Terminal]

(* mutant: only the last program is waited for *)
WaitForLast ==
    LET pid == job.pids[job.n]
    IN  /\ job.phase = "wait" /\ UNCHANGED <<held, pipes>>
        /\ IF pid = 0 THEN UNCHANGED procs
           ELSE /\ procs[pid].state = "zombie"
                /\ procs' = [procs EXCEPT ![pid] = NoProc]
        /\ job' = AtPrompt

Wait ==
    LET pid == job.pids[job.i]
    IN  /\ job.phase = "wait" /\ UNCHANGED <<held, pipes>>
        /\ IF pid = 0 THEN UNCHANGED procs
           ELSE /\ procs[pid].state = "zombie"
                /\ procs' = [procs EXCEPT ![pid] = NoProc]
        /\ job' = IF job.i = job.n THEN AtPrompt ELSE [job EXCEPT !.i = @ + 1]

ShellStep == OpenInput \/ OpenOutput \/ StagePipe \/ StageRun \/ StageClose \/ Wait

Next ==
    \/ Boot
    \/ \E words \in Lines : ExecuteBuiltin(words) \/ ExecutePipeline(words)
    \/ OpenInput \/ OpenOutput \/ StagePipe \/ StageRun \/ StageClose \/ Wait
    \/ \E p \in Pids : Read(p) \/ Write(p) \/ Dies(p)
    \/ CtrlC

(* the shell and the programs keep running; nobody has to type *)
Spec ==
    /\ Init /\ [][Next]_vars
    /\ WF_vars(ShellStep)
    /\ \A p \in Pids : WF_vars(Read(p)) /\ WF_vars(Write(p))

-----------------------------------------------------------------------------
(* Properties *)

(* At the prompt the shell has no file and no pipe end open, whichever     *)
(* open, pipe or run call of the last line failed                          *)
NothingHeldAtPrompt ==
    job.phase \in {"prompt", "exited"} => held = {}

(* Every program of a foreground pipeline was waited for before the next   *)
(* prompt: none runs on and none stays behind as a zombie                  *)
ForegroundReaped ==
    job.phase \in {"prompt", "exited"} =>
        \A p \in Pids : procs[p].state # "free" => procs[p].background

(* A foreground pipeline of programs that read to the end of their input   *)
(* comes to an end: every reader is told when the last writer is gone,     *)
(* every writer when the last reader is, whichever of them failed to start *)
PipelineEnds == job.phase = "input" ~> job.phase = "prompt"

(* "a failed pipe leaves the stage writing to the terminal" *)
FailedPipeToTerminal ==
    job.phase = "run" /\ job.i < job.n /\ ~IsPipe(job.stdout)
        => job.stdout = Terminal

(* what sh_parse accepts, said without a loop: every redirection names a   *)
(* file, & ends the line, < stands before and > after every |, and every   *)
(* stage has a program                                                     *)
IsFile(words, j) == j > 1 /\ words[j - 1] \in Redirections
Bars(words) == {j \in DOMAIN words : words[j] = "|"}
StageOf(words, j) == 1 + Cardinality({b \in Bars(words) : b < j})
StageWords(words, s) ==
    {j \in DOMAIN words : /\ words[j] \notin Operators
                          /\ ~IsFile(words, j) /\ StageOf(words, j) = s}

InGrammar(words) ==
    /\ \A j \in DOMAIN words : words[j] \in Redirections =>
         j < Len(words) /\ words[j + 1] \notin Operators
    /\ \A j \in DOMAIN words : words[j] = "&" => j = Len(words)
    /\ \A j \in DOMAIN words, b \in Bars(words) :
         (words[j] = "<" => j < b) /\ (words[j] \in {">", ">>"} => b < j)
    /\ Cardinality(Bars(words)) < SH_MAX_STAGES
    /\ \A s \in 1..Cardinality(Bars(words)) + 1 :
         Cardinality(StageWords(words, s)) \in 1..SH_MAX_ARGS

(* sh_parse accepts exactly the lines of the grammar and gives each stage  *)
(* its words                                                               *)
GrammarKept ==
    job.phase = "boot" =>
        \A words \in ParsedLines :
            LET p == sh_parse(words)
            IN  /\ ~p.error <=> InGrammar(words)
                /\ ~p.error =>
                     /\ Len(p.stages) = Cardinality(Bars(words)) + 1
                     /\ \A s \in DOMAIN p.stages :
                          Len(p.stages[s]) = Cardinality(StageWords(words, s))
                     /\ p.background = (Last(words) = "&")

(* The words are the line without its quotes and without the spaces        *)
(* outside of quotes, and with their terminators they fit in a buffer of   *)
(* twice the line: "buf, which must hold twice the line"                   *)
Inside(chars, i) ==
    Cardinality({j \in 1..i - 1 : chars[j] = "\""}) % 2 = 1
Kept(chars) ==
    LET kept == {i \in DOMAIN chars : chars[i] # "\""
                     /\ (chars[i] = " " => Inside(chars, i))}
    IN  [k \in 1..Cardinality(kept) |->
           chars[CHOOSE i \in kept : Cardinality({j \in kept : j <= i}) = k]]
WordsKept ==
    job.phase = "boot" =>
        \A chars \in CharLines :
            LET words == sh_tokenize(chars)
            IN  /\ FlattenSeq(words) = Kept(chars)
                /\ Len(FlattenSeq(words)) + Len(words) <= 2 * Len(chars)

(* The shell reads a line as its words and its words as its pipeline       *)
(* (sh_tokenize, sh_parse)                                                 *)
LinesRead == WordsKept /\ GrammarKept
=============================================================================
