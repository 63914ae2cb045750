----------------------------- MODULE ShellProofs -----------------------------
(***************************************************************************)
(* Theorems about Shell: what the shell has open and whom it still has to  *)
(* wait for at every step of sh_run_pipeline, for every set of lines,      *)
(* number of stages, programs, pipes and descriptors.  Nothing is assumed  *)
(* of sh_parse: the number of stages and the background flag may be        *)
(* anything.                                                               *)
(***************************************************************************)
EXTENDS Shell, TLAPS

USE ShellAssumption

-----------------------------------------------------------------------------
(* Types *)

Phases == {"boot", "prompt", "exited", "input", "output", "pipe", "run",
           "close", "wait"}
Ends == (0 .. MaxPipes) \X {"tty", "in", "out", "r", "w"}

JobType ==
    job \in [phase : Phases, n : {job.n}, i : Nat, input : BOOLEAN,
             output : BOOLEAN, background : {job.background}, next : Ends,
             stdin : Ends, stdout : Ends, pids : Seq(0 .. MaxPids)]

ProcsType ==
    /\ procs = [p \in Pids |-> procs[p]]
    /\ \A p \in Pids : procs[p] \in
         [state : {"free", "runs", "zombie"}, in : Ends, out : Ends,
          doing : {"read", "write"}, left : Nat,
          background : {procs[p].background}]

TypeOK ==
    /\ JobType
    /\ held \subseteq Ends
    /\ ProcsType
    /\ pipes \in [Pipes -> Nat]

-----------------------------------------------------------------------------
(* What the shell has open *)

(* the file of >, which stays open until the last program has it *)
Output == IF job.output THEN {OutFile} ELSE {}

(* the descriptors of sh_run_pipeline, step by step *)
Open ==
    CASE job.phase = "output" -> {job.next}
      [] job.phase = "pipe" -> {job.next} \cup Output
      [] job.phase \in {"run", "close"} ->
           {job.stdin, job.stdout, job.next} \cup Output
      [] OTHER -> {}

OpenIsKnown == held = Open \ {Terminal}

(* the input of the next stage is nobody else's, and the last has none *)
NextIsNew ==
    /\ job.phase = "input" => job.next = Terminal
    /\ job.phase = "output" => job.next \in {Terminal, InFile}
    /\ job.phase \in {"pipe", "run", "close"} => job.next # OutFile
    /\ job.phase \in {"run", "close"} =>
         /\ job.stdin # OutFile
         /\ job.stdout = OutFile => job.output
         /\ job.next # Terminal => /\ job.next \notin {job.stdin, job.stdout}
                                   /\ job.i # job.n

-----------------------------------------------------------------------------
(* Whom the shell waits for *)

(* the programs of the pipeline that are not reaped yet *)
Started ==
    CASE job.phase \in {"pipe", "run", "close"} ->
           {job.pids[j] : j \in DOMAIN job.pids}
      [] job.phase = "wait" -> {job.pids[j] : j \in job.i .. Len(job.pids)}
      [] OTHER -> {}

ForegroundIsStarted ==
    \A p \in Pids :
        procs[p].state # "free" /\ ~ procs[p].background =>
            p \in Started /\ ~ job.background

(* one pid for every stage that was begun *)
PidsMatchStages ==
    /\ job.phase \in {"pipe", "run"} => job.i = Len(job.pids) + 1
    /\ job.phase = "close" => job.i = Len(job.pids)
    /\ job.phase \in {"close", "wait"} => job.i \in DOMAIN job.pids
    /\ job.phase = "wait" => job.n = Len(job.pids)
    /\ job.phase \in {"input", "output"} => job.pids = <<>>

IInv == /\ TypeOK /\ OpenIsKnown /\ NextIsNew
        /\ ForegroundIsStarted /\ PidsMatchStages

-----------------------------------------------------------------------------
(* Types *)

(* The ends that have a name of their own *)
LEMMA NamedEnds ==
    /\ Terminal \in Ends /\ InFile \in Ends /\ OutFile \in Ends
    /\ Terminal # InFile /\ Terminal # OutFile /\ InFile # OutFile
    /\ \A k \in Pipes : /\ <<k, "r">> \in Ends /\ <<k, "w">> \in Ends
                        /\ <<k, "r">> # <<k, "w">>
                        /\ <<k, "r">> \notin {Terminal, InFile, OutFile}
                        /\ <<k, "w">> \notin {Terminal, InFile, OutFile}
BY DEF Terminal, InFile, OutFile, Ends, Pipes

(* The end of a pipe belongs to one of the pipes. *)
LEMMA PipeOfEnd == \A f \in Ends : IsPipe(f) => f[1] \in Pipes
BY DEF Ends, IsPipe, Pipes

(* The shell at its prompt *)
LEMMA PromptType ==
    AtPrompt \in [phase : Phases, n : {AtPrompt.n}, i : Nat, input : BOOLEAN,
                  output : BOOLEAN, background : {AtPrompt.background},
                  next : Ends, stdin : Ends, stdout : Ends,
                  pids : Seq(0 .. MaxPids)]
<1>1. <<>> \in Seq(0 .. MaxPids)
  OBVIOUS
<1>. QED
  BY <1>1, NamedEnds DEF AtPrompt, Phases

(* A program that exits leaves the others alone. *)
LEMMA ExitType ==
    ASSUME ProcsType, NEW q \in Pids, procs' = Exited(q)
    PROVE  ProcsType'
BY NamedEnds DEF ProcsType, Exited, NoProc

(* The initial state has its types. *)
LEMMA InitTypes == Init => TypeOK
<1>. SUFFICES ASSUME Init PROVE TypeOK
  OBVIOUS
<1>1. JobType
  BY PromptType DEF Init, JobType, Phases, AtPrompt
<1>2. ProcsType
  BY NamedEnds DEF Init, ProcsType, NoProc
<1>. QED
  BY <1>1, <1>2 DEF Init, TypeOK

(* Every action keeps the types. *)
LEMMA TypesKept == TypeOK /\ [Next]_vars => TypeOK'
<1>. SUFFICES ASSUME TypeOK, [Next]_vars PROVE TypeOK'
  OBVIOUS
<1>. USE DEF TypeOK
<1>1. ASSUME UNCHANGED vars PROVE TypeOK'
  BY <1>1 DEF vars, JobType, ProcsType
<1>2. ASSUME Boot PROVE TypeOK'
  BY <1>2, PromptType DEF Boot, JobType, ProcsType
<1>3. ASSUME NEW words \in Lines, ExecuteBuiltin(words) PROVE TypeOK'
  <2>1. held' = held /\ pipes' = pipes /\ (job' = job \/ cmd_exit)
    BY <1>3, Zenon DEF ExecuteBuiltin
  <2>2. JobType'
    BY <2>1 DEF JobType, cmd_exit, Phases
  <2>3. procs' = procs \/ \E q \in Pids : procs' = Exited(q)
    BY <1>3 DEF ExecuteBuiltin, cmd_kill
  <2>4. ProcsType'
    BY <2>3, ExitType DEF ProcsType
  <2>. QED
    BY <2>1, <2>2, <2>4
<1>4. ASSUME NEW words \in Lines, ExecutePipeline(words) PROVE TypeOK'
  <2>. DEFINE p == sh_parse(StripPrefix(words).words)
  <2>1. job' = [AtPrompt EXCEPT !.phase = "input", !.n = Len(p.stages),
                                !.input = p.input # "",
                                !.output = p.output # "",
                                !.background = p.background]
    BY <1>4, Zenon DEF ExecutePipeline
  <2>2. JobType'
    <3>. DEFINE in == p.input # ""   out == p.output # ""
                n == Len(p.stages)   background == p.background
    <3>1. in \in BOOLEAN /\ out \in BOOLEAN
      OBVIOUS
    <3>2. job' = [AtPrompt EXCEPT !.phase = "input", !.n = n, !.input = in,
                                  !.output = out, !.background = background]
      BY <2>1, Zenon
    <3>. HIDE DEF in, out, n, background
    <3>. QED
      BY <3>1, <3>2, PromptType DEF JobType, Phases
  <2>3. UNCHANGED <<held, procs, pipes>>
    BY <1>4, Zenon DEF ExecutePipeline
  <2>. QED
    BY <2>2, <2>3 DEF ProcsType
<1>5. ASSUME OpenInput PROVE TypeOK'
  <2>1. UNCHANGED <<procs, pipes>> /\ held' \in SUBSET Ends
    BY <1>5, NamedEnds DEF OpenInput, Opens
  <2>2. \/ job' = [job EXCEPT !.phase = "output"]
        \/ job' = [job EXCEPT !.phase = "output", !.next = InFile]
        \/ job' = AtPrompt
    BY <1>5 DEF OpenInput
  <2>3. CASE job' = AtPrompt
    BY <2>1, <2>3, PromptType DEF JobType, ProcsType
  <2>4. CASE job' # AtPrompt
    BY <2>1, <2>2, <2>4, NamedEnds DEF JobType, ProcsType, Phases
  <2>. QED
    BY <2>3, <2>4
<1>6. ASSUME OpenOutput PROVE TypeOK'
  <2>1. held' \subseteq Ends
    BY <1>6, NamedEnds DEF OpenOutput, Opens
  <2>2. JobType'
    <3>1. \/ job' = [job EXCEPT !.phase = "pipe", !.i = 1]
          \/ job' = AtPrompt
      BY <1>6, Zenon DEF OpenOutput
    <3>2. CASE job' = [job EXCEPT !.phase = "pipe", !.i = 1]
      BY <3>2 DEF JobType, Phases
    <3>3. CASE job' = AtPrompt
      BY <3>3, PromptType DEF JobType
    <3>. QED
      BY <3>1, <3>2, <3>3
  <2>. QED
    BY <1>6, <2>1, <2>2 DEF OpenOutput, ProcsType
<1>7. ASSUME StagePipe PROVE TypeOK'
  <2>1. UnusedPipes \subseteq Pipes
    BY DEF UnusedPipes
  <2>. DEFINE staged(next, stdout) ==
                [job EXCEPT !.phase = "run", !.stdin = job.next,
                            !.next = next, !.stdout = stdout]
  <2>2. ASSUME NEW next \in Ends, NEW stdout \in Ends,
               job' = staged(next, stdout)
        PROVE  JobType'
    BY <2>2 DEF JobType, Phases
  <2>3. \/ UNCHANGED <<held, pipes>> /\ \E out \in {OutFile, Terminal} :
             job' = staged(Terminal, out)
        \/ \E k \in Pipes :
             /\ held' = held \cup {<<k, "r">>, <<k, "w">>}
             /\ pipes' = [pipes EXCEPT ![k] = 0]
             /\ job' = staged(<<k, "r">>, <<k, "w">>)
    BY <1>7, <2>1 DEF StagePipe
  <2>4. JobType'
    <3>1. PICK next \in Ends, stdout \in Ends : job' = staged(next, stdout)
      BY <2>3, NamedEnds, Zenon
    <3>. QED
      BY <2>2, <3>1, Zenon
  <2>5. held' \subseteq Ends /\ pipes' \in [Pipes -> Nat]
    <3>1. \/ UNCHANGED <<held, pipes>>
          \/ \E k \in Pipes : /\ held' = held \cup {<<k, "r">>, <<k, "w">>}
                              /\ pipes' = [pipes EXCEPT ![k] = 0]
      BY <2>3, Zenon
    <3>2. CASE UNCHANGED <<held, pipes>>
      BY <3>2
    <3>3. ASSUME NEW k \in Pipes,
                 held' = held \cup {<<k, "r">>, <<k, "w">>},
                 pipes' = [pipes EXCEPT ![k] = 0]
          PROVE  held' \subseteq Ends /\ pipes' \in [Pipes -> Nat]
      <4>1. <<k, "r">> \in Ends /\ <<k, "w">> \in Ends
        BY NamedEnds, Zenon
      <4>2. held' \subseteq Ends
        BY <3>3, <4>1, Zenon
      <4>. QED
        BY <3>3, <4>2
    <3>. QED
      BY <3>1, <3>2, <3>3, Zenon
  <2>. QED
    BY <1>7, <2>4, <2>5 DEF StagePipe, ProcsType
<1>8. ASSUME StageRun PROVE TypeOK'
  <2>1. FreePids \subseteq 0 .. MaxPids /\ 0 \in 0 .. MaxPids
    BY DEF FreePids, Pids
  <2>2. JobType'
    <3>1. PICK p \in 0 .. MaxPids :
            job' = [job EXCEPT !.phase = "close", !.pids = Append(@, p)]
      BY <1>8, <2>1, Zenon DEF StageRun
    <3>2. Append(job.pids, p) \in Seq(0 .. MaxPids)
      BY DEF JobType
    <3>. QED
      BY <3>1, <3>2 DEF JobType, Phases
  <2>3. ProcsType'
    <3>1. CASE UNCHANGED procs
      BY <3>1 DEF ProcsType
    <3>2. CASE ~ UNCHANGED procs
      <4>1. PICK p \in Pids :
              procs' = [procs EXCEPT ![p] =
                         [NoProc EXCEPT !.state = "runs", !.in = job.stdin,
                            !.out = job.stdout,
                            !.left = IF IsPipe(job.stdin) THEN 0 ELSE MaxInput,
                            !.background = job.background]]
        BY <1>8, <3>2, Zenon DEF StageRun, FreePids
      <4>2. job.stdin \in Ends /\ job.stdout \in Ends
        BY DEF JobType
      <4>. QED
        BY <4>1, <4>2 DEF ProcsType, NoProc
    <3>. QED
      BY <3>1, <3>2
  <2>. QED
    BY <1>8, <2>2, <2>3 DEF StageRun
<1>9. ASSUME StageClose PROVE TypeOK'
  <2>1. \/ job' = [job EXCEPT !.phase = "pipe", !.i = @ + 1]
        \/ job' = AtPrompt
        \/ job' = [job EXCEPT !.phase = "wait", !.i = 1,
                              !.stdin = Terminal, !.stdout = Terminal]
    BY <1>9 DEF StageClose
  <2>2. JobType'
    <3>1. CASE job' = [job EXCEPT !.phase = "pipe", !.i = @ + 1]
      <4>1. job.i + 1 \in Nat
        BY DEF JobType
      <4>. QED
        BY <3>1, <4>1 DEF JobType, Phases
    <3>2. CASE job' = AtPrompt
      BY <3>2, PromptType DEF JobType
    <3>3. CASE job' = [job EXCEPT !.phase = "wait", !.i = 1,
                                  !.stdin = Terminal, !.stdout = Terminal]
      BY <3>3, NamedEnds DEF JobType, Phases
    <3>. QED
      BY <2>1, <3>1, <3>2, <3>3
  <2>. QED
    BY <1>9, <2>2 DEF StageClose, ProcsType
<1>10. ASSUME Wait PROVE TypeOK'
  <2>1. JobType'
    <3>1. job' = AtPrompt \/ job' = [job EXCEPT !.i = @ + 1]
      BY <1>10 DEF Wait
    <3>2. CASE job' = AtPrompt
      BY <3>2, PromptType DEF JobType
    <3>3. CASE job' = [job EXCEPT !.i = @ + 1]
      <4>1. job.i + 1 \in Nat
        BY DEF JobType
      <4>. QED
        BY <3>3, <4>1 DEF JobType
    <3>. QED
      BY <3>1, <3>2, <3>3
  <2>2. ProcsType'
    BY <1>10, NamedEnds DEF Wait, ProcsType, NoProc
  <2>. QED
    BY <1>10, <2>1, <2>2 DEF Wait
<1>11. ASSUME NEW p \in Pids, Read(p) PROVE TypeOK'
  <2>1. UNCHANGED <<job, held>>
    BY <1>11 DEF Read, Exits
  <2>2. pipes' \in [Pipes -> Nat]
    BY <1>11, PipeOfEnd DEF Read, ProcsType
  <2>3. procs' = Exited(p) \/ procs' = [procs EXCEPT ![p].doing = "write"]
        \/ /\ procs[p].left > 0
           /\ procs' = [procs EXCEPT ![p].doing = "write", ![p].left = @ - 1]
    BY <1>11 DEF Read, Exits
  <2>4. ProcsType'
    BY <2>3, ExitType DEF ProcsType
  <2>. QED
    BY <2>1, <2>2, <2>4 DEF JobType
<1>12. ASSUME NEW p \in Pids, Write(p) PROVE TypeOK'
  <2>1. UNCHANGED <<job, held>>
    BY <1>12 DEF Write, Exits
  <2>2. pipes' \in [Pipes -> Nat]
    BY <1>12, PipeOfEnd DEF Write, ProcsType
  <2>3. procs' = Exited(p) \/ procs' = [procs EXCEPT ![p].doing = "read"]
    BY <1>12 DEF Write, Exits
  <2>4. ProcsType'
    BY <2>3, ExitType DEF ProcsType
  <2>. QED
    BY <2>1, <2>2, <2>4 DEF JobType
<1>13. ASSUME NEW p \in Pids, Dies(p) PROVE TypeOK'
  BY <1>13, ExitType DEF Dies, Exits, JobType
<1>14. ASSUME CtrlC PROVE TypeOK'
  <2>1. ProcsType'
    BY <1>14, NamedEnds DEF CtrlC, ProcsType, NoProc
  <2>. QED
    BY <1>14, <2>1 DEF CtrlC, JobType
<1>. QED
  BY <1>1, <1>2, <1>3, <1>4, <1>5, <1>6, <1>7, <1>8, <1>9, <1>10, <1>11,
     <1>12, <1>13, <1>14, Zenon DEF Next

-----------------------------------------------------------------------------
(* What is open, and how far the pipeline is *)

Steps == OpenIsKnown /\ NextIsNew /\ PidsMatchStages

(* Nothing is open at the prompt, and nobody is waited for. *)
LEMMA PromptSteps ==
    ASSUME job' = AtPrompt, held' = {}
    PROVE  Steps'
BY DEF Steps, OpenIsKnown, Open, NextIsNew, PidsMatchStages, AtPrompt

(* An unused pipe is not open. *)
LEMMA UnusedNotHeld ==
    ASSUME NEW k \in UnusedPipes
    PROVE  k \in Pipes /\ <<k, "r">> \notin held /\ <<k, "w">> \notin held
BY DEF UnusedPipes, Refs

(* sh_run_pipeline opens and closes what it should, and counts its stages. *)
LEMMA StepsKept == TypeOK /\ Steps /\ [Next]_vars => Steps'
<1>. SUFFICES ASSUME TypeOK, Steps, [Next]_vars PROVE Steps'
  OBVIOUS
<1>1. ASSUME UNCHANGED <<job, held>> PROVE Steps'
  BY <1>1 DEF Steps, OpenIsKnown, Open, Output, NextIsNew, PidsMatchStages
<1>2. ASSUME Boot PROVE Steps'
  BY <1>2, PromptSteps DEF Boot, Steps, OpenIsKnown, Open
<1>3. ASSUME NEW words \in Lines, ExecuteBuiltin(words) PROVE Steps'
  <2>1. held' = held /\ job.phase = "prompt" /\ (job' = job \/ cmd_exit)
    BY <1>3, Zenon DEF ExecuteBuiltin
  <2>2. CASE job' = job
    BY <1>1, <2>1, <2>2
  <2>3. CASE cmd_exit
    <3>1. job'.phase = "exited" /\ held = {}
      BY <2>1, <2>3 DEF cmd_exit, TypeOK, JobType, Steps, OpenIsKnown, Open
    <3>. QED
      BY <2>1, <3>1
         DEF Steps, OpenIsKnown, Open, NextIsNew, PidsMatchStages
  <2>. QED
    BY <2>1, <2>2, <2>3
<1>4. ASSUME NEW words \in Lines, ExecutePipeline(words) PROVE Steps'
  <2>1. job.phase = "prompt" /\ held' = held
    BY <1>4, Zenon DEF ExecutePipeline
  <2>2. job'.phase = "input" /\ job'.pids = <<>> /\ job'.next = Terminal
    BY <1>4 DEF ExecutePipeline, AtPrompt
  <2>3. held = {}
    BY <2>1 DEF Steps, OpenIsKnown, Open
  <2>. QED
    BY <2>1, <2>2, <2>3
       DEF Steps, OpenIsKnown, Open, NextIsNew, PidsMatchStages
<1>5. ASSUME OpenInput PROVE Steps'
  <2>1. job.phase = "input" /\ held = {} /\ job.pids = <<>>
        /\ job.next = Terminal
    BY <1>5
       DEF OpenInput, Steps, OpenIsKnown, Open, NextIsNew, PidsMatchStages
  <2>2. CASE job' = AtPrompt /\ UNCHANGED held
    BY <2>1, <2>2, PromptSteps
  <2>3. CASE job' = [job EXCEPT !.phase = "output"] /\ held' = {}
    <3>1. job'.phase = "output" /\ job'.pids = <<>> /\ job'.next = Terminal
      BY <2>1, <2>3 DEF TypeOK, JobType
    <3>. QED
      BY <2>3, <3>1, NamedEnds
         DEF Steps, OpenIsKnown, Open, NextIsNew, PidsMatchStages
  <2>4. CASE /\ job' = [job EXCEPT !.phase = "output", !.next = InFile]
             /\ held' = {InFile}
    <3>1. job'.phase = "output" /\ job'.pids = <<>> /\ job'.next = InFile
      BY <2>1, <2>4 DEF TypeOK, JobType
    <3>. QED
      BY <2>4, <3>1, NamedEnds
         DEF Steps, OpenIsKnown, Open, NextIsNew, PidsMatchStages
  <2>. QED
    BY <1>5, <2>1, <2>2, <2>3, <2>4 DEF OpenInput, Opens
<1>6. ASSUME OpenOutput PROVE Steps'
  <2>1. /\ job.phase = "output" /\ held = {job.next} \ {Terminal}
        /\ job.pids = <<>> /\ job.next \in {Terminal, InFile}
    BY <1>6
       DEF OpenOutput, Steps, OpenIsKnown, Open, NextIsNew, PidsMatchStages
  <2>2. CASE job' = AtPrompt /\ held' = held \ {InFile}
    BY <2>1, <2>2, PromptSteps
  <2>3. CASE /\ job' = [job EXCEPT !.phase = "pipe", !.i = 1]
             /\ held' = held \cup Output
    <3>1. /\ job'.phase = "pipe" /\ job'.pids = <<>> /\ job'.i = 1
          /\ job'.next = job.next /\ job'.output = job.output
      BY <2>1, <2>3 DEF TypeOK, JobType
    <3>2. held' = (Open \ {Terminal})'
      BY <2>1, <2>3, <3>1, NamedEnds DEF Open, Output
    <3>. QED
      BY <2>1, <3>1, <3>2, NamedEnds
         DEF Steps, OpenIsKnown, NextIsNew, PidsMatchStages
  <2>. QED
    BY <1>6, <2>1, <2>2, <2>3 DEF OpenOutput, Opens, Output
<1>7. ASSUME StagePipe PROVE Steps'
  <2>1. /\ job.phase = "pipe" /\ held = ({job.next} \cup Output) \ {Terminal}
        /\ job.i = Len(job.pids) + 1 /\ job.next # OutFile
    BY <1>7 DEF StagePipe, Steps, OpenIsKnown, Open, NextIsNew, PidsMatchStages
  <2>. DEFINE staged == [job EXCEPT !.phase = "run", !.stdin = job.next]
              run(next, stdout) ==
                [staged EXCEPT !.next = next, !.stdout = stdout]
              file == IF job.output THEN OutFile ELSE Terminal
  <2>2. ASSUME NEW next, NEW stdout, job' = run(next, stdout)
        PROVE  /\ job'.phase = "run" /\ job'.stdin = job.next
               /\ job'.next = next /\ job'.stdout = stdout
               /\ job'.pids = job.pids /\ job'.i = job.i
               /\ job'.n = job.n /\ job'.output = job.output
    BY <2>2 DEF TypeOK, JobType
  <2>3. \/ job' = run(Terminal, file) /\ UNCHANGED held
        \/ \E k \in UnusedPipes :
             /\ job.i < job.n
             /\ held' = held \cup {<<k, "r">>, <<k, "w">>}
             /\ job' = run(<<k, "r">>, <<k, "w">>)
    <3>. HIDE DEF run, file
    <3>. QED
      BY <1>7, Zenon DEF StagePipe, run, file
  <2>4. ASSUME job' = run(Terminal, file), UNCHANGED held PROVE Steps'
    <3>. HIDE DEF run
    <3>1. /\ job'.phase = "run" /\ job'.stdin = job.next
          /\ job'.next = Terminal /\ job'.stdout = file
          /\ job'.pids = job.pids /\ job'.i = job.i
          /\ job'.output = job.output
      BY <2>2, <2>4
    <3>2. OpenIsKnown'
      BY <2>1, <2>4, <3>1, NamedEnds DEF OpenIsKnown, Open, Output
    <3>3. NextIsNew'
      BY <2>1, <3>1, NamedEnds DEF NextIsNew
    <3>4. PidsMatchStages'
      BY <2>1, <3>1 DEF PidsMatchStages
    <3>. QED
      BY <3>2, <3>3, <3>4 DEF Steps
  <2>5. ASSUME NEW k \in UnusedPipes, job.i < job.n,
               held' = held \cup {<<k, "r">>, <<k, "w">>},
               job' = run(<<k, "r">>, <<k, "w">>)
        PROVE  Steps'
    <3>. HIDE DEF run
    <3>. DEFINE r == <<k, "r">>   w == <<k, "w">>
    <3>1. /\ job'.phase = "run" /\ job'.stdin = job.next
          /\ job'.next = r /\ job'.stdout = w
          /\ job'.pids = job.pids /\ job'.i = job.i
          /\ job'.n = job.n /\ job'.output = job.output
      BY <2>2, <2>5
    <3>2. /\ r \notin held /\ w \notin held /\ r # w
          /\ r \notin {Terminal, OutFile} /\ w \notin {Terminal, OutFile}
      BY UnusedNotHeld, NamedEnds
    <3>3. held' = held \cup {r, w} /\ job.i \in Nat
      BY <2>5 DEF TypeOK, JobType
    <3>4. job.i # job.n
      BY <2>5, <3>3
    <3>. HIDE DEF r, w
    <3>5. OpenIsKnown'
      BY <2>1, <3>1, <3>2, <3>3 DEF OpenIsKnown, Open, Output
    <3>6. NextIsNew'
      BY <2>1, <3>1, <3>2, <3>4 DEF NextIsNew
    <3>7. PidsMatchStages'
      BY <2>1, <3>1 DEF PidsMatchStages
    <3>. QED
      BY <3>5, <3>6, <3>7 DEF Steps
  <2>. HIDE DEF run, file
  <2>. QED
    BY <2>3, <2>4, <2>5, Zenon
<1>8. ASSUME StageRun PROVE Steps'
  <2>1. PICK p \in 0 .. MaxPids :
          job' = [job EXCEPT !.phase = "close", !.pids = Append(@, p)]
    <3>1. FreePids \subseteq 0 .. MaxPids /\ 0 \in 0 .. MaxPids
      BY DEF FreePids, Pids
    <3>. QED
      BY <1>8, <3>1, Zenon DEF StageRun
  <2>2. /\ job'.phase = "close" /\ job'.stdin = job.stdin
        /\ job'.next = job.next /\ job'.stdout = job.stdout
        /\ job'.pids = Append(job.pids, p) /\ job'.i = job.i
        /\ job'.n = job.n /\ job'.output = job.output
    BY <2>1 DEF TypeOK, JobType
  <2>3. held' = held /\ job.phase = "run"
    BY <1>8, Zenon DEF StageRun
  <2>4. OpenIsKnown'
    BY <2>2, <2>3 DEF Steps, OpenIsKnown, Open, Output
  <2>5. NextIsNew'
    BY <2>2, <2>3 DEF Steps, NextIsNew
  <2>6. PidsMatchStages'
    <3>1. job.pids \in Seq(0 .. MaxPids) /\ job.i = Len(job.pids) + 1
      BY <2>3 DEF TypeOK, JobType, Steps, PidsMatchStages
    <3>2. Len(job'.pids) = job'.i /\ job'.i \in DOMAIN job'.pids
      BY <2>2, <3>1
    <3>. QED
      BY <2>2, <3>2 DEF PidsMatchStages
  <2>. QED
    BY <2>4, <2>5, <2>6 DEF Steps
<1>9. ASSUME StageClose PROVE Steps'
  <2>. DEFINE closed == {job.stdin} \cup ({job.stdout} \ {OutFile})
  <2>1. /\ job.phase = "close" /\ job.i = Len(job.pids)
        /\ job.i \in DOMAIN job.pids
        /\ held = ({job.stdin, job.stdout, job.next} \cup Output) \ {Terminal}
        /\ job.next # OutFile /\ job.stdin # OutFile
        /\ job.stdout = OutFile => job.output
        /\ job.next # Terminal => job.next \notin {job.stdin, job.stdout}
        /\ job.next # Terminal => job.i # job.n
    BY <1>9
       DEF StageClose, Steps, OpenIsKnown, Open, NextIsNew, PidsMatchStages
  <2>2. CASE job.i # job.n
    <3>1. /\ job' = [job EXCEPT !.phase = "pipe", !.i = @ + 1]
          /\ held' = held \ closed
      BY <1>9, <2>2 DEF StageClose
    <3>2. /\ job'.phase = "pipe" /\ job'.next = job.next
          /\ job'.pids = job.pids /\ job'.i = job.i + 1
          /\ job'.output = job.output
      BY <3>1 DEF TypeOK, JobType
    <3>3. OpenIsKnown'
      BY <2>1, <3>1, <3>2, NamedEnds DEF OpenIsKnown, Open, Output
    <3>4. NextIsNew'
      BY <2>1, <3>2 DEF NextIsNew
    <3>5. PidsMatchStages'
      BY <2>1, <3>2 DEF PidsMatchStages
    <3>. QED
      BY <3>3, <3>4, <3>5 DEF Steps
  <2>3. CASE job.i = job.n
    <3>1. held' = held \ (closed \cup {OutFile})
      BY <1>9, <2>3 DEF StageClose
    <3>2. held' = {}
      BY <2>1, <2>3, <3>1 DEF Output
    <3>3. CASE job' = AtPrompt
      BY <3>2, <3>3, PromptSteps
    <3>4. CASE job' = [job EXCEPT !.phase = "wait", !.i = 1,
                                  !.stdin = Terminal, !.stdout = Terminal]
      <4>1. /\ job'.phase = "wait" /\ job'.pids = job.pids /\ job'.i = 1
            /\ job'.n = job.n
        BY <3>4 DEF TypeOK, JobType
      <4>2. 1 \in DOMAIN job.pids /\ job.n = Len(job.pids)
        BY <2>1, <2>3 DEF TypeOK, JobType
      <4>. QED
        BY <3>2, <4>1, <4>2
           DEF Steps, OpenIsKnown, Open, NextIsNew, PidsMatchStages
    <3>. QED
      BY <1>9, <2>3, <3>3, <3>4 DEF StageClose
  <2>. QED
    BY <2>2, <2>3
<1>10. ASSUME Wait PROVE Steps'
  <2>1. /\ job.phase = "wait" /\ held = {} /\ held' = {}
        /\ job.n = Len(job.pids) /\ job.i \in DOMAIN job.pids
    BY <1>10 DEF Wait, Steps, OpenIsKnown, Open, PidsMatchStages
  <2>2. CASE job.i = job.n
    BY <1>10, <2>1, <2>2, PromptSteps DEF Wait
  <2>3. CASE job.i # job.n
    <3>1. job' = [job EXCEPT !.i = @ + 1]
      BY <1>10, <2>3 DEF Wait
    <3>2. /\ job'.phase = "wait" /\ job'.pids = job.pids
          /\ job'.i = job.i + 1 /\ job'.n = job.n
      BY <2>1, <3>1 DEF TypeOK, JobType
    <3>3. job.i + 1 \in DOMAIN job.pids
      BY <2>1, <2>3 DEF TypeOK, JobType
    <3>. QED
      BY <2>1, <3>2, <3>3
         DEF Steps, OpenIsKnown, Open, NextIsNew, PidsMatchStages
  <2>. QED
    BY <2>2, <2>3
<1>11. ASSUME NEW p \in Pids, Read(p) \/ Write(p) \/ Dies(p) PROVE Steps'
  BY <1>1, <1>11 DEF Read, Write, Dies, Exits
<1>12. ASSUME CtrlC PROVE Steps'
  BY <1>1, <1>12 DEF CtrlC
<1>13. ASSUME UNCHANGED vars PROVE Steps'
  BY <1>1, <1>13 DEF vars
<1>. QED
  BY <1>2, <1>3, <1>4, <1>5, <1>6, <1>7, <1>8, <1>9, <1>10, <1>11, <1>12,
     <1>13, Zenon DEF Next

-----------------------------------------------------------------------------
(* Who is waited for *)

(* A program that stops leaves nobody behind who was not started. *)
LEMMA StopsKeepForeground ==
    ASSUME TypeOK, ForegroundIsStarted, UNCHANGED job, procs' = [p \in Pids |-> procs'[p]],
           \A p \in Pids :
               \/ procs'[p] = procs[p]
               \/ procs'[p] = NoProc
               \/ /\ procs[p].state # "free" /\ ~ procs[p].background
                  /\ procs'[p].state = "zombie"
    PROVE  ForegroundIsStarted'
BY DEF ForegroundIsStarted, Started, NoProc

(* The end of a program is such a stop. *)
LEMMA ExitStops ==
    ASSUME TypeOK, NEW q \in Pids, Running(q), procs' = Exited(q)
    PROVE  /\ procs' = [p \in Pids |-> procs'[p]]
           /\ \A p \in Pids :
                \/ procs'[p] = procs[p]
                \/ procs'[p] = NoProc
                \/ /\ procs[p].state # "free" /\ ~ procs[p].background
                   /\ procs'[p].state = "zombie"
BY DEF TypeOK, ProcsType, Exited, Running, NoProc

(* Every program in the foreground was started by the current pipeline. *)
LEMMA ForegroundKept ==
    TypeOK /\ Steps /\ ForegroundIsStarted /\ [Next]_vars
        => ForegroundIsStarted'
<1>. SUFFICES ASSUME TypeOK, Steps, ForegroundIsStarted, [Next]_vars
              PROVE  ForegroundIsStarted'
  OBVIOUS
<1>1. ASSUME UNCHANGED <<job, procs>> PROVE ForegroundIsStarted'
  BY <1>1 DEF ForegroundIsStarted, Started
<1>2. ASSUME UNCHANGED procs, Started = {} PROVE ForegroundIsStarted'
  BY <1>2 DEF ForegroundIsStarted
<1>3. ASSUME Boot PROVE ForegroundIsStarted'
  BY <1>2, <1>3 DEF Boot, Started
<1>4. ASSUME NEW q \in Pids, Running(q), procs' = Exited(q), UNCHANGED job
      PROVE  ForegroundIsStarted'
  BY <1>4, ExitStops, StopsKeepForeground
<1>5. ASSUME NEW words \in Lines, ExecuteBuiltin(words)
      PROVE  ForegroundIsStarted'
  <2>1. /\ job.phase = "prompt"
        /\ \/ UNCHANGED procs
           \/ cmd_kill /\ UNCHANGED job
    BY <1>5, Zenon DEF ExecuteBuiltin
  <2>2. CASE UNCHANGED procs
    BY <1>2, <2>1, <2>2 DEF Started
  <2>3. CASE cmd_kill /\ UNCHANGED job
    <3>1. UNCHANGED procs
          \/ \E q \in Pids : Running(q) /\ procs' = Exited(q)
      BY <2>3 DEF cmd_kill
    <3>. QED
      BY <1>4, <2>2, <2>3, <3>1
  <2>. QED
    BY <2>1, <2>2, <2>3
<1>6. ASSUME NEW words \in Lines, ExecutePipeline(words)
      PROVE  ForegroundIsStarted'
  <2>1. job.phase = "prompt" /\ UNCHANGED procs
    BY <1>6, Zenon DEF ExecutePipeline
  <2>. QED
    BY <1>2, <2>1 DEF Started
<1>7. ASSUME OpenInput \/ OpenOutput PROVE ForegroundIsStarted'
  BY <1>2, <1>7 DEF OpenInput, OpenOutput, Started
<1>8. ASSUME StagePipe PROVE ForegroundIsStarted'
  <2>1. job.phase = "pipe" /\ UNCHANGED procs
    BY <1>8, Zenon DEF StagePipe
  <2>2. /\ job'.phase = "run" /\ job'.pids = job.pids
        /\ job'.background = job.background
    BY <1>8 DEF StagePipe, TypeOK, JobType
  <2>. QED
    BY <2>1, <2>2 DEF ForegroundIsStarted, Started
<1>9. ASSUME StageRun PROVE ForegroundIsStarted'
  <2>. DEFINE Took(p) == job' = [job EXCEPT !.phase = "close",
                                            !.pids = Append(@, p)]
  <2>1. ASSUME NEW p \in 0 .. MaxPids, Took(p)
        PROVE  /\ job'.phase = "close" /\ job'.pids = Append(job.pids, p)
               /\ job'.background = job.background
               /\ Started' = Started \cup {p}
    <3>1. /\ job'.phase = "close" /\ job'.pids = Append(job.pids, p)
          /\ job'.background = job.background
      BY <2>1 DEF TypeOK, JobType
    <3>2. job.phase = "run" /\ job.pids \in Seq(0 .. MaxPids)
      BY <1>9 DEF StageRun, TypeOK, JobType
    <3>3. /\ DOMAIN job'.pids = DOMAIN job.pids \cup {Len(job.pids) + 1}
          /\ \A j \in DOMAIN job.pids : job'.pids[j] = job.pids[j]
          /\ job'.pids[Len(job.pids) + 1] = p
      BY <3>1, <3>2, SMTT(30)
    <3>4. Started' = {job'.pids[j] : j \in DOMAIN job'.pids}
      BY <3>1 DEF Started
    <3>5. Started = {job.pids[j] : j \in DOMAIN job.pids}
      BY <3>2 DEF Started
    <3>. QED
      BY <3>1, <3>3, <3>4, <3>5
  <2>2. \/ UNCHANGED procs /\ Took(0)
        \/ \E p \in FreePids :
             /\ Took(p)
             /\ procs' = [procs EXCEPT ![p] =
                           [NoProc EXCEPT !.state = "runs", !.in = job.stdin,
                              !.out = job.stdout,
                              !.left = IF IsPipe(job.stdin) THEN 0 ELSE MaxInput,
                              !.background = job.background]]
    BY <1>9, Zenon DEF StageRun
  <2>. HIDE DEF Took
  <2>3. CASE UNCHANGED procs /\ Took(0)
    BY <2>1, <2>3 DEF ForegroundIsStarted
  <2>4. ASSUME NEW p \in FreePids, Took(p),
               procs' = [procs EXCEPT ![p] =
                           [NoProc EXCEPT !.state = "runs", !.in = job.stdin,
                              !.out = job.stdout,
                              !.left = IF IsPipe(job.stdin) THEN 0 ELSE MaxInput,
                              !.background = job.background]]
        PROVE  ForegroundIsStarted'
    <3>1. p \in Pids /\ p \in 0 .. MaxPids
      BY DEF FreePids, Pids
    <3>2. /\ \A q \in Pids \ {p} : procs'[q] = procs[q]
          /\ procs'[p].background = job.background
      BY <2>4, <3>1 DEF TypeOK, ProcsType, NoProc
    <3>3. Started' = Started \cup {p} /\ job'.background = job.background
      BY <2>1, <2>4, <3>1
    <3>. QED
      BY <3>2, <3>3 DEF ForegroundIsStarted
  <2>. QED
    BY <2>2, <2>3, <2>4
<1>10. ASSUME StageClose PROVE ForegroundIsStarted'
  <2>1. job.phase = "close" /\ UNCHANGED procs
    BY <1>10, Zenon DEF StageClose
  <2>2. CASE job' = [job EXCEPT !.phase = "pipe", !.i = @ + 1]
    <3>1. /\ job'.phase = "pipe" /\ job'.pids = job.pids
          /\ job'.background = job.background
      BY <2>2 DEF TypeOK, JobType
    <3>. QED
      BY <2>1, <3>1 DEF ForegroundIsStarted, Started
  <2>3. CASE job.background
    <3>1. \A p \in Pids : procs[p].state = "free" \/ procs[p].background
      BY <2>3 DEF ForegroundIsStarted
    <3>. QED
      BY <2>1, <3>1 DEF ForegroundIsStarted
  <2>4. CASE job' = [job EXCEPT !.phase = "wait", !.i = 1,
                                !.stdin = Terminal, !.stdout = Terminal]
    <3>1. /\ job'.phase = "wait" /\ job'.pids = job.pids /\ job'.i = 1
          /\ job'.background = job.background
      BY <2>4 DEF TypeOK, JobType
    <3>2. DOMAIN job.pids = 1 .. Len(job.pids)
      BY DEF TypeOK, JobType
    <3>. QED
      BY <2>1, <3>1, <3>2 DEF ForegroundIsStarted, Started
  <2>. QED
    BY <1>10, <2>2, <2>3, <2>4 DEF StageClose
<1>11. ASSUME Wait PROVE ForegroundIsStarted'
  <2>. DEFINE pid == job.pids[job.i]
  <2>1. /\ job.phase = "wait" /\ job.n = Len(job.pids)
        /\ job.i \in DOMAIN job.pids /\ job.pids \in Seq(0 .. MaxPids)
    BY <1>11 DEF Wait, Steps, PidsMatchStages, TypeOK, JobType
  <2>2. pid \in 0 .. MaxPids
    BY <2>1
  <2>3. \A p \in Pids : p # pid => procs'[p] = procs[p]
    BY <1>11 DEF Wait, TypeOK, ProcsType
  <2>4. pid \in Pids => procs'[pid].state = "free"
    BY <1>11 DEF Wait, TypeOK, ProcsType, Pids, NoProc
  <2>5. Started = {job.pids[j] : j \in job.i .. Len(job.pids)}
    BY <2>1 DEF Started
  <2>6. CASE job.i = job.n
    <3>1. Started = {pid}
      BY <2>1, <2>5, <2>6
    <3>. QED
      BY <2>3, <2>4, <3>1 DEF ForegroundIsStarted
  <2>7. CASE job.i # job.n
    <3>1. job' = [job EXCEPT !.i = @ + 1]
      BY <1>11, <2>7 DEF Wait
    <3>2. /\ job'.phase = "wait" /\ job'.pids = job.pids
          /\ job'.i = job.i + 1 /\ job'.background = job.background
      BY <2>1, <3>1 DEF TypeOK, JobType
    <3>3. Started' = {job.pids[j] : j \in job.i + 1 .. Len(job.pids)}
      BY <3>2 DEF Started
    <3>4. Started \subseteq {pid} \cup Started'
      BY <2>1, <2>5, <3>3
    <3>. QED
      BY <2>3, <2>4, <3>2, <3>4 DEF ForegroundIsStarted
  <2>. QED
    BY <2>6, <2>7
<1>12. ASSUME NEW p \in Pids, Read(p) \/ Write(p) \/ Dies(p)
       PROVE  ForegroundIsStarted'
  <2>1. CASE procs' = Exited(p)
    BY <1>4, <1>12, <2>1 DEF Read, Write, Dies, Exits
  <2>2. CASE procs' # Exited(p)
    <3>1. UNCHANGED job /\ \A q \in Pids :
            /\ procs'[q].state = procs[q].state
            /\ procs'[q].background = procs[q].background
      BY <1>12, <2>2 DEF Read, Write, Dies, Exits, TypeOK, ProcsType
    <3>. QED
      BY <3>1 DEF ForegroundIsStarted, Started
  <2>. QED
    BY <2>1, <2>2
<1>13. ASSUME CtrlC PROVE ForegroundIsStarted'
  <2>1. /\ procs' = [p \in Pids |-> procs'[p]]
        /\ \A p \in Pids :
             \/ procs'[p] = procs[p]
             \/ /\ procs[p].state # "free" /\ ~ procs[p].background
                /\ procs'[p].state = "zombie"
    BY <1>13 DEF CtrlC, Running, NoProc
  <2>. QED
    BY <1>13, <2>1, StopsKeepForeground DEF CtrlC
<1>14. ASSUME UNCHANGED vars PROVE ForegroundIsStarted'
  BY <1>1, <1>14 DEF vars
<1>. QED
  BY <1>3, <1>5, <1>6, <1>7, <1>8, <1>9, <1>10, <1>11, <1>12, <1>13, <1>14,
     Zenon DEF Next

-----------------------------------------------------------------------------
(* Theorems *)

(***************************************************************************)
(* At every step of sh_run_pipeline it is known which descriptors are open *)
(* and which programs are still to be waited for.                          *)
(***************************************************************************)
THEOREM ShellInductive == Spec => []IInv
<1>1. Init => IInv
  BY InitTypes DEF Init, AtPrompt, NoProc, IInv, OpenIsKnown, Open, NextIsNew,
                   ForegroundIsStarted, PidsMatchStages
<1>2. IInv /\ [Next]_vars => IInv'
  BY TypesKept, StepsKept, ForegroundKept, Zenon DEF IInv, Steps
<1>. QED
  BY <1>1, <1>2, PTL DEF Spec

(***************************************************************************)
(* sh_run_pipeline closes every file and pipe end it opened before the     *)
(* next prompt, whichever of its open, pipe and run calls failed.          *)
(***************************************************************************)
THEOREM PromptHoldsNothing == Spec => []NothingHeldAtPrompt
<1>1. IInv => NothingHeldAtPrompt
  BY DEF IInv, OpenIsKnown, Open, NothingHeldAtPrompt
<1>. QED
  BY <1>1, ShellInductive, PTL

(***************************************************************************)
(* sh_run_pipeline waits for every program it started in the foreground:   *)
(* none runs on behind the prompt, none stays a zombie.                    *)
(***************************************************************************)
THEOREM PromptAfterForeground == Spec => []ForegroundReaped
<1>1. IInv => ForegroundReaped
  BY DEF IInv, ForegroundIsStarted, Started, ForegroundReaped
<1>. QED
  BY <1>1, ShellInductive, PTL
=============================================================================
