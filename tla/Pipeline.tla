-------------------------------- MODULE Pipeline --------------------------------
(***************************************************************************)
(* les15, the pipelines of the command interpreter: the shell forks the    *)
(* programs of a line, each writing into a pipe that becomes the shell's   *)
(* own stdin before it forks the next one, and copies the last pipe to the *)
(* terminal.  It never closes the other read ends, so no program is ever   *)
(* stopped by SIGPIPE.  The programs, and what users type to them, are the *)
(* environment.                                                            *)
(***************************************************************************)
EXTENDS Naturals, Sequences

CONSTANTS Lines,         \* bound: lines typed at the prompt
          MaxPrograms,   \* bound: programs in a line
          Units,         \* what echo writes
          Capacity       \* of a pipe

Shell == <<0, 0>>
Terminal == <<0, 1>>
Programs == (1..Lines) \X (1..MaxPrograms)

VARIABLES shell,     \* its control point
          line,      \* programs of the line, and the line's number
          number,
          forked,    \* programs of this line forked so far
          ends,      \* pipes whose write end a process has
          stdin,     \* of each process: the terminal, or the pipe of a program
          pipe,      \* what is in the pipe a program writes to
          program,   \* what it runs
          hand,      \* units it has read and not written
          written, shown

vars == <<shell, line, number, forked, ends, stdin, pipe, program, hand, written, shown>>

Init == /\ shell = "prompt" /\ line = <<>> /\ number = 0 /\ forked = 0
        /\ ends = [p \in Programs \cup {Shell} |-> {}]
        /\ stdin = [p \in Programs \cup {Shell} |-> Terminal]
        /\ pipe = [p \in Programs |-> 0]
        /\ program = [p \in Programs |-> "none"]
        /\ hand = [p \in Programs |-> 0] /\ written = [p \in Programs |-> 0]
        /\ shown = 0

-----------------------------------------------------------------------------
(* The shell *)

UNCHANGED_Programs == UNCHANGED <<hand, written>>

(* A line has programs in it; one may be a name that execlp does not find.  *)
Getline == /\ shell = "prompt" /\ number < Lines
           /\ line' \in UNION {[1..n -> {"echo", "head", "cat", "missing"}] : n \in 1..MaxPrograms}
           /\ number' = number + 1 /\ forked' = 0 /\ shown' = 0
           /\ shell' = "fork"
           /\ UNCHANGED <<ends, stdin, pipe, program>> /\ UNCHANGED_Programs

Last == <<number, Len(line)>>

(* pipe and fork: the child has a write end too, and whatever the shell has.*)
Fork == /\ shell = "fork"
        /\ LET p == <<number, forked + 1>> IN
             /\ program' = [program EXCEPT ![p] = line[forked + 1]]
             /\ ends' = [ends EXCEPT ![p] = ends[Shell] \cup {p}, ![Shell] = @ \cup {p}]
             /\ stdin' = [stdin EXCEPT ![p] = stdin[Shell]]
        /\ forked' = forked + 1
        /\ shell' = "close"
        /\ UNCHANGED <<line, number, pipe, shown>> /\ UNCHANGED_Programs

CloseAnd(kept, in) ==
    /\ shell = "close"
    /\ ends' = [ends EXCEPT ![Shell] = @ \cap kept]
    /\ stdin' = [stdin EXCEPT ![Shell] = in]
    /\ shell' = IF forked = Len(line) THEN "copy" ELSE "fork"
    /\ UNCHANGED <<line, number, forked, pipe, program, shown>> /\ UNCHANGED_Programs

(* Mutant: the write end stays open.                                        *)
CloseNothing == CloseAnd(Programs, <<number, forked>>)
Close == CloseAnd(Programs \ {<<number, forked>>}, <<number, forked>>)

(* A read finds the end of a pipe when it is empty and nobody can write it. *)
AtEnd(p) == pipe[p] = 0 /\ \A q \in Programs \cup {Shell} : p \notin ends[q]

(* Mutant: the shell stops when the pipe is empty.                          *)
CopyWhatIsThere == /\ shell = "copy"
                   /\ IF pipe[Last] > 0
                      THEN /\ pipe' = [pipe EXCEPT ![Last] = @ - 1]
                           /\ shown' = shown + 1 /\ UNCHANGED shell
                      ELSE shell' = "prompt" /\ UNCHANGED <<pipe, shown>>
                   /\ UNCHANGED <<line, number, forked, ends, stdin, program>>
                   /\ UNCHANGED_Programs

Copy == /\ shell = "copy"
        /\ \/ /\ pipe[Last] > 0
              /\ pipe' = [pipe EXCEPT ![Last] = @ - 1]
              /\ shown' = shown + 1 /\ UNCHANGED shell
           \/ /\ AtEnd(Last)
              /\ shell' = "prompt" /\ UNCHANGED <<pipe, shown>>
        /\ UNCHANGED <<line, number, forked, ends, stdin, program>> /\ UNCHANGED_Programs

-----------------------------------------------------------------------------
(* The programs *)

UNCHANGED_Shell == UNCHANGED <<shell, line, number, forked, stdin, shown>>

Exit(p) == /\ program' = [program EXCEPT ![p] = "exited"]
           /\ ends' = [ends EXCEPT ![p] = {}]

Reads(p) == program[p] = "cat" \/ (program[p] = "head" /\ written[p] = 0)

Read(p) == /\ Reads(p) /\ hand[p] = 0
           /\ IF stdin[p] = Terminal THEN written[p] < Units /\ UNCHANGED pipe
              ELSE /\ pipe[stdin[p]] > 0
                   /\ pipe' = [pipe EXCEPT ![stdin[p]] = @ - 1]
           /\ hand' = [hand EXCEPT ![p] = 1]
           /\ UNCHANGED <<ends, program, written>> /\ UNCHANGED_Shell

ReadEnd(p) == /\ Reads(p) /\ hand[p] = 0
              /\ IF stdin[p] = Terminal THEN TRUE ELSE AtEnd(stdin[p])
              /\ Exit(p)
              /\ UNCHANGED <<pipe, hand, written>> /\ UNCHANGED_Shell

Write(p) == /\ IF program[p] = "echo" THEN written[p] < Units ELSE hand[p] > 0
            /\ pipe[p] < Capacity
            /\ pipe' = [pipe EXCEPT ![p] = @ + 1]
            /\ written' = [written EXCEPT ![p] = @ + 1]
            /\ hand' = [hand EXCEPT ![p] = 0]
            /\ UNCHANGED <<ends, program>> /\ UNCHANGED_Shell

Done(p) == /\ \/ program[p] = "echo" /\ written[p] = Units
              \/ program[p] = "head" /\ written[p] = 1
              \/ program[p] = "missing"
           /\ Exit(p)
           /\ UNCHANGED <<pipe, hand, written>> /\ UNCHANGED_Shell

Run(p) == Read(p) \/ ReadEnd(p) \/ Write(p) \/ Done(p)

Next == \/ Getline \/ Fork \/ Close \/ Copy
        \/ \E p \in Programs : Run(p)

Fairness == /\ WF_vars(Fork \/ Close \/ Copy)
            /\ \A p \in Programs : WF_vars(stdin[p] # Terminal /\ Run(p)) /\ WF_vars(Write(p) \/ Done(p))

Spec == Init /\ [][Next]_vars /\ Fairness

-----------------------------------------------------------------------------
(* Properties *)

TypeOK == /\ shell \in {"prompt", "fork", "close", "copy"}
          /\ number \in 0..Lines /\ forked \in 0..MaxPrograms
          /\ \A p \in Programs \cup {Shell} : ends[p] \subseteq Programs
          /\ \A p \in Programs : /\ pipe[p] \in 0..Capacity /\ hand[p] \in {0, 1}
                                 /\ program[p] \in {"none", "echo", "head", "cat", "missing", "exited"}

(* The prompt comes back when the last program has ended, and not before    *)
(* all it wrote is on the screen.                                           *)
PromptReturns == \A n \in 1..MaxPrograms :
    shell = "copy" /\ Len(line) = n /\ program[<<number, n>>] = "exited" ~> shell = "prompt"

AllShown == shell = "prompt" /\ number > 0 => shown = written[Last]

(* Only the first program of the first line reads the terminal; later lines *)
(* start at the end of a pipe, and their first cat or head shows nothing.   *)
LaterLinesReadNothing ==
    \A p \in Programs : p[1] > 1 /\ p[2] = 1 /\ Reads(p) => written[p] = 0 /\ hand[p] = 0

(* A program that does not read the terminal ends, unless one behind it     *)
(* stopped reading: its pipe stays open in the shell and fills up.          *)
DrainedProgramsEnd ==
    \A p \in Programs :
        (program[p] = "echo" /\ \A q \in Programs : q[1] = p[1] /\ q[2] > p[2] =>
                                                     program[q] \in {"none", "cat"})
        ~> \/ program[p] = "exited"
           \/ \E q \in Programs : q[1] = p[1] /\ q[2] > p[2] /\ program[q] \in {"echo", "head", "missing"}

(* What the programs of a line print is what reaches the screen.            *)
ScreenTrue == AllShown /\ LaterLinesReadNothing

(* A line comes to its end, and with it whoever still has a reader.         *)
PipelineDrains == PromptReturns /\ DrainedProgramsEnd
=============================================================================
