------------------------------ MODULE MCPrograms ------------------------------
(* The programs for one machine, one after another: a first step chooses    *)
(* one, and the behaviour is one of that program from then on.  The panels  *)
(* have three directories: a home, a directory d in it, and one that may    *)
(* not be entered; two files.                                               *)
EXTENDS McPanels, TLC

MCDirs == {"home", "sub", "closed"}
MCTree == "home" :> ("." :> "home" @@ ".." :> "home" @@ "d" :> "sub" @@ "c" :> "closed")
            @@ "sub" :> ("." :> "sub" @@ ".." :> "home")
            @@ "closed" :> ("." :> "closed" @@ ".." :> "home")
MCNames == <<".", "..", "c", "d", "f", "g">>
MCFiles == "home" :> {"f"} @@ "sub" :> {"g"} @@ "closed" :> {}

VARIABLES lesson

CONSTANTS Sizes, MaxCalls
VARIABLES chunk, brk, live, calls, tidy
alVars == <<chunk, brk, live, calls, tidy>>
AL == INSTANCE Allocator

CONSTANTS Threads, Calls
VARIABLES once, keys, mainAt, thread, specific, buff, called, allocated, text
teVars == <<once, keys, mainAt, thread, specific, buff, called, allocated, text>>
TE == INSTANCE ThreadErrno

CONSTANTS Lines, MaxPrograms, Units, Capacity
VARIABLES shell, line, number, forked, ends, stdin, pipe, program, hand, written, shown
piVars == <<shell, line, number, forked, ends, stdin, pipe, program, hand, written, shown>>
PI == INSTANCE Pipeline

CONSTANTS MaxChars, MaxInputs
VARIABLES step, typed, scan, start, command, run, longest, inputs
clVars == <<step, typed, scan, start, command, run, longest, inputs>>
CL == INSTANCE CommandLine WITH i <- scan

CONSTANTS Readers, Printers, LineLength, MaxCats
VARIABLES driver, transaction_complete, i, cat, sees, cats, echo, copied, interrupted, overlapped
drVars == <<driver, transaction_complete, i, cat, sees, cats, echo, copied, interrupted, overlapped>>
DR == INSTANCE Drivers
MCLineLength == [p \in Printers |-> IF p = CHOOSE q \in Printers : TRUE THEN 1 ELSE 2]

VARIABLES kind, module, hooked, attribute, inside, failed, oops
kmVars == <<kind, module, hooked, attribute, inside, failed, oops>>
KM == INSTANCE KernelModule

CONSTANTS Users, Addresses, Bytes, MaxOpers
VARIABLES ip, oper, arg, read, byte, opers, disturbed, torn
kpVars == <<ip, oper, arg, read, byte, opers, disturbed, torn>>
KP == INSTANCE KernelPing

CONSTANTS Rows, Cols, Beyond
VARIABLES key, tickX, tickY, y, x, row, saved, astray
edVars == <<key, tickX, tickY, y, x, row, saved, astray>>
ED == INSTANCE Editor WITH i <- row

ASSUME ProgramConstants == /\ Rows \in Nat \ {0} /\ Cols \in Nat \ {0} /\ Beyond \in Nat
                           /\ LineLength \in [Printers -> Nat]
                           /\ Bytes \in Nat \ {0} /\ Sizes \subseteq Nat /\ MaxCalls \in Nat
                           /\ Lines \in Nat /\ MaxPrograms \in Nat
                           /\ MaxChars \in Nat /\ MaxInputs \in Nat /\ Capacity \in Nat /\ MaxCats \in Nat
                           /\ Threads \in Nat /\ Calls \in Nat \ {0}

AtStart == /\ lesson = "none"
           /\ Init /\ AL!Init /\ TE!Init /\ PI!Init /\ CL!Init /\ DR!Init /\ KM!Init /\ KP!Init /\ ED!Init

Choose == /\ lesson = "none"
          /\ lesson' \in {"les10", "les11", "les12", "les14", "les15", "line", "les29", "loading", "les31"}
          /\ UNCHANGED <<vars, alVars, teVars, piVars, clVars, drVars, kmVars, kpVars, edVars>>

Les10 == lesson = "les10" /\ UNCHANGED <<lesson, vars, alVars, teVars, piVars, clVars, drVars, kmVars, kpVars>>
Les11 == lesson = "les11" /\ UNCHANGED <<lesson, alVars, teVars, piVars, clVars, drVars, kmVars, kpVars, edVars>>
Les12 == lesson = "les12" /\ UNCHANGED <<lesson, vars, teVars, piVars, clVars, drVars, kmVars, kpVars, edVars>>
Les14 == lesson = "les14" /\ UNCHANGED <<lesson, vars, alVars, piVars, clVars, drVars, kmVars, kpVars, edVars>>
Les15 == lesson = "les15" /\ UNCHANGED <<lesson, vars, alVars, teVars, clVars, drVars, kmVars, kpVars, edVars>>
Line == lesson = "line" /\ UNCHANGED <<lesson, vars, alVars, teVars, piVars, drVars, kmVars, kpVars, edVars>>
Les29 == lesson = "les29" /\ UNCHANGED <<lesson, vars, alVars, teVars, piVars, clVars, kmVars, kpVars, edVars>>
Loading == lesson = "loading" /\ UNCHANGED <<lesson, vars, alVars, teVars, piVars, clVars, drVars, kpVars, edVars>>
Les31 == lesson = "les31" /\ UNCHANGED <<lesson, vars, alVars, teVars, piVars, clVars, drVars, kmVars, edVars>>

Step == \/ Choose
        \/ Les10 /\ ED!Next
        \/ Les11 /\ Next
        \/ Les12 /\ AL!Next
        \/ Les14 /\ TE!Next
        \/ Les15 /\ PI!Next
        \/ Line /\ CL!Next
        \/ Les29 /\ DR!Next
        \/ Loading /\ KM!Next
        \/ Les31 /\ KP!Next

(* The fairness of each module, under its lesson.                           *)
all == <<lesson, vars, alVars, teVars, piVars, clVars, drVars, kmVars, kpVars, edVars>>

Fairness ==
    /\ WF_all(Les14 /\ (TE!Create \/ TE!Join))
    /\ \A t \in 1..Threads : WF_all(Les14 /\ TE!Run(t))
    /\ WF_all(Les15 /\ (PI!Fork \/ PI!Close \/ PI!Copy))
    /\ \A p \in PI!Programs : /\ WF_all(Les15 /\ stdin[p] # PI!Terminal /\ PI!Run(p))
                              /\ WF_all(Les15 /\ (PI!Write(p) \/ PI!Done(p)))
    /\ WF_all(Loading /\ (KM!Unregister \/ KM!Free))
    /\ \A h \in KM!Handlers : WF_all(Loading /\ KM!Leave(h))

Lessons == AtStart /\ [][Step]_all /\ Fairness

-----------------------------------------------------------------------------
(* What the modules say of their programs.                                  *)
TypesOK == TypeOK /\ AL!TypeOK /\ TE!TypeOK /\ PI!TypeOK /\ CL!TypeOK /\ DR!TypeOK
           /\ KM!TypeOK /\ KP!TypeOK /\ ED!TypeOK

TidyCallersApart == AL!TidyCallersApart

ThreadsServed == TE!ThreadsServed

(* The command interpreter runs what is typed and shows what that writes.   *)
ShellTrue == CL!RunsAsTyped /\ PI!ScreenTrue
PipelineDrains == PI!PipelineDrains

LoneUserServed == DR!LoneUserServed

UnloadEnds == KM!UnloadEnds

(* A kernel module that is there works for all of its users.                *)
ModulesServe == KM!LoadedOrGone /\ KP!AddressesWhole

EditorKeepsPlace == ED!EditorKeepsPlace
==============================================================================
