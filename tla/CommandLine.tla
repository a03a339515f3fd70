------------------------------- MODULE CommandLine -------------------------------
(***************************************************************************)
(* les15, how the command interpreter cuts a line into programs and        *)
(* arguments.  All parts are copied into one buffer, command, and the      *)
(* terminator goes to the place the part ends at in the line, not in the   *)
(* buffer: what an earlier part left there may become part of a name.  The *)
(* buffer is fresh memory of the process, all zeros.  What is done with    *)
(* the programs is Pipeline.                                               *)
(***************************************************************************)
EXTENDS Naturals, Sequences, SequencesExt, FiniteSets

CONSTANTS MaxChars,      \* bound: of a line; 254 in the code
          MaxInputs      \* bound: lines typed

VARIABLES step,          \* "getline", "cut", "run" or "quit"
          typed,         \* buff, with its newline
          i, start,      \* the loop over it, counted from 1
          command,       \* the buffer
          run,           \* commands and args; fits: history, no part before was longer
          longest,       \* history: of the parts so far
          inputs

clVars == <<step, typed, i, start, command, run, longest, inputs>>

Characters == {"a", "blank", "bar"}
Size == MaxChars + 2

Init == /\ step = "getline" /\ typed = <<>> /\ i = 1 /\ start = 1
        /\ command = [k \in 1..Size |-> "nul"]
        /\ run = <<>> /\ longest = 0 /\ inputs = 0

-----------------------------------------------------------------------------
(* Strings *)

Least(S) == CHOOSE k \in S : \A m \in S : k <= m
Greatest(S) == CHOOSE k \in S : \A m \in S : k >= m

(* The first place from n on that does not hold a blank.                    *)
SkipBlanks(s, n) == Least({Len(s) + 1} \cup {k \in n..Len(s) : s[k] # "blank"})

(* The first blank from n on, or the end.                                   *)
FirstBlank(s, n) == Least({Len(s) + 1} \cup {k \in n..Len(s) : s[k] = "blank"})

Trimmed(s) == SubSeq(s, 1, Greatest({0} \cup {k \in 1..Len(s) : s[k] # "blank"}))

(* The string in the buffer.                                                *)
Content(buffer) == SubSeq(buffer, 1, Least({k \in 1..Size : buffer[k] = "nul"}) - 1)

(* Where the argument of a command begins: behind the blanks that follow    *)
(* its first word.                                                          *)
Argument(text) == SkipBlanks(text, FirstBlank(text, SkipBlanks(text, 1)))

-----------------------------------------------------------------------------
(* my_getline; a line that reads quit ends the program.                     *)
Getline == /\ step = "getline" /\ inputs < MaxInputs
           /\ step' = "cut" /\ inputs' = inputs + 1
           /\ \E characters \in SeqOf(Characters, MaxChars) : typed' = Append(characters, "newline")
           /\ i' = 1 /\ start' = 1 /\ run' = <<>>
           /\ UNCHANGED <<command, longest>>

Quit == /\ step = "getline" /\ step' = "quit"
        /\ UNCHANGED <<typed, i, start, command, run, longest, inputs>>

(* The part that ends at e, over what the buffer held.                      *)
CopyPart(e) == [k \in 1..Size |-> IF k <= e - start THEN typed[start + k - 1]
                                  ELSE IF k = e THEN "nul" ELSE command[k]]

(* Mutant: the next part has the blanks in front of it.                     *)
BehindBar(e) == e + 1

Behind(e) == SkipBlanks(typed, e + 1)

(* parse_args ends the argument and parse_com the program, in the buffer.   *)
(* The character behind the bar and its blanks is not looked at.            *)
CutPart ==
    /\ step = "cut" /\ i <= Len(typed)
    /\ LET e == Least({k \in i..Len(typed) : typed[k] \in {"bar", "newline"}})
           text == Content(CopyPart(e))
           arg == Trimmed(SubSeq(text, Argument(text), Len(text)))
       IN  /\ run' = Append(run, [program |-> SubSeq(text, 1, FirstBlank(text, 1) - 1),
                                  arg |-> arg, fits |-> e - start >= longest])
           /\ command' = [k \in 1..Size |->
                  IF \/ k = FirstBlank(text, 1)
                     \/ /\ FirstBlank(text, SkipBlanks(text, 1)) <= Len(text)
                        /\ k = Argument(text) + Len(arg)
                  THEN "nul" ELSE CopyPart(e)[k]]
           /\ longest' = Greatest({longest, e - start})
           /\ start' = Behind(e) /\ i' = Behind(e) + 1
    /\ UNCHANGED <<step, typed, inputs>>

(* The line is cut; recursive_call runs it, and the next one is read.       *)
RecursiveCall == /\ step = "cut" /\ i > Len(typed) /\ step' = "run"
                 /\ UNCHANGED <<typed, i, start, command, run, longest, inputs>>

Return == /\ step = "run" /\ step' = "getline"
          /\ typed' = <<>> /\ i' = 1 /\ start' = 1 /\ run' = <<>>
          /\ UNCHANGED <<command, longest, inputs>>

Next == Getline \/ Quit \/ CutPart \/ RecursiveCall \/ Return

Spec == Init /\ [][Next]_clVars

-----------------------------------------------------------------------------
(* Properties *)

TypeOK == /\ step \in {"getline", "cut", "run", "quit"}
          /\ command \in [1..Size -> Characters \cup {"nul"}]
          /\ start \in 1..(MaxChars + 2) /\ i \in 1..(MaxChars + 3)
          /\ longest \in 0..MaxChars /\ inputs \in 0..MaxInputs

Ends == {k \in 1..Len(typed) : typed[k] \in {"bar", "newline"}}
Typed(e) == SubSeq(typed, 1 + Greatest({0} \cup {k \in Ends : k < e}), e - 1)
WellFormed == typed[1] # "blank" /\ \A e \in Ends : Trimmed(Typed(e)) # <<>>

(* The programs that run are those on the line, each with the rest of its   *)
(* part for its argument: when every bar has a program on both sides, the   *)
(* line does not begin with a blank, and no part before, of this line or an *)
(* earlier one, was longer.                                                 *)
RunsAsTyped == step = "run" /\ WellFormed =>
    /\ Len(run) = Cardinality(Ends)
    /\ \A e \in Ends :
         LET part == run[Cardinality({k \in Ends : k <= e})]
             text == SubSeq(Typed(e), SkipBlanks(Typed(e), 1), Len(Typed(e)))
             rest == SubSeq(text, FirstBlank(text, 1), Len(text))
         IN  part.fits =>
               /\ part.program = SubSeq(text, 1, FirstBlank(text, 1) - 1)
               /\ part.arg = Trimmed(SubSeq(rest, SkipBlanks(rest, 1), Len(rest)))
=============================================================================
