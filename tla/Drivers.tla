--------------------------------- MODULE Drivers ---------------------------------
(***************************************************************************)
(* les29: the read and write handlers of the character driver, the proc    *)
(* file and the sysfs attribute.  They keep what belongs to one reader or  *)
(* writer in static variables, so all of them share it: the flag that      *)
(* makes a read the last one, and the index of the copying loop.           *)
(***************************************************************************)
EXTENDS Naturals

CONSTANTS Readers,         \* cat on the file
          Printers,        \* echo into it
          LineLength,      \* of each printer's line, without the newline
          MaxCats          \* bound: cats of a reader

VARIABLES driver,                 \* which of the files is there
          transaction_complete,
          i,                      \* the index, static in driver_write
          cat, sees, cats,        \* of each reader: control point, the flag it saw, cats done
          echo, copied,           \* of each printer; what it copied
          interrupted,            \* history: a cat ended early
          overlapped              \* history: printers that ran beside another

vars == <<driver, transaction_complete, i, cat, sees, cats, echo, copied, interrupted, overlapped>>

Init == /\ driver = "none" /\ transaction_complete = 0 /\ i = 0
        /\ cat = [r \in Readers |-> "none"] /\ sees = [r \in Readers |-> 0]
        /\ cats = [r \in Readers |-> 0]
        /\ echo = [p \in Printers |-> "none"] /\ copied = [p \in Printers |-> {}]
        /\ interrupted = FALSE /\ overlapped = {}

Load == /\ driver = "none"
        /\ driver' \in {"chrdev", "proc", "sysfs"}
        /\ UNCHANGED <<transaction_complete, i, cat, sees, cats, echo, copied, interrupted,
                       overlapped>>

-----------------------------------------------------------------------------
(* Reading *)

UNCHANGED_Printers == UNCHANGED <<driver, i, echo, copied, overlapped>>

OpenCat(r) == /\ cat[r] = "none" /\ driver # "none" /\ cats[r] < MaxCats
              /\ cat' = [cat EXCEPT ![r] = "read"]
              /\ cats' = [cats EXCEPT ![r] = @ + 1]
              /\ UNCHANGED <<transaction_complete, sees, interrupted>> /\ UNCHANGED_Printers

(* driver_read tests the flag and sets it later.                            *)
TestFlag(r) == /\ cat[r] = "read"
               /\ sees' = [sees EXCEPT ![r] = transaction_complete]
               /\ cat' = [cat EXCEPT ![r] = "set"]
               /\ UNCHANGED <<transaction_complete, cats, interrupted>> /\ UNCHANGED_Printers

(* cat reads until it gets nothing.  sysfs calls the handler once a cat.    *)
SetFlagTo(r, value) ==
    /\ cat[r] = "set"
    /\ transaction_complete' = value
    /\ cat' = [cat EXCEPT ![r] = IF sees[r] = 1 \/ driver = "sysfs" THEN "none" ELSE "read"]
    /\ UNCHANGED <<sees, cats, interrupted>> /\ UNCHANGED_Printers

(* Mutant: the flag is not taken back.                                      *)
SetFlagOnce(r) == SetFlagTo(r, 1)

SetFlag(r) == SetFlagTo(r, 1 - sees[r])

Interrupt(r) == /\ cat[r] = "read"
                /\ cat' = [cat EXCEPT ![r] = "none"]
                /\ interrupted' = TRUE
                /\ UNCHANGED <<transaction_complete, sees, cats>> /\ UNCHANGED_Printers

-----------------------------------------------------------------------------
(* Writing *)

UNCHANGED_Readers == UNCHANGED <<driver, transaction_complete, cat, sees, cats, interrupted>>

Copying == {p \in Printers : echo[p] = "copy"}

StartCopy(p) ==
    /\ echo[p] = "none" /\ driver # "none"
    /\ i' = 0
    /\ echo' = [echo EXCEPT ![p] = "copy"]
    /\ overlapped' = overlapped \cup (IF Copying = {} THEN {} ELSE Copying \cup {p})
    /\ UNCHANGED copied /\ UNCHANGED_Readers

(* One turn of the loop.  When another printer has moved the index past the *)
(* newline the loop runs on in whatever memory follows.                     *)
CopyCharacter(p) ==
    /\ echo[p] = "copy"
    /\ IF i = LineLength[p]
       THEN /\ echo' = [echo EXCEPT ![p] = "printed"] /\ i' = i + 1
            /\ UNCHANGED copied
       ELSE IF i > LineLength[p]
       THEN echo' = [echo EXCEPT ![p] = "past the end"] /\ UNCHANGED <<i, copied>>
       ELSE /\ copied' = [copied EXCEPT ![p] = @ \cup {i}] /\ i' = i + 1
            /\ UNCHANGED echo
    /\ UNCHANGED overlapped /\ UNCHANGED_Readers

Next == \/ Load
        \/ \E r \in Readers : OpenCat(r) \/ TestFlag(r) \/ SetFlag(r) \/ Interrupt(r)
        \/ \E p \in Printers : StartCopy(p) \/ CopyCharacter(p)

Spec == Init /\ [][Next]_vars

-----------------------------------------------------------------------------
(* Properties *)

TypeOK == /\ driver \in {"none", "chrdev", "proc", "sysfs"}
          /\ transaction_complete \in {0, 1} /\ i \in Nat
          /\ cat \in [Readers -> {"none", "read", "set"}] /\ sees \in [Readers -> {0, 1}]
          /\ cats \in [Readers -> 0..MaxCats]
          /\ echo \in [Printers -> {"none", "copy", "printed", "past the end"}]
          /\ overlapped \subseteq Printers

Resting == \A r \in Readers : cat[r] = "none"

(* Cats of the driver and of the proc file that overlap may each get the    *)
(* line twice or not at all, but when the last of them has ended the next   *)
(* one starts afresh, unless one was interrupted.                           *)
RestsAtZero == Resting /\ driver # "sysfs" /\ ~interrupted => transaction_complete = 0

(* A writer that ran alone has printed its whole line, and only overlapping *)
(* writers run past the end of theirs.                                      *)
LoneWritePrinted ==
    \A p \in Printers \ overlapped :
        /\ echo[p] # "past the end"
        /\ echo[p] = "printed" => copied[p] = 0..(LineLength[p] - 1)

(* Users that do not overlap do not notice that the module keeps one flag   *)
(* and one index for all of them.                                           *)
LoneUserServed == RestsAtZero /\ LoneWritePrinted
=============================================================================
