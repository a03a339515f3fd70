-------------------------------- MODULE McCopy --------------------------------
(***************************************************************************)
(* les11_my_mc: F5 copies a file in the main thread while progressUpdate,  *)
(* a second thread, draws a bar from progressNow and progressMax.  The two *)
(* meet in a condition variable without a predicate, whose mutex only the  *)
(* updater ever locks, and in a busy loop on progressMax.                  *)
(*                                                                         *)
(* progressNow += readed is a load and a store, since the updater writes   *)
(* progressNow too.  The condition variable is destroyed and initialised   *)
(* again after every copy; with a waiter on it that is undefined, and      *)
(* either blocks or leaves a waiter that no later signal reaches.  Sizes   *)
(* count blocks of COPY_BLOCK_SIZE; -1 is a read that failed.              *)
(***************************************************************************)
EXTENDS Integers

CONSTANTS Sizes,      \* sizes of the entries of a panel, in blocks
          Readable,   \* whether an entry may be read: directories may not
          BarWidth,   \* columns between the brackets of the bar
          MaxCopies   \* bound: times F5 is pressed

ASSUME McConstants == /\ Sizes \subseteq Nat /\ Readable \subseteq BOOLEAN
                      /\ BarWidth \in Nat \ {0} /\ MaxCopies \in Nat

VARIABLES main,           \* control point of the main thread
          updater,        \* control point of progressUpdate
          attached,       \* the condition variable knows its waiter
          isExit,
          progressMax,
          progressNow,
          oldPercentage,  \* columns of the bar drawn, as the updater counts them
          bar,            \* '#' characters in the window
          readable,       \* whether the selected entry can be read
          left,           \* blocks of it still to copy
          readed,         \* result of the last read
          loaded,         \* progressNow as loaded by +=
          copies,         \* times F5 was pressed
          emptied         \* history: an entry of size 0 has been copied

cond == <<attached, isExit>>
progress == <<progressMax, progressNow>>
drawn == <<oldPercentage, bar>>
file == <<readable, left, readed, loaded, copies, emptied>>
vars == <<main, updater, cond, progress, drawn, file>>

Init == /\ main = "getch" /\ updater = "start"
        /\ attached = FALSE /\ isExit = FALSE
        /\ progressMax = 0 /\ progressNow = 0
        /\ oldPercentage = 0 /\ bar = 0
        /\ readable = FALSE /\ left = 0 /\ readed = 0 /\ loaded = 0
        /\ copies = 0 /\ emptied = FALSE

MainGo(from, to) == main = from /\ main' = to
UpdaterGo(from, to) == updater = from /\ updater' = to

(* A signal or broadcast: at most one thread waits.                         *)
Notify == updater' = IF updater = "waiting" /\ attached THEN "woken" ELSE updater

-----------------------------------------------------------------------------
(* The main thread *)

(* A new window, open, stat, chdir; the size goes to progressMax.           *)
F5 == /\ copies < MaxCopies
      /\ MainGo("getch", "signal")
      /\ \E size \in Sizes : /\ progressMax' = size /\ left' = size
                            /\ emptied' = (emptied \/ size = 0)
      /\ readable' \in Readable
      /\ bar' = 0
      /\ copies' = copies + 1
      /\ UNCHANGED <<updater, cond, progressNow, oldPercentage, readed, loaded>>

Signal == /\ MainGo("signal", "read")
          /\ Notify
          /\ UNCHANGED <<cond, progress, drawn, file>>

(* read, then write, then the load of progressNow; 0 ends the loop.         *)
Read == /\ readed' = IF ~readable THEN -1 ELSE IF left > 0 THEN 1 ELSE 0
        /\ MainGo("read", IF readed' = 0 THEN "destroy" ELSE "add")
        /\ left' = IF readed' = 1 THEN left - 1 ELSE left
        /\ loaded' = progressNow
        /\ UNCHANGED <<updater, cond, progress, drawn, readable, copies, emptied>>

Add == /\ MainGo("add", IF readed > 0 THEN "read" ELSE "destroy")
       /\ progressNow' = loaded + readed
       /\ UNCHANGED <<updater, cond, progressMax, drawn, file>>

(* pthread_cond_destroy and pthread_cond_init.                              *)
Destroy == LET waits == updater = "waiting" /\ attached
           IN  /\ \/ MainGo("destroy", "spin") /\ attached' = FALSE
                  \/ waits /\ MainGo("destroy", "stuck") /\ UNCHANGED attached
               /\ UNCHANGED <<updater, isExit, progress, drawn, file>>

Spin == /\ progressMax <= 0
        /\ MainGo("spin", "getch")
        /\ UNCHANGED <<updater, cond, progress, drawn, file>>

CtrlX == /\ MainGo("getch", "broadcast")
         /\ isExit' = TRUE
         /\ UNCHANGED <<updater, attached, progress, drawn, file>>

Broadcast == /\ MainGo("broadcast", "join")
             /\ Notify
             /\ UNCHANGED <<cond, progress, drawn, file>>

Join == /\ updater = "ended"
        /\ MainGo("join", "exited")
        /\ UNCHANGED <<updater, cond, progress, drawn, file>>

-----------------------------------------------------------------------------
(* progressUpdate *)

Wait == /\ UpdaterGo("start", "waiting")
        /\ attached' = TRUE
        /\ UNCHANGED <<main, isExit, progress, drawn, file>>

(* Mutant: isExit is not looked at.                                         *)
WokenGoesOn == /\ UpdaterGo("woken", "while")
               /\ UNCHANGED <<main, cond, progress, drawn, file>>

Woken == /\ UpdaterGo("woken", IF isExit THEN "ended" ELSE "while")
         /\ UNCHANGED <<main, cond, progress, drawn, file>>

While == /\ UpdaterGo("while", IF progressNow < progressMax THEN "draw" ELSE "finish")
         /\ UNCHANGED <<main, cond, progress, drawn, file>>

(* progressNow is read afresh; the int conversion rounds towards zero.      *)
Columns == IF progressNow <= 0 \/ progressMax <= 0 THEN 0
           ELSE (progressNow * BarWidth) \div progressMax

Draw == /\ UpdaterGo("draw", "while")
        /\ oldPercentage' = Columns
        /\ bar' = IF Columns > oldPercentage THEN bar + (Columns - oldPercentage) ELSE bar
        /\ UNCHANGED <<main, cond, progress, file>>

(* Mutants: one of the two resets is missing.                               *)
FinishKeepsPercentage == /\ UpdaterGo("finish", "reset")
                         /\ progressMax' = 0
                         /\ UNCHANGED <<main, cond, progressNow, drawn, file>>

FinishKeepsMax == /\ UpdaterGo("finish", "reset")
                  /\ oldPercentage' = 0
                  /\ UNCHANGED <<main, cond, progress, bar, file>>

Finish == /\ UpdaterGo("finish", "reset")
          /\ oldPercentage' = 0
          /\ progressMax' = 0
          /\ UNCHANGED <<main, cond, progressNow, bar, file>>

(* Mutant: progressNow keeps the size of the last file.                     *)
ResetNot == /\ UpdaterGo("reset", "start")
            /\ UNCHANGED <<main, cond, progress, drawn, file>>

Reset == /\ UpdaterGo("reset", "start")
         /\ progressNow' = 0
         /\ UNCHANGED <<main, cond, progressMax, drawn, file>>

-----------------------------------------------------------------------------
Main == Signal \/ Read \/ Add \/ Destroy \/ Spin \/ Broadcast \/ Join
Updater == Wait \/ Woken \/ While \/ Draw \/ Finish \/ Reset

Next == F5 \/ CtrlX \/ Main \/ Updater

Spec == Init /\ [][Next]_vars

(* Both threads are scheduled; nobody has to press a key.                   *)
FairSpec == Spec /\ WF_vars(Main) /\ WF_vars(Updater)

-----------------------------------------------------------------------------
(* Properties *)

TypeOK ==
    /\ main \in {"getch", "signal", "read", "add", "destroy", "stuck", "spin",
                 "broadcast", "join", "exited"}
    /\ updater \in {"start", "waiting", "woken", "while", "draw", "finish", "reset", "ended"}
    /\ attached \in BOOLEAN /\ isExit \in BOOLEAN
    /\ progressMax \in Nat /\ progressNow \in Int
    /\ oldPercentage \in Nat /\ bar \in Nat
    /\ readable \in BOOLEAN /\ left \in Nat
    /\ readed \in {-1, 0, 1} /\ loaded \in Int
    /\ copies \in 0..MaxCopies /\ emptied \in BOOLEAN

(* The main thread takes the next key only when no copy is in progress,     *)
(* although the updater, not main, ends a copy, and may end an earlier one. *)
GetchMeansIdle == main = "getch" => progressMax = 0

(* The updater's count of columns is what it has drawn into the window that *)
(* main opened, and the bar stays between its brackets: for every sequence  *)
(* of copies without an empty entry.  After an empty one main does not wait *)
(* for the updater, whose late reset may then hit the next copy.            *)
BarFits == ~emptied => /\ bar <= BarWidth
                       /\ updater \in {"while", "draw"} => bar = oldPercentage

(* A copy starts from 0: no earlier copy leaves anything in progressNow,    *)
(* with the same exception.                                                 *)
StartsFromZero == (~emptied /\ main = "getch" /\ updater = "waiting") => progressNow = 0

(* F5 on a file that can be read, pressed while the updater waits, brings   *)
(* main back to the keyboard, or blocks it in the destruction of the        *)
(* condition variable when the updater is back in its wait before that.     *)
CopyReturns ==
    (main = "signal" /\ updater = "waiting" /\ attached /\ readable /\ progressNow = 0)
        ~> main \in {"getch", "stuck"}

(* Once on, the bar of such a file ends and the updater goes back to wait.  *)
BarEnds == (updater \in {"while", "draw"} /\ readable /\ ~emptied) ~> updater = "waiting"

(* CTRL + X ends the program when the updater is waiting at that moment.    *)
ExitWhenWaiting ==
    (main = "broadcast" /\ updater = "waiting" /\ attached) ~> main = "exited"

(* The two threads agree on where a copy is: keys are read between bars     *)
(* only, and the next bar starts from nothing.                              *)
InStep == TypeOK /\ GetchMeansIdle /\ StartsFromZero

(* A copy ends for both of them: main reads keys again and the bar stops.   *)
CopyEnds == CopyReturns /\ BarEnds

-----------------------------------------------------------------------------
(* What the program says on its screen, and does not do *)

(* "CTRL + X to exit": CTRL + X ends the program.                           *)
CtrlXExits == main = "broadcast" ~> main = "exited"
=============================================================================
