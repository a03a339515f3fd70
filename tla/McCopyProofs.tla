------------------------------ MODULE McCopyProofs ------------------------------
(***************************************************************************)
(* Proofs about McCopy for entries of any size, bars of any width and any  *)
(* number of copies.                                                       *)
(*                                                                         *)
(* While no empty entry has been copied the two threads are in one of      *)
(* three phases: the updater rests and main is between two copies; the     *)
(* updater is at work on the copy main is in (Working); or main's signal   *)
(* was lost, and then main never leaves the copy and the updater never     *)
(* leaves its wait (Rests).  Accounts says what is in progressNow, Drawing *)
(* what is in the bar.                                                     *)
(***************************************************************************)
EXTENDS McCopy, TLAPS

Resting == {"reset", "start", "waiting"}
Working == {"woken", "while", "draw", "finish"}
Copying == {"read", "add", "destroy", "spin", "stuck"}
Leaving == {"broadcast", "join", "exited"}

(* isExit is set on the way out, and only then.                             *)
Exits == /\ isExit <=> main \in Leaving
         /\ updater = "ended" => isExit

(* Nothing is in progress before a copy and after the last one.             *)
Idle == main \in {"getch"} \cup Leaving => progressMax = 0

(* The updater works on the copy that main is in, and rests between two.    *)
Rests == /\ main = "signal" => progressMax > 0 /\ left = progressMax /\ bar = 0
         /\ updater \in Working =>
              \/ main \in Copying /\ progressMax > 0
              \/ main \in Leaving /\ updater = "woken"

(* A bar that ended has seen the whole entry: main will not add to it.      *)
Ended == progressMax = 0 /\ main \in Copying => /\ main # "add"
                                                /\ main = "read" => readable /\ left = 0

(* What progressNow counts, between two copies and while the updater works. *)
Accounts ==
    /\ updater \in {"start", "waiting"} /\ (progressMax = 0 \/ main = "signal") => progressNow = 0
    /\ updater \in Working /\ main \in Copying =>
         /\ main = "add" => loaded = progressNow /\ readed = IF readable THEN 1 ELSE -1
         /\ IF readable
            THEN /\ progressNow >= 0
                 /\ progressNow + left + (IF main = "add" THEN 1 ELSE 0) = progressMax
                 /\ main \in {"destroy", "spin", "stuck"} => left = 0
            ELSE /\ progressNow <= 0
                 /\ main \in {"read", "add"} => progressNow = 0
    /\ updater = "finish" => progressNow >= progressMax

(* What the updater has drawn is what it would draw now, or less.           *)
Drawing == /\ updater \notin {"while", "draw", "finish"} => oldPercentage = 0
           /\ updater = "woken" /\ main \in Copying => bar = 0
           /\ bar <= BarWidth
           /\ updater \in {"while", "draw"} => bar = oldPercentage /\ oldPercentage <= Columns

IInv == /\ TypeOK /\ Exits /\ Idle
        /\ ~emptied => Rests /\ Ended /\ Accounts /\ Drawing

-----------------------------------------------------------------------------
(* Columns *)

(* What division of natural numbers does, and that it is monotonic.         *)
LEMMA Quotient ==
    ASSUME NEW a \in Nat, NEW m \in Nat \ {0}
    PROVE  /\ a \div m \in Nat
           /\ m * (a \div m) <= a
           /\ a < m * ((a \div m) + 1)
OBVIOUS

LEMMA QuotientGrows ==
    ASSUME NEW a \in Nat, NEW b \in Nat, NEW m \in Nat \ {0}, a <= b
    PROVE  a \div m <= b \div m
<1> DEFINE p == a \div m
           q == b \div m
<1>1. p \in Nat /\ q \in Nat /\ m * p <= a /\ b < m * (q + 1)
  BY Quotient
<1> HIDE DEF p, q
<1>2. m * p < m * (q + 1)
  BY <1>1
<1>3. ASSUME p > q PROVE FALSE
  <2>1. p >= q + 1
    BY <1>1, <1>3
  <2>2. m * p >= m * (q + 1)
    BY <1>1, <2>1
  <2> QED
    BY <1>1, <1>2, <2>2
<1> QED
  BY <1>1, <1>3 DEF p, q

(* The columns for n of max blocks.                                         *)
ColumnsOf(n, max) == IF n <= 0 \/ max <= 0 THEN 0 ELSE (n * BarWidth) \div max

LEMMA ColumnsGrow ==
    ASSUME NEW n \in Int, NEW k \in Int, NEW max \in Nat, n <= k, n >= 0
    PROVE  /\ ColumnsOf(n, max) \in Nat
           /\ ColumnsOf(n, max) <= ColumnsOf(k, max)
           /\ k <= max => ColumnsOf(k, max) <= BarWidth
<1> USE McConstants DEF ColumnsOf
<1>1. CASE max = 0
  BY <1>1
<1>2. CASE max > 0
  <2>1. n * BarWidth \in Nat /\ k * BarWidth \in Nat /\ n * BarWidth <= k * BarWidth
    OBVIOUS
  <2>2. /\ (n * BarWidth) \div max \in Nat
        /\ (n * BarWidth) \div max <= (k * BarWidth) \div max
    BY <1>2, <2>1, Quotient, QuotientGrows
  <2>3. ASSUME k <= max PROVE (k * BarWidth) \div max <= BarWidth
    <3>1. k * BarWidth <= max * BarWidth /\ max * BarWidth \in Nat
      BY <2>3
    <3>2. (k * BarWidth) \div max <= (max * BarWidth) \div max
      BY <1>2, <2>1, <3>1, QuotientGrows
    <3>3. (max * BarWidth) \div max = BarWidth
      BY <1>2
    <3> QED
      BY <3>2, <3>3
  <2> QED
    BY <1>2, <2>2, <2>3
<1> QED
  BY <1>1, <1>2

LEMMA ColumnsAre == Columns = ColumnsOf(progressNow, progressMax)
BY DEF Columns, ColumnsOf

-----------------------------------------------------------------------------
(* Columns of an unchanged progress.                                        *)
LEMMA ColumnsStay == ASSUME UNCHANGED progress PROVE Columns' = Columns
BY DEF progress, Columns

LEMMA ColumnsNatural == TypeOK => Columns \in Nat
<1> SUFFICES ASSUME TypeOK PROVE Columns \in Nat
  OBVIOUS
<1>1. progressNow \in Int /\ progressMax \in Nat
  BY DEF TypeOK
<1>2. CASE progressNow <= 0 \/ progressMax <= 0
  BY <1>2 DEF Columns
<1>3. CASE progressNow > 0 /\ progressMax > 0
  <2>1. progressNow * BarWidth \in Nat
    BY <1>1, <1>3, McConstants
  <2> QED
    BY <1>1, <1>3, <2>1, Quotient DEF Columns
<1> QED
  BY <1>1, <1>2, <1>3

(* A notification finds the updater waiting, or nobody.                     *)
LEMMA Notified ==
    ASSUME attached \in BOOLEAN, Notify
    PROVE  updater' = updater \/ (updater = "waiting" /\ updater' = "woken")
<1>1. ASSUME updater = "waiting", attached PROVE updater' = "woken"
  BY <1>1 DEF Notify
<1>2. ASSUME ~(updater = "waiting" /\ attached) PROVE updater' = updater
  BY <1>2 DEF Notify
<1> QED
  BY <1>1, <1>2

-----------------------------------------------------------------------------
LEMMA InitIInv == Init => IInv
<1> SUFFICES ASSUME Init PROVE IInv
  OBVIOUS
<1>1. TypeOK
  <2>1. /\ attached \in BOOLEAN /\ isExit \in BOOLEAN /\ readable \in BOOLEAN
        /\ emptied \in BOOLEAN
    BY Zenon DEF Init
  <2>2. /\ progressMax \in Nat /\ progressNow \in Int /\ oldPercentage \in Nat /\ bar \in Nat
        /\ left \in Nat /\ readed \in {-1, 0, 1} /\ loaded \in Int /\ copies \in 0..MaxCopies
    BY McConstants DEF Init
  <2> QED
    BY <2>1, <2>2 DEF Init, TypeOK
<1>2. Exits /\ Idle /\ Rests /\ Ended /\ Accounts
  BY DEF Init, Exits, Idle, Rests, Ended, Accounts, Working, Copying, Leaving
<1>3. Drawing
  BY McConstants DEF Init, Drawing
<1> QED
  BY <1>1, <1>2, <1>3 DEF IInv

(* A copy begins while the updater rests.                                   *)
LEMMA F5IInv == IInv /\ F5 => IInv'
<1> SUFFICES ASSUME IInv, F5 PROVE IInv'
  OBVIOUS
<1>1. PICK size \in Sizes : progressMax' = size /\ left' = size /\ emptied' = (emptied \/ size = 0)
  BY DEF F5
<1>2. /\ main = "getch" /\ main' = "signal" /\ bar' = 0 /\ copies' = copies + 1
      /\ copies < MaxCopies /\ readable' \in Readable
      /\ UNCHANGED <<updater, attached, isExit, progressNow, oldPercentage, readed, loaded>>
  BY DEF F5, MainGo, cond
<1>3. size \in Nat /\ Readable \subseteq BOOLEAN /\ MaxCopies \in Nat
  BY McConstants
<1>4. TypeOK'
  BY <1>1, <1>2, <1>3 DEF IInv, TypeOK
<1>5. Exits' /\ Idle'
  BY <1>2 DEF IInv, Exits, Idle, Leaving
<1>6. ASSUME ~emptied' PROVE Rests' /\ Ended' /\ Accounts' /\ Drawing'
  <2>1. ~emptied /\ size # 0
    BY <1>1, <1>6, Zenon
  <2>2. Rests /\ Accounts /\ Drawing /\ progressMax = 0
    BY <1>2, <2>1 DEF IInv, Idle
  <2>3. updater \notin Working /\ size > 0
    BY <1>2, <1>3, <2>1, <2>2 DEF Rests, Copying, Leaving
  <2>4. Rests' /\ Ended' /\ Accounts'
    BY <1>1, <1>2, <2>2, <2>3 DEF Rests, Ended, Accounts, Working, Copying, Leaving
  <2>5. Drawing'
    BY <1>2, <2>2, <2>3, McConstants DEF Drawing, Working
  <2> QED
    BY <2>4, <2>5
<1> QED
  BY <1>4, <1>5, <1>6 DEF IInv

(* A signal wakes the updater for this copy, or is lost.                    *)
LEMMA SignalIInv == IInv /\ Signal => IInv'
<1> SUFFICES ASSUME IInv, Signal PROVE IInv'
  OBVIOUS
<1>1. /\ main = "signal" /\ main' = "read"
      /\ updater' = updater \/ (updater = "waiting" /\ updater' = "woken")
      /\ UNCHANGED <<cond, progress, drawn, file>>
  BY Notified DEF Signal, MainGo, IInv, TypeOK
<1>2. TypeOK' /\ Exits' /\ Idle'
  BY <1>1 DEF IInv, TypeOK, Exits, Idle, Leaving, cond, progress, drawn, file
<1>3. ASSUME ~emptied' PROVE Rests' /\ Ended' /\ Accounts' /\ Drawing'
  <2>1. Rests /\ Accounts /\ Drawing /\ TypeOK
    BY <1>1, <1>3 DEF IInv, file
  <2>2. updater \notin Working /\ progressMax > 0
    BY <1>1, <2>1 DEF Rests, Copying, Leaving
  <2>3. Rests' /\ Ended'
    BY <1>1, <2>1, <2>2 DEF Rests, Ended, Working, Copying, Leaving, progress
  <2>4. Accounts'
    BY <1>1, <2>1, <2>2 DEF TypeOK, Rests, Accounts, Working, Copying, progress, file
  <2>5. Drawing'
    BY <1>1, <2>1, <2>2 DEF Rests, Drawing, Working, Copying, drawn
  <2> QED
    BY <2>3, <2>4, <2>5
<1> QED
  BY <1>2, <1>3 DEF IInv

(* A read takes a block of the file, or finds its end.                      *)
LEMMA ReadIInv == IInv /\ Read => IInv'
<1> SUFFICES ASSUME IInv, Read PROVE IInv'
  OBVIOUS
<1>1. /\ main = "read" /\ loaded' = progressNow
      /\ UNCHANGED <<updater, attached, isExit, progressMax, progressNow, oldPercentage, bar,
                     readable, copies, emptied>>
  BY DEF Read, MainGo, cond, progress, drawn
<1>2. TypeOK /\ Exits /\ Idle
  BY DEF IInv
<1>3. \/ ~readable /\ readed' = -1 /\ main' = "add" /\ left' = left
      \/ readable /\ left > 0 /\ readed' = 1 /\ main' = "add" /\ left' = left - 1
      \/ readable /\ left = 0 /\ readed' = 0 /\ main' = "destroy" /\ left' = left
  <2>1. CASE ~readable
    BY <2>1 DEF Read, MainGo
  <2>2. CASE readable /\ left > 0
    BY <2>2 DEF Read, MainGo
  <2>3. CASE readable /\ left = 0
    BY <2>3 DEF Read, MainGo
  <2> QED
    BY <1>2, <2>1, <2>2, <2>3 DEF TypeOK
<1>4. TypeOK'
  BY <1>1, <1>2, <1>3 DEF TypeOK
<1>5. Exits' /\ Idle'
  BY <1>1, <1>2, <1>3 DEF Exits, Idle, Leaving
<1>6. ASSUME ~emptied' PROVE Rests' /\ Ended' /\ Accounts' /\ Drawing'
  <2>1. Rests /\ Ended /\ Accounts /\ Drawing
    BY <1>1, <1>6 DEF IInv
  <2>2. Rests' /\ Ended'
    BY <1>1, <1>3, <2>1 DEF Rests, Ended, Copying, Leaving
  <2>3. Accounts'
    BY <1>1, <1>2, <1>3, <2>1 DEF TypeOK, Accounts, Working, Copying
  <2>4. Columns' = Columns
    BY <1>1, ColumnsStay DEF progress
  <2>5. Drawing'
    BY <1>1, <1>3, <2>1, <2>4 DEF Drawing, Copying
  <2> QED
    BY <2>2, <2>3, <2>5
<1> QED
  BY <1>4, <1>5, <1>6 DEF IInv

(* The result of the read is added to what was loaded before it.            *)
LEMMA AddIInv == IInv /\ Add => IInv'
<1> SUFFICES ASSUME IInv, Add PROVE IInv'
  OBVIOUS
<1>1. /\ main = "add" /\ progressNow' = loaded + readed
      /\ UNCHANGED <<updater, attached, isExit, progressMax, oldPercentage, bar,
                     readable, left, readed, loaded, copies, emptied>>
  BY DEF Add, MainGo, cond, drawn, file
<1>2. TypeOK /\ Exits /\ Idle
  BY DEF IInv
<1>3. \/ readed > 0 /\ main' = "read"
      \/ ~(readed > 0) /\ main' = "destroy"
  BY DEF Add, MainGo
<1>4. TypeOK'
  BY <1>1, <1>2, <1>3 DEF TypeOK
<1>5. Exits' /\ Idle'
  BY <1>1, <1>2, <1>3 DEF Exits, Idle, Leaving
<1>6. ASSUME ~emptied' PROVE Rests' /\ Ended' /\ Accounts' /\ Drawing'
  <2>1. Rests /\ Ended /\ Accounts /\ Drawing
    BY <1>1, <1>6 DEF IInv
  <2>2. progressMax > 0
    BY <1>1, <1>2, <2>1 DEF Ended, Copying, TypeOK
  <2>3. Rests' /\ Ended'
    BY <1>1, <1>3, <2>1, <2>2 DEF Rests, Ended, Copying, Leaving
  <2>4. CASE updater \in Working
    <3>1. progressNow \in Int /\ left \in Nat /\ progressMax \in Nat /\ loaded = progressNow
      BY <1>1, <1>2, <2>1, <2>4 DEF TypeOK, Accounts, Copying
    <3>2. CASE readable
      <4>1. readed = 1 /\ progressNow >= 0 /\ progressNow + left + 1 = progressMax
        BY <1>1, <2>1, <2>4, <3>2 DEF Accounts, Copying
      <4>2. main' = "read" /\ progressNow' = progressNow + 1
        BY <1>1, <1>3, <3>1, <4>1
      <4>3. Accounts'
        BY <1>1, <2>1, <2>4, <3>1, <3>2, <4>1, <4>2 DEF Accounts, Working, Copying
      <4>4. Columns \in Nat /\ Columns' \in Nat /\ Columns <= Columns' /\ Columns' <= BarWidth
        BY <1>1, <3>1, <4>1, <4>2, ColumnsGrow, ColumnsAre
           DEF Columns, ColumnsOf
      <4>5. Drawing'
        BY <1>1, <1>2, <2>1, <4>4 DEF Drawing, Copying, TypeOK
      <4> QED
        BY <2>3, <4>3, <4>5
    <3>3. CASE ~readable
      <4>1. readed = -1 /\ progressNow = 0
        BY <1>1, <2>1, <2>4, <3>3 DEF Accounts, Copying
      <4>2. main' = "destroy" /\ progressNow' = -1
        BY <1>1, <1>3, <3>1, <4>1
      <4>3. updater # "finish"
        BY <2>1, <2>2, <3>1, <4>1 DEF Accounts
      <4>4. Accounts'
        BY <1>1, <2>1, <2>4, <3>1, <3>3, <4>2, <4>3 DEF Accounts, Working, Copying
      <4>5. Columns = 0 /\ Columns' = 0
        BY <4>1, <4>2 DEF Columns
      <4>6. Drawing'
        BY <1>1, <2>1, <4>5 DEF Drawing, Copying
      <4> QED
        BY <2>3, <4>4, <4>6
    <3> QED
      BY <3>2, <3>3
  <2>5. CASE updater \notin Working
    <3>1. Accounts'
      BY <1>1, <1>3, <2>2, <2>5 DEF Accounts, Working, Copying
    <3>2. Drawing'
      BY <1>1, <2>1, <2>5 DEF Drawing, Working
    <3> QED
      BY <2>3, <3>1, <3>2
  <2> QED
    BY <2>4, <2>5
<1> QED
  BY <1>4, <1>5, <1>6 DEF IInv

(* The condition variable forgets its waiter, or main blocks.               *)
LEMMA DestroyIInv == IInv /\ Destroy => IInv'
<1> SUFFICES ASSUME IInv, Destroy PROVE IInv'
  OBVIOUS
<1>1. /\ main = "destroy" /\ main' \in {"spin", "stuck"}
      /\ UNCHANGED <<updater, isExit, progress, drawn, file>>
  BY DEF Destroy, MainGo
<1>2. attached' \in BOOLEAN
  BY DEF Destroy, IInv, TypeOK
<1>3. TypeOK'
  BY <1>1, <1>2 DEF IInv, TypeOK, progress, drawn, file
<1>4. Exits' /\ Idle'
  BY <1>1 DEF IInv, Exits, Idle, Leaving, progress
<1>5. ASSUME ~emptied' PROVE Rests' /\ Ended' /\ Accounts' /\ Drawing'
  <2>1. Rests /\ Ended /\ Accounts /\ Drawing
    BY <1>1, <1>5 DEF IInv, file
  <2>2. Rests' /\ Ended'
    BY <1>1, <2>1 DEF Rests, Ended, Copying, Leaving, progress, drawn, file
  <2>3. Accounts'
    BY <1>1, <2>1 DEF Accounts, Working, Copying, progress, file
  <2>4. Drawing'
    BY <1>1, <2>1, ColumnsStay DEF Drawing, Copying, drawn
  <2> QED
    BY <2>2, <2>3, <2>4
<1> QED
  BY <1>3, <1>4, <1>5 DEF IInv

(* main returns to the keyboard when the updater has ended the copy.        *)
LEMMA SpinIInv == IInv /\ Spin => IInv'
<1> SUFFICES ASSUME IInv, Spin PROVE IInv'
  OBVIOUS
<1>1. /\ main = "spin" /\ main' = "getch" /\ progressMax = 0
      /\ UNCHANGED <<updater, cond, progress, drawn, file>>
  BY DEF Spin, MainGo, IInv, TypeOK
<1>2. TypeOK' /\ Exits' /\ Idle'
  BY <1>1 DEF IInv, TypeOK, Exits, Idle, Leaving, cond, progress, drawn, file
<1>3. ASSUME ~emptied' PROVE Rests' /\ Ended' /\ Accounts' /\ Drawing'
  <2>1. Rests /\ Ended /\ Accounts /\ Drawing
    BY <1>1, <1>3 DEF IInv, file
  <2>2. updater \notin Working
    BY <1>1, <2>1 DEF Rests, Copying, Leaving
  <2>3. Rests' /\ Ended'
    BY <1>1, <2>2 DEF Rests, Ended, Copying
  <2>4. Accounts'
    BY <1>1, <2>1, <2>2 DEF Accounts, Working, Copying, progress
  <2>5. Drawing'
    BY <1>1, <2>1, <2>2 DEF Drawing, Working, drawn
  <2> QED
    BY <2>3, <2>4, <2>5
<1> QED
  BY <1>2, <1>3 DEF IInv

(* The program leaves between two copies.                                   *)
LEMMA LeaveIInv == IInv /\ (CtrlX \/ Broadcast \/ Join) => IInv'
<1> SUFFICES ASSUME IInv, CtrlX \/ Broadcast \/ Join PROVE IInv'
  OBVIOUS
<1>1. /\ \/ main = "getch" /\ main' = "broadcast" /\ updater' = updater
         \/ main = "broadcast" /\ main' = "join"
            /\ (updater' = updater \/ (updater = "waiting" /\ updater' = "woken"))
         \/ main = "join" /\ main' = "exited" /\ updater' = updater
      /\ isExit' = TRUE
      /\ UNCHANGED <<attached, progress, drawn, file>>
  <2>1. CASE CtrlX
    BY <2>1 DEF CtrlX, MainGo
  <2>2. CASE Broadcast
    <3>1. isExit
      BY <2>2 DEF Broadcast, MainGo, IInv, Exits, Leaving
    <3> QED
      BY <2>2, <3>1, Notified DEF Broadcast, MainGo, cond, IInv, TypeOK
  <2>3. CASE Join
    <3>1. isExit
      BY <2>3 DEF Join, MainGo, IInv, Exits, Leaving
    <3> QED
      BY <2>3, <3>1 DEF Join, MainGo, cond, IInv, TypeOK
  <2> QED
    BY <2>1, <2>2, <2>3
<1>2. TypeOK'
  BY <1>1 DEF IInv, TypeOK, progress, drawn, file
<1>3. Exits' /\ Idle'
  BY <1>1 DEF IInv, Exits, Idle, Leaving, progress
<1>4. ASSUME ~emptied' PROVE Rests' /\ Ended' /\ Accounts' /\ Drawing'
  <2>1. Rests /\ Ended /\ Accounts /\ Drawing /\ Idle /\ TypeOK
    BY <1>1, <1>4 DEF IInv, file
  <2>2. progressMax = 0 /\ (updater \in Working => updater = "woken")
    BY <1>1, <2>1 DEF Rests, Idle, Copying, Leaving
  <2>3. Rests' /\ Ended'
    BY <1>1, <2>1, <2>2 DEF Rests, Ended, Working, Copying, Leaving
  <2>4. Accounts'
    BY <1>1, <2>1, <2>2 DEF Accounts, Working, Copying, progress
  <2>5. Drawing'
    BY <1>1, <2>1, <2>2 DEF Drawing, Working, Copying, drawn
  <2> QED
    BY <2>3, <2>4, <2>5
<1> QED
  BY <1>2, <1>3, <1>4 DEF IInv

(* The updater waits, is woken, and ends if the program does.               *)
LEMMA WaitIInv == IInv /\ Wait => IInv'
<1> SUFFICES ASSUME IInv, Wait PROVE IInv'
  OBVIOUS
<1>1. /\ updater = "start" /\ updater' = "waiting" /\ attached' = TRUE
      /\ UNCHANGED <<main, isExit, progress, drawn, file>>
  BY DEF Wait, UpdaterGo
<1>2. TypeOK' /\ Exits' /\ Idle'
  BY <1>1 DEF IInv, TypeOK, Exits, Idle, progress, drawn, file
<1>3. ASSUME ~emptied' PROVE Rests' /\ Ended' /\ Accounts' /\ Drawing'
  <2>1. Rests /\ Ended /\ Accounts /\ Drawing
    BY <1>1, <1>3 DEF IInv, file
  <2>2. Rests' /\ Ended' /\ Accounts'
    BY <1>1, <2>1 DEF Rests, Ended, Accounts, Working, progress, drawn, file
  <2>3. Drawing'
    BY <1>1, <2>1 DEF Drawing, drawn
  <2> QED
    BY <2>2, <2>3
<1> QED
  BY <1>2, <1>3 DEF IInv

LEMMA WokenIInv == IInv /\ Woken => IInv'
<1> SUFFICES ASSUME IInv, Woken PROVE IInv'
  OBVIOUS
<1>1. /\ updater = "woken"
      /\ UNCHANGED <<main, cond, progress, drawn, file>>
  BY DEF Woken, UpdaterGo
<1>2. (isExit /\ updater' = "ended") \/ (~isExit /\ updater' = "while")
  <2>1. ASSUME isExit PROVE updater' = "ended"
    BY <2>1 DEF Woken, UpdaterGo
  <2>2. ASSUME ~isExit PROVE updater' = "while"
    BY <2>2 DEF Woken, UpdaterGo
  <2> QED
    BY <2>1, <2>2
<1>3. TypeOK' /\ Exits' /\ Idle'
  BY <1>1, <1>2 DEF IInv, TypeOK, Exits, Idle, cond, progress, drawn, file
<1>4. ASSUME ~emptied' PROVE Rests' /\ Ended' /\ Accounts' /\ Drawing'
  <2>1. Rests /\ Ended /\ Accounts /\ Drawing /\ Exits /\ TypeOK
    BY <1>1, <1>4 DEF IInv, file
  <2>2. Columns' = Columns /\ Columns \in Nat
    BY <1>1, <2>1, ColumnsStay, ColumnsNatural
  <2>3. Rests' /\ Ended'
    BY <1>1, <1>2, <2>1 DEF Rests, Ended, Exits, Working, progress, drawn, file
  <2>4. Accounts'
    BY <1>1, <1>2, <2>1 DEF Accounts, Working, progress, file
  <2>5. Drawing'
    BY <1>1, <1>2, <2>1, <2>2 DEF Drawing, Exits, Rests, Working, drawn
  <2> QED
    BY <2>3, <2>4, <2>5
<1> QED
  BY <1>3, <1>4 DEF IInv

(* The bar goes on, or ends when everything is counted.                     *)
LEMMA WhileIInv == IInv /\ While => IInv'
<1> SUFFICES ASSUME IInv, While PROVE IInv'
  OBVIOUS
<1>1. /\ updater = "while"
      /\ UNCHANGED <<main, cond, progress, drawn, file>>
  BY DEF While, UpdaterGo
<1>2. \/ progressNow < progressMax /\ updater' = "draw"
      \/ progressNow >= progressMax /\ updater' = "finish"
  BY DEF While, UpdaterGo, IInv, TypeOK
<1>3. TypeOK' /\ Exits' /\ Idle'
  BY <1>1, <1>2 DEF IInv, TypeOK, Exits, Idle, cond, progress, drawn, file
<1>4. ASSUME ~emptied' PROVE Rests' /\ Ended' /\ Accounts' /\ Drawing'
  <2>1. Rests /\ Ended /\ Accounts /\ Drawing
    BY <1>1, <1>4 DEF IInv, file
  <2>2. Rests' /\ Ended'
    BY <1>1, <1>2, <2>1 DEF Rests, Ended, Working, progress, drawn, file
  <2>3. Accounts'
    BY <1>1, <1>2, <2>1 DEF Accounts, Working, progress, file
  <2>4. Drawing'
    BY <1>1, <1>2, <2>1, ColumnsStay DEF Drawing, drawn
  <2> QED
    BY <2>2, <2>3, <2>4
<1> QED
  BY <1>3, <1>4 DEF IInv

(* The bar becomes what is counted now.                                     *)
LEMMA DrawIInv == IInv /\ Draw => IInv'
<1> SUFFICES ASSUME IInv, Draw PROVE IInv'
  OBVIOUS
<1>1. /\ updater = "draw" /\ updater' = "while" /\ oldPercentage' = Columns
      /\ UNCHANGED <<main, cond, progress, file>>
  BY DEF Draw, UpdaterGo
<1>2. TypeOK /\ Columns \in Nat /\ Columns' = Columns
  BY <1>1, ColumnsNatural, ColumnsStay DEF IInv
<1>3. \/ Columns > oldPercentage /\ bar' = bar + (Columns - oldPercentage)
      \/ Columns <= oldPercentage /\ bar' = bar
  BY <1>2 DEF Draw, TypeOK
<1>4. TypeOK'
  BY <1>1, <1>2, <1>3 DEF TypeOK, cond, progress, file
<1>5. Exits' /\ Idle'
  BY <1>1 DEF IInv, Exits, Idle, cond, progress
<1>6. ASSUME ~emptied' PROVE Rests' /\ Ended' /\ Accounts' /\ Drawing'
  <2>1. Rests /\ Ended /\ Accounts /\ Drawing
    BY <1>1, <1>6 DEF IInv, file
  <2>2. main \in Copying /\ progressMax > 0
    BY <1>1, <2>1 DEF Rests, Working
  <2>3. Rests' /\ Ended'
    BY <1>1, <2>1, <2>2 DEF Rests, Ended, Working, Copying, progress, file
  <2>4. Accounts'
    BY <1>1, <2>1 DEF Accounts, Working, progress, file
  <2>5. Columns <= BarWidth
    <3>1. progressNow \in Int /\ progressMax \in Nat /\ left \in Nat
      BY <1>2 DEF TypeOK
    <3>2. CASE readable
      <4>1. progressNow >= 0 /\ progressNow <= progressMax
        BY <1>1, <2>1, <2>2, <3>1, <3>2 DEF Accounts, Working
      <4> QED
        BY <3>1, <4>1, ColumnsGrow, ColumnsAre
    <3>3. CASE ~readable
      <4>1. progressNow <= 0
        BY <1>1, <2>1, <2>2, <3>3 DEF Accounts, Working
      <4> QED
        BY <4>1, McConstants DEF Columns
    <3> QED
      BY <3>2, <3>3
  <2>6. oldPercentage <= Columns /\ bar = oldPercentage
    BY <1>1, <2>1 DEF Drawing
  <2>7. bar' = Columns
    BY <1>2, <1>3, <2>6 DEF TypeOK
  <2>8. Drawing'
    BY <1>1, <1>2, <2>5, <2>7 DEF Drawing
  <2> QED
    BY <2>3, <2>4, <2>8
<1> QED
  BY <1>4, <1>5, <1>6 DEF IInv

(* The end of a bar: main has no block left, and will not add any.          *)
LEMMA FinishIInv == IInv /\ Finish => IInv'
<1> SUFFICES ASSUME IInv, Finish PROVE IInv'
  OBVIOUS
<1>1. /\ updater = "finish" /\ updater' = "reset" /\ oldPercentage' = 0 /\ progressMax' = 0
      /\ UNCHANGED <<main, cond, progressNow, bar, file>>
  BY DEF Finish, UpdaterGo
<1>2. TypeOK' /\ Exits' /\ Idle'
  BY <1>1 DEF IInv, TypeOK, Exits, Idle, cond, file
<1>3. ASSUME ~emptied' PROVE Rests' /\ Ended' /\ Accounts' /\ Drawing'
  <2>1. Rests /\ Accounts /\ Drawing /\ TypeOK
    BY <1>1, <1>3 DEF IInv, file
  <2>2. main \in Copying /\ progressMax > 0 /\ progressNow >= progressMax
    BY <1>1, <2>1 DEF Rests, Accounts, Working
  <2>3. readable
    BY <1>1, <2>1, <2>2 DEF TypeOK, Accounts, Working
  <2>4. left = 0 /\ main # "add"
    BY <1>1, <2>1, <2>2, <2>3 DEF TypeOK, Accounts, Working
  <2>5. Rests' /\ Ended'
    BY <1>1, <2>2, <2>3, <2>4 DEF Rests, Ended, Working, Copying, file
  <2>6. Accounts'
    BY <1>1 DEF Accounts, Working
  <2>7. Drawing'
    BY <1>1, <2>1 DEF Drawing
  <2> QED
    BY <2>5, <2>6, <2>7
<1> QED
  BY <1>2, <1>3 DEF IInv

LEMMA ResetIInv == IInv /\ Reset => IInv'
<1> SUFFICES ASSUME IInv, Reset PROVE IInv'
  OBVIOUS
<1>1. /\ updater = "reset" /\ updater' = "start" /\ progressNow' = 0
      /\ UNCHANGED <<main, cond, progressMax, drawn, file>>
  BY DEF Reset, UpdaterGo
<1>2. TypeOK' /\ Exits' /\ Idle'
  BY <1>1 DEF IInv, TypeOK, Exits, Idle, cond, drawn, file
<1>3. ASSUME ~emptied' PROVE Rests' /\ Ended' /\ Accounts' /\ Drawing'
  <2>1. Rests /\ Ended /\ Drawing
    BY <1>1, <1>3 DEF IInv, file
  <2>2. Rests' /\ Ended' /\ Accounts'
    BY <1>1, <2>1 DEF Rests, Ended, Accounts, Working, drawn, file
  <2>3. Drawing'
    BY <1>1, <2>1 DEF Drawing, drawn
  <2> QED
    BY <2>2, <2>3
<1> QED
  BY <1>2, <1>3 DEF IInv

LEMMA NextIInv == IInv /\ [Next]_vars => IInv'
<1> SUFFICES ASSUME IInv, [Next]_vars PROVE IInv'
  OBVIOUS
<1>1. CASE F5
  BY <1>1, F5IInv
<1>2. CASE Signal
  BY <1>2, SignalIInv
<1>3. CASE Read
  BY <1>3, ReadIInv
<1>4. CASE Add
  BY <1>4, AddIInv
<1>5. CASE Destroy
  BY <1>5, DestroyIInv
<1>6. CASE Spin
  BY <1>6, SpinIInv
<1>7. CASE CtrlX \/ Broadcast \/ Join
  BY <1>7, LeaveIInv
<1>8. CASE Wait
  BY <1>8, WaitIInv
<1>9. CASE Woken
  BY <1>9, WokenIInv
<1>10. CASE While
  BY <1>10, WhileIInv
<1>11. CASE Draw
  BY <1>11, DrawIInv
<1>12. CASE Finish
  BY <1>12, FinishIInv
<1>13. CASE Reset
  BY <1>13, ResetIInv
<1>14. CASE UNCHANGED vars
  BY <1>14 DEF vars, cond, progress, drawn, file, IInv, TypeOK, Exits, Idle, Rests, Ended,
     Accounts, Drawing, Columns
<1> QED
  BY <1>1, <1>2, <1>3, <1>4, <1>5, <1>6, <1>7, <1>8, <1>9, <1>10, <1>11, <1>12, <1>13, <1>14
     DEF Next, Main, Updater

LEMMA Invariant == Spec => []IInv
BY InitIInv, NextIInv, PTL DEF Spec

-----------------------------------------------------------------------------
(* The next key is read only when no copy is in progress, and then, if no   *)
(* empty entry was copied, the next bar starts from nothing: progressNow +=  *)
(* of main and the resets of progressUpdate keep the two threads in step.   *)
THEOREM CopiesInStep == Spec => []InStep
<1>1. IInv => InStep
  BY DEF IInv, Idle, Accounts, InStep, GetchMeansIdle, StartsFromZero
<1> QED
  BY <1>1, Invariant, PTL

(* The updater's count of columns is what is in the window, and the bar     *)
(* stays between its brackets, whenever it is drawn during the copy.        *)
THEOREM BarStaysInside == Spec => []BarFits
<1>1. IInv => BarFits
  BY DEF IInv, Drawing, BarFits
<1> QED
  BY <1>1, Invariant, PTL
=============================================================================
