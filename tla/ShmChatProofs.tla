---------------------------- MODULE ShmChatProofs ----------------------------
(***************************************************************************)
(* Proofs about ShmChat for any number of clients, lines and restarts.     *)
(*                                                                         *)
(* RoundDiscipline is inductive once the server's loop variable is known   *)
(* to stay inside the semaphore array while a round is on (LoopInRange):   *)
(* otherwise a wakeup could hit semaphore 1, and once a client is known to *)
(* read its id only once (IdUnread).  Wakeups are conserved because a      *)
(* client that reads its id has drawn nothing yet (Unshown); a raised sync *)
(* semaphore is worth a line nobody detected yet (Heard); and the counter  *)
(* of ids is never ahead of the clients that joined (CountBound), so that  *)
(* it agrees with them again, once it did not, only when there are none.   *)
(***************************************************************************)
EXTENDS ShmChat, Counting

(* During a round the next semaphore to raise is a waker.                   *)
LoopInRange == server = "round" => next \in Wakers

(* A client reads its id once.                                              *)
IdUnread == \A c \in Clients : reader[c] \in {"off", "getval"} => myId[c] = 0

IInv == TypeOK /\ LoopInRange /\ IdUnread /\ RoundDiscipline

LEMMA Indices ==
    /\ 0 \in Semaphores /\ 1 \in Semaphores /\ 2 \in Wakers
    /\ Wakers \subseteq Semaphores /\ 1 \notin Wakers /\ 0 \notin Wakers
    /\ Wakers \subseteq 2..(MAX_CLIENTS + 2)
    /\ MAX_CLIENTS + 2 \in 2..(MAX_CLIENTS + 2)
BY ChatConstants DEF Semaphores, Wakers

LEMMA InitIInv == Init => IInv
<1> SUFFICES ASSUME Init PROVE IInv
  OBVIOUS
<1>1. TypeOK
  <2>1. /\ sem \in [Semaphores -> Nat]
        /\ server = "down" /\ next \in 2..(MAX_CLIENTS + 2)
        /\ detected \in Nat /\ kills \in 0..MaxKills
    BY ChatConstants DEF Init
  <2>2. /\ reader \in [Clients -> {"off", "getval", "type", "signal", "copy", "copying", "gone"}]
        /\ quit \in [Clients -> BOOLEAN]
        /\ mixed \in BOOLEAN
    BY DEF Init
  <2>3. /\ myId \in [Clients -> Nat]
        /\ line \in [Clients -> Nat]
        /\ shown \in [Clients -> Nat]
    BY ChatConstants DEF Init
  <2>4. buffer \in Lines /\ announced \in Lines
    BY DEF Init, Lines
  <2> QED
    BY <2>1, <2>2, <2>3, <2>4 DEF TypeOK
<1>2. LoopInRange /\ IdUnread
  BY DEF Init, LoopInRange, IdUnread
<1>3. RoundDiscipline
  BY Indices DEF Init, RoundDiscipline
<1> QED
  BY <1>1, <1>2, <1>3 DEF IInv

LEMMA ServerIInv == ASSUME IInv, Server \/ Kill PROVE IInv'
<1> USE Indices DEF IInv
<1>1. CASE Start
  BY <1>1 DEF Start, ServerGo, clientVars, bufferVars, TypeOK, LoopInRange,
      IdUnread, RoundDiscipline
<1>2. CASE SetCount
  BY <1>2 DEF SetCount, ServerGo, clientVars, bufferVars, TypeOK, LoopInRange,
      IdUnread, RoundDiscipline
<1>3. CASE SetSync
  BY <1>3 DEF SetSync, ServerGo, clientVars, bufferVars, TypeOK, LoopInRange,
      IdUnread, RoundDiscipline
<1>4. CASE Detect
  BY <1>4 DEF Detect, ServerGo, clientVars, bufferVars, TypeOK, LoopInRange,
      IdUnread, RoundDiscipline
<1>5. CASE Wake
  <2>1. next \in Wakers /\ next + 1 \in 2..(MAX_CLIENTS + 2)
    BY <1>5, ChatConstants DEF Wake, ServerGo, LoopInRange, Wakers
  <2>2. TypeOK' /\ IdUnread'
    BY <1>5, <2>1 DEF Wake, ServerGo, Semop, clientVars, bufferVars, TypeOK, IdUnread
  <2>3. LoopInRange'
    BY <1>5, <2>1, ChatConstants DEF Wake, ServerGo, LoopInRange, Wakers
  <2>4. RoundDiscipline'
    BY <1>5, <2>1 DEF Wake, ServerGo, Semop, clientVars, TypeOK, RoundDiscipline
  <2> QED
    BY <2>2, <2>3, <2>4
<1>6. CASE Close
  BY <1>6 DEF Close, ServerGo, Semop, clientVars, bufferVars, TypeOK, LoopInRange,
      IdUnread, RoundDiscipline
<1>7. CASE Kill
  BY <1>7, ChatConstants DEF Kill, clientVars, bufferVars, TypeOK, LoopInRange,
      IdUnread, RoundDiscipline
<1> QED
  BY <1>1, <1>2, <1>3, <1>4, <1>5, <1>6, <1>7 DEF Server

LEMMA ClientIInv ==
    ASSUME IInv, NEW c \in Clients, Reader(c) \/ ClientGone(c) \/ Draw(c)
    PROVE  IInv'
<1> USE Indices DEF IInv
<1>1. CASE Join(c)
  BY <1>1 DEF Join, Go, Semop, serverVars, bufferVars, TypeOK, LoopInRange,
      IdUnread, RoundDiscipline
<1>2. CASE ReadId(c)
  <2>1. TypeOK' /\ LoopInRange' /\ IdUnread'
    BY <1>2 DEF ReadId, Go, serverVars, bufferVars, TypeOK, LoopInRange,
        IdUnread
  <2>2. (\A d \in Clients : myId'[d] # 1) => (\A d \in Clients : myId[d] # 1)
    BY <1>2 DEF ReadId, Go, TypeOK, IdUnread
  <2> QED
    BY <1>2, <2>1, <2>2 DEF ReadId, Go, serverVars, TypeOK, RoundDiscipline
<1>3. CASE Type(c)
  <2>1. quit' \in [Clients -> BOOLEAN]
    <3>1. PICK isQuit \in {FALSE, MayLeave} : quit' = [quit EXCEPT ![c] = isQuit]
      BY <1>3 DEF Type
    <3>2. isQuit \in BOOLEAN
      BY <3>1, ChatConstants
    <3> QED
      BY <3>1, <3>2 DEF TypeOK
  <2>2. TypeOK' /\ IdUnread'
    BY <1>3, <2>1 DEF Type, Go, serverVars, bufferVars, TypeOK, IdUnread
  <2> QED
    BY <1>3, <2>2 DEF Type, serverVars, LoopInRange, RoundDiscipline
<1>4. CASE Announce(c)
  <2>1. <<c, line[c]>> \in Lines
    BY DEF TypeOK, Lines
  <2>2. TypeOK' /\ IdUnread'
    BY <1>4, <2>1 DEF Announce, Go, Semop, serverVars, bufferVars, TypeOK, IdUnread
  <2>3. LoopInRange' /\ RoundDiscipline'
    BY <1>4 DEF Announce, Semop, serverVars, TypeOK, LoopInRange, RoundDiscipline
  <2> QED
    BY <2>2, <2>3
<1>5. CASE CopyBegin(c)
  BY <1>5 DEF CopyBegin, Go, serverVars, TypeOK, Lines, LoopInRange,
      IdUnread, RoundDiscipline
<1>6. CASE CopyEnd(c)
  <2>1. buffer' \in Lines
    BY <1>6 DEF CopyEnd, TypeOK, Lines
  <2> QED
    BY <1>6, <2>1 DEF CopyEnd, Go, serverVars, TypeOK, LoopInRange,
        IdUnread, RoundDiscipline
<1>7. CASE ClientGone(c)
  BY <1>7 DEF ClientGone, serverVars, bufferVars, TypeOK, LoopInRange,
      IdUnread, RoundDiscipline
<1>8. CASE Draw(c)
  BY <1>8 DEF Draw, Semop, serverVars, clientVars, bufferVars, TypeOK, LoopInRange,
      IdUnread, RoundDiscipline
<1> QED
  BY <1>1, <1>2, <1>3, <1>4, <1>5, <1>6, <1>7, <1>8 DEF Reader

LEMMA NextIInv == IInv /\ [Next]_vars => IInv'
<1> SUFFICES ASSUME IInv, [Next]_vars PROVE IInv'
  OBVIOUS
<1>1. CASE UNCHANGED vars
  BY <1>1 DEF vars, serverVars, clientVars, bufferVars, IInv, TypeOK, LoopInRange,
      IdUnread, RoundDiscipline
<1> QED
  BY <1>1, ServerIInv, ClientIInv DEF Next

LEMMA Inductive == Spec => []IInv
BY InitIInv, NextIInv, PTL DEF Spec

-----------------------------------------------------------------------------
(* The wakeups *)

(* A drawer does not print before its client has read its id.               *)
Unshown == \A c \in Clients : reader[c] \in {"off", "getval"} => shown[c] = 0

LEMMA ClientsFinite == IsFiniteSet(Clients)
BY ChatConstants

LEMMA SubsetSumNat ==
    ASSUME NEW f \in [Clients -> Nat], NEW S \in SUBSET Clients
    PROVE  IsFiniteSet(S) /\ SumFunctionOnSet(f, S) \in Nat
<1>1. IsFiniteSet(S) /\ \A c \in S : f[c] \in Nat
  BY ClientsFinite, FS_Subset
<1> QED
  BY <1>1, SumNat

LEMMA DrawnNat ==
    ASSUME IInv, NEW i \in Wakers
    PROVE  DrawnFrom(i) \in Nat /\ sem[i] \in Nat /\ detected \in Nat /\ kills \in Nat
BY SubsetSumNat, Indices, ChatConstants DEF IInv, TypeOK, DrawnFrom

LEMMA UnshownNext == ASSUME IInv, Unshown, [Next]_vars PROVE Unshown'
<1> USE DEF Unshown
<1>1. CASE Server \/ Kill \/ UNCHANGED vars
  BY <1>1 DEF Server, Start, SetCount, SetSync, Detect, Wake, Close, Kill, clientVars, vars
<1>2. ASSUME NEW c \in Clients, Reader(c) PROVE Unshown'
  BY <1>2 DEF Reader, Join, ReadId, Type, Announce, CopyBegin, CopyEnd, Go, IInv, TypeOK
<1>3. ASSUME NEW c \in Clients, ClientGone(c) PROVE Unshown'
  BY <1>3 DEF ClientGone, IInv, TypeOK
<1>4. ASSUME NEW c \in Clients, Draw(c) PROVE Unshown'
  BY <1>4 DEF Draw, Drawing, clientVars, IInv, TypeOK
<1> QED
  BY <1>1, <1>2, <1>3, <1>4 DEF Next

(* Steps that neither raise, take nor owe a wakeup.                         *)
LEMMA WakeupsStay ==
    ASSUME WakeupsConserved, UNCHANGED <<myId, shown, detected, kills>>,
           \A i \in Wakers : sem'[i] = sem[i] /\ (Pending(i)' <=> Pending(i))
    PROVE  WakeupsConserved'
<1>1. ASSUME NEW i \in Wakers
      PROVE  /\ DrawnFrom(i)' = DrawnFrom(i)
             /\ (IF Pending(i) THEN 1 ELSE 0)' = IF Pending(i) THEN 1 ELSE 0
  BY DEF DrawnFrom
<1> QED
  BY <1>1 DEF WakeupsConserved

(* What each semaphore is owed, as two facts for each case of Pending.      *)
Owed(i, due) == /\ sem[i] + DrawnFrom(i) <= due
                /\ kills = 0 => sem[i] + DrawnFrom(i) = due

LEMMA WakeupsCases ==
    WakeupsConserved <=> \A i \in Wakers : /\ Pending(i) => Owed(i, detected - 1)
                                           /\ ~Pending(i) => Owed(i, detected - 0)
BY DEF WakeupsConserved, Owed

(* Reading an id adds a drawer that has drawn nothing, drawing moves a      *)
(* wakeup from the semaphore to its drawer.                                 *)
LEMMA DrawnReadId ==
    ASSUME IInv, Unshown, NEW c \in Clients, ReadId(c), NEW i \in Wakers
    PROVE  DrawnFrom(i)' = DrawnFrom(i)
<1> DEFINE S == {d \in Clients : myId[d] = i}
           T == {d \in Clients : myId'[d] = i}
<1>1. c \notin S /\ shown[c] = 0 /\ shown' = shown
  BY Indices DEF ReadId, Go, IInv, IdUnread, Unshown, Wakers
<1>2. T = S \/ T = S \cup {c}
  <2>1. \A d \in Clients \ {c} : myId'[d] = myId[d]
    BY DEF ReadId, IInv, TypeOK
  <2> QED
    BY <1>1, <2>1
<1>3. IsFiniteSet(S) /\ \A d \in S \cup {c} : shown[d] \in Nat
  BY SubsetSumNat DEF IInv, TypeOK
<1>4. DrawnFrom(i) = SumFunctionOnSet(shown, S) /\ DrawnFrom(i)' = SumFunctionOnSet(shown, T)
  BY <1>1 DEF DrawnFrom
<1>5. SumFunctionOnSet(shown, S) \in Nat
  BY SubsetSumNat DEF IInv, TypeOK
<1> HIDE DEF S, T
<1>6. SumFunctionOnSet(shown, S \cup {c}) = SumFunctionOnSet(shown, S) + shown[c]
  BY <1>1, <1>3, SumAdd
<1> QED
  BY <1>1, <1>2, <1>4, <1>5, <1>6

LEMMA DrawnDraw ==
    ASSUME IInv, NEW c \in Clients, Draw(c), NEW i \in Wakers
    PROVE  DrawnFrom(i)' = DrawnFrom(i) + (IF myId[c] = i THEN 1 ELSE 0)
<1> DEFINE S == {d \in Clients : myId[d] = i}
<1>1. /\ shown' = [shown EXCEPT ![c] = @ + 1] /\ myId' = myId
      /\ shown \in [Clients -> Nat] /\ shown' \in [Clients -> Nat]
  BY DEF Draw, clientVars, IInv, TypeOK
<1>2. DrawnFrom(i) = SumFunctionOnSet(shown, S) /\ DrawnFrom(i)' = SumFunctionOnSet(shown', S)
  BY <1>1 DEF DrawnFrom
<1>3. IsFiniteSet(S) /\ SumFunctionOnSet(shown, S) \in Nat /\ SumFunctionOnSet(shown', S) \in Nat
  BY <1>1, SubsetSumNat
<1>4. /\ \A d \in S : shown[d] \in Nat /\ shown'[d] \in Nat
      /\ \A d \in S \ {c} : shown'[d] = shown[d]
      /\ shown'[c] = shown[c] + 1 /\ shown[c] \in Nat
  BY <1>1
<1>5. c \in S <=> myId[c] = i
  OBVIOUS
<1> HIDE DEF S
<1>6. CASE c \in S
  <2>1. SumFunctionOnSet(shown', S) + shown[c] = SumFunctionOnSet(shown, S) + shown'[c]
    BY <1>3, <1>4, <1>6, SumChange
  <2> QED
    BY <1>2, <1>3, <1>4, <1>5, <1>6, <2>1
<1>7. CASE c \notin S
  <2>1. SumFunctionOnSet(shown', S) = SumFunctionOnSet(shown, S)
    BY <1>3, <1>4, <1>7, SumSame
  <2> QED
    BY <1>2, <1>3, <1>5, <1>7, <2>1
<1> QED
  BY <1>6, <1>7

LEMMA WakeupsNext ==
    ASSUME IInv, Unshown, WakeupsConserved, [Next]_vars PROVE WakeupsConserved'
<1>1. ASSUME NEW i \in Wakers
      PROVE  /\ Pending(i) => Owed(i, detected - 1)
             /\ ~Pending(i) => Owed(i, detected - 0)
  BY WakeupsCases
<1>2. ASSUME \A i \in Wakers : /\ Pending(i)' => Owed(i, detected - 1)'
                               /\ ~Pending(i)' => Owed(i, detected - 0)'
      PROVE  WakeupsConserved'
  BY <1>2 DEF WakeupsConserved, Owed
<1>3. CASE Detect
  <2>1. /\ server = "wait" /\ server' = "round" /\ next' = 2 /\ detected' = detected + 1
        /\ UNCHANGED <<sem, kills, shown, myId>>
    BY <1>3 DEF Detect, ServerGo, clientVars
  <2>2. ASSUME NEW i \in Wakers
        PROVE  /\ Pending(i)' => Owed(i, detected - 1)'
               /\ ~Pending(i)' => Owed(i, detected - 0)'
    <3>1. ~Pending(i) /\ Pending(i)'
      BY <2>1 DEF Pending, Wakers
    <3>2. DrawnFrom(i)' = DrawnFrom(i)
      BY <2>1 DEF DrawnFrom
    <3> QED
      BY <1>1, <2>1, <3>1, <3>2, DrawnNat DEF Owed
  <2> QED
    BY <1>2, <2>2
<1>4. CASE Wake
  <2>1. /\ server = "round" /\ next \in Wakers /\ next' = next + 1
        /\ server' \in {"round", "close"} /\ (server' = "close" => next = MAX_CLIENTS + 1)
        /\ sem' = [sem EXCEPT ![next] = @ + 1]
        /\ UNCHANGED <<detected, kills, shown, myId>>
    <3>1. next \in Wakers /\ MAX_CLIENTS \in Nat
      BY <1>4, ChatConstants DEF Wake, ServerGo, IInv, LoopInRange
    <3> QED
      BY <1>4, <3>1 DEF Wake, ServerGo, Semop, clientVars, Wakers
  <2>2. ASSUME NEW i \in Wakers
        PROVE  /\ Pending(i)' => Owed(i, detected - 1)'
               /\ ~Pending(i)' => Owed(i, detected - 0)'
    <3>1. DrawnFrom(i)' = DrawnFrom(i) /\ sem \in [Semaphores -> Nat] /\ i \in Semaphores
      BY <2>1, Indices DEF DrawnFrom, IInv, TypeOK
    <3>2. CASE i = next
      <4>1. Pending(i) /\ ~Pending(i)' /\ sem'[i] = sem[i] + 1
        BY <2>1, <3>1, <3>2 DEF Pending, Wakers
      <4> QED
        BY <1>1, <2>1, <3>1, <4>1, DrawnNat DEF Owed
    <3>3. CASE i # next
      <4>1. (Pending(i)' <=> Pending(i)) /\ sem'[i] = sem[i]
        BY <2>1, <3>1, <3>3, ChatConstants DEF Pending, Wakers
      <4> QED
        BY <1>1, <2>1, <3>1, <4>1 DEF Owed
    <3> QED
      BY <3>2, <3>3
  <2> QED
    BY <1>2, <2>2
<1>5. CASE Kill
  <2>1. /\ server' = "down" /\ kills' = kills + 1
        /\ UNCHANGED <<sem, detected, shown, myId>>
    BY <1>5 DEF Kill, clientVars
  <2>2. ASSUME NEW i \in Wakers
        PROVE  /\ Pending(i)' => Owed(i, detected - 1)'
               /\ ~Pending(i)' => Owed(i, detected - 0)'
    <3>1. ~Pending(i)' /\ DrawnFrom(i)' = DrawnFrom(i)
      BY <2>1 DEF Pending, DrawnFrom
    <3>2. sem[i] + DrawnFrom(i) <= detected
      BY <1>1, DrawnNat DEF Owed
    <3>3. kills' # 0
      BY <2>1, DrawnNat
    <3> QED
      BY <2>1, <3>1, <3>2, <3>3, DrawnNat DEF Owed
  <2> QED
    BY <1>2, <2>2
<1>6. ASSUME NEW c \in Clients, ReadId(c) PROVE WakeupsConserved'
  <2>1. UNCHANGED <<sem, detected, kills, server, next>>
    BY <1>6 DEF ReadId, serverVars
  <2>2. ASSUME NEW i \in Wakers
        PROVE  /\ Pending(i)' => Owed(i, detected - 1)'
               /\ ~Pending(i)' => Owed(i, detected - 0)'
    <3>1. DrawnFrom(i)' = DrawnFrom(i) /\ (Pending(i)' <=> Pending(i))
      BY <1>6, <2>1, DrawnReadId DEF Pending
    <3> QED
      BY <1>1, <2>1, <3>1 DEF Owed
  <2> QED
    BY <1>2, <2>2
<1>7. ASSUME NEW c \in Clients, Draw(c) PROVE WakeupsConserved'
  <2>1. UNCHANGED <<detected, kills, server, next>> /\ myId[c] \in Semaphores
        /\ sem[myId[c]] > 0 /\ sem' = [sem EXCEPT ![myId[c]] = @ - 1]
    BY <1>7 DEF Draw, Semop, serverVars, IInv, TypeOK
  <2>2. ASSUME NEW i \in Wakers
        PROVE  /\ Pending(i)' => Owed(i, detected - 1)'
               /\ ~Pending(i)' => Owed(i, detected - 0)'
    <3>1. Pending(i)' <=> Pending(i)
      BY <2>1 DEF Pending
    <3>2. DrawnFrom(i)' = DrawnFrom(i) + (IF myId[c] = i THEN 1 ELSE 0)
      BY <1>7, DrawnDraw
    <3>3. sem \in [Semaphores -> Nat] /\ i \in Semaphores
      BY Indices DEF IInv, TypeOK
    <3>4. CASE myId[c] = i
      <4>1. sem'[i] = sem[i] - 1 /\ DrawnFrom(i)' = DrawnFrom(i) + 1
        BY <2>1, <3>2, <3>3, <3>4
      <4>2. sem'[i] + DrawnFrom(i)' = sem[i] + DrawnFrom(i)
        BY <4>1, DrawnNat
      <4> QED
        BY <1>1, <2>1, <3>1, <4>2 DEF Owed
    <3>5. CASE myId[c] # i
      <4>1. sem'[i] = sem[i]
        BY <2>1, <3>3, <3>5
      <4>2. DrawnFrom(i)' = DrawnFrom(i)
        BY <3>2, <3>5, DrawnNat
      <4> QED
        BY <1>1, <2>1, <3>1, <4>1, <4>2 DEF Owed
    <3> QED
      BY <3>4, <3>5
  <2> QED
    BY <1>2, <2>2
<1>8. CASE Start \/ SetCount \/ SetSync \/ Close \/ UNCHANGED vars
  <2>1. /\ UNCHANGED <<myId, shown, detected, kills>>
        /\ \A i \in Wakers : sem'[i] = sem[i] /\ (Pending(i)' <=> Pending(i))
    BY <1>8, Indices DEF Start, SetCount, SetSync, Close, ServerGo, Semop, clientVars, serverVars,
       vars, Pending, IInv, TypeOK
  <2> QED
    BY <2>1, WakeupsStay
<1>9. ASSUME NEW c \in Clients, Join(c) \/ Type(c) \/ Announce(c) \/ CopyBegin(c) \/ CopyEnd(c)
                                \/ ClientGone(c)
      PROVE  WakeupsConserved'
  <2>1. /\ UNCHANGED <<myId, shown, detected, kills, server, next>>
        /\ \A i \in Wakers : sem'[i] = sem[i]
    BY <1>9, Indices DEF Join, Type, Announce, CopyBegin, CopyEnd, ClientGone, Semop, serverVars,
       IInv, TypeOK
  <2> QED
    BY <2>1, WakeupsStay DEF Pending
<1> QED
  BY <1>3, <1>4, <1>5, <1>6, <1>7, <1>8, <1>9 DEF Next, Server, Reader

-----------------------------------------------------------------------------
(* The messages *)

(* A line is typed before it is announced.                                  *)
LinesTyped == \A c \in Clients : reader[c] = "signal" => line[c] > 0

(* Lines of each client that were announced.                                *)
Said == [c \in Clients |-> IF reader[c] = "signal" THEN line[c] - 1 ELSE line[c]]

(* A raised sync semaphore in front of a waiting server is a line that was  *)
(* announced and not detected yet.                                          *)
Undetected == IF server = "wait" /\ sem[1] = 1 THEN 1 ELSE 0
Heard == detected + Undetected <= SumFunction(Said)

LEMMA SaidNat ==
    ASSUME IInv, LinesTyped
    PROVE  /\ Said \in [Clients -> Nat] /\ SumFunction(Said) \in Nat
           /\ SumFunction(Said) = SumFunctionOnSet(Said, Clients)
<1>1. \A c \in Clients : line[c] \in Nat
  BY DEF IInv, TypeOK
<1>2. \A c \in Clients : (IF reader[c] = "signal" THEN line[c] - 1 ELSE line[c]) \in Nat
  BY <1>1 DEF LinesTyped
<1>3. Said \in [Clients -> Nat] /\ DOMAIN Said = Clients
  BY <1>2 DEF Said
<1> QED
  BY <1>3, ClientsFinite, SumNat DEF SumFunction

LEMMA LinesTypedNext == ASSUME IInv, LinesTyped, [Next]_vars PROVE LinesTyped'
<1> USE DEF LinesTyped
<1>1. CASE Server \/ Kill \/ UNCHANGED vars
  BY <1>1 DEF Server, Start, SetCount, SetSync, Detect, Wake, Close, Kill, clientVars, vars
<1>2. ASSUME NEW c \in Clients, Join(c) \/ ReadId(c) \/ Announce(c) \/ CopyBegin(c) \/ CopyEnd(c)
                                \/ ClientGone(c)
      PROVE  LinesTyped'
  BY <1>2 DEF Join, ReadId, Announce, CopyBegin, CopyEnd, ClientGone, Go, IInv, TypeOK
<1>3. ASSUME NEW c \in Clients, Type(c) PROVE LinesTyped'
  BY <1>3 DEF Type, Go, IInv, TypeOK
<1>4. ASSUME NEW c \in Clients, Draw(c) PROVE LinesTyped'
  BY <1>4 DEF Draw, clientVars
<1> QED
  BY <1>1, <1>2, <1>3, <1>4 DEF Next, Reader

(* A client that leaves or announces may only add to what was said.         *)
LEMMA SaidMore ==
    ASSUME IInv, LinesTyped, IInv', LinesTyped', NEW c \in Clients,
           \A d \in Clients \ {c} : Said'[d] = Said[d]
    PROVE  /\ SumFunction(Said)' + Said[c] = SumFunction(Said) + Said'[c]
           /\ SumFunction(Said)' \in Nat
<1>1. Said \in [Clients -> Nat] /\ SumFunction(Said) = SumFunctionOnSet(Said, Clients)
  BY SaidNat
<1>2. Said' \in [Clients -> Nat]
  <2>1. \A d \in Clients : line'[d] \in Nat
    BY DEF IInv, TypeOK
  <2>2. \A d \in Clients : (IF reader'[d] = "signal" THEN line'[d] - 1 ELSE line'[d]) \in Nat
    BY <2>1 DEF LinesTyped
  <2> QED
    BY <2>2 DEF Said
<1>3. SumFunction(Said)' = SumFunctionOnSet(Said', Clients)
  BY <1>2 DEF SumFunction
<1>a. SumFunctionOnSet(Said', Clients) \in Nat
  <2> HIDE DEF Said
  <2> QED
    BY <1>2, SubsetSumNat
<1>4. \A d \in Clients : Said[d] \in Nat /\ Said'[d] \in Nat
  BY <1>1, <1>2
<1>5. \A d \in Clients \ {c} : Said'[d] = Said[d]
  OBVIOUS
<1> HIDE DEF Said
<1> DEFINE before == Said
           after == Said'
<1>6. \A d \in Clients : before[d] \in Nat /\ after[d] \in Nat
  BY <1>4
<1>7. \A d \in Clients \ {c} : after[d] = before[d]
  BY <1>5
<1> HIDE DEF before, after
<1>8. SumFunctionOnSet(after, Clients) + before[c] = SumFunctionOnSet(before, Clients) + after[c]
  BY <1>6, <1>7, ClientsFinite, SumChange
<1> QED
  BY <1>1, <1>3, <1>a, <1>8 DEF before, after

LEMMA HeardNext == ASSUME IInv, IInv', LinesTyped, LinesTyped', Heard, [Next]_vars PROVE Heard'
<1>1. /\ SumFunction(Said) \in Nat /\ detected \in Nat /\ sem[1] \in {0, 1}
      /\ \A c \in Clients : Said[c] \in Nat
  BY SaidNat DEF IInv, TypeOK, RoundDiscipline
<1>2. CASE Server \/ Kill \/ UNCHANGED vars
  <2>1. Said' = Said
    BY <1>2 DEF Said, Server, Start, SetCount, SetSync, Detect, Wake, Close, Kill, clientVars, vars
  <2>2. detected' + Undetected' <= detected + Undetected
    <3>1. CASE Start \/ SetCount \/ SetSync \/ Wake \/ Close \/ Kill
      <4>1. detected' = detected
        BY <3>1 DEF Start, SetCount, SetSync, Wake, Close, Kill
      <4>2. server' = "wait" => sem'[1] = 0
        BY <3>1, <1>1, Indices DEF Start, SetCount, SetSync, Wake, Close, Kill, ServerGo, Semop,
           IInv, TypeOK
      <4> QED
        BY <1>1, <4>1, <4>2 DEF Undetected
    <3>2. CASE Detect
      BY <1>1, <3>2 DEF Detect, ServerGo, Undetected
    <3>3. CASE UNCHANGED vars
      BY <1>1, <3>3 DEF vars, serverVars, Undetected
    <3> QED
      BY <1>2, <3>1, <3>2, <3>3 DEF Server
  <2>3. detected' \in Nat /\ Undetected' \in {0, 1} /\ Undetected \in {0, 1}
    BY DEF IInv, TypeOK, Undetected
  <2>4. SumFunction(Said)' = SumFunction(Said)
    BY <2>1
  <2>5. detected + Undetected <= SumFunction(Said)
    BY DEF Heard
  <2>6. detected \in Nat /\ SumFunction(Said) \in Nat
    BY <1>1
  <2>7. detected + Undetected \in Int /\ detected' + Undetected' \in Int
    BY <2>3, <2>6
  <2>8. detected' + Undetected' <= SumFunction(Said)
    BY <2>2, <2>5, <2>6, <2>7
  <2> QED
    BY <2>4, <2>8 DEF Heard
<1>3. ASSUME NEW c \in Clients, Join(c) \/ ReadId(c) \/ Type(c) \/ CopyBegin(c) \/ CopyEnd(c)
                                \/ ClientGone(c) \/ Draw(c)
      PROVE  Heard'
  <2>1. detected' = detected /\ Undetected' <= Undetected
    <3>1. server' = server /\ detected' = detected
      BY <1>3 DEF Join, ReadId, Type, CopyBegin, CopyEnd, ClientGone, Draw, serverVars
    <3>2. sem'[1] = 1 => sem[1] = 1
      BY <1>1, <1>3, Indices DEF Join, ReadId, Type, CopyBegin, CopyEnd, ClientGone, Draw, Semop,
         IInv, TypeOK
    <3> QED
      BY <3>1, <3>2 DEF Undetected
  <2>2. \A d \in Clients \ {c} : Said'[d] = Said[d]
    BY <1>3 DEF Said, Join, ReadId, Type, CopyBegin, CopyEnd, ClientGone, Draw, Go, clientVars,
       IInv, TypeOK
  <2>3. Said[c] <= Said'[c] /\ Said'[c] \in Nat
    <3>1. line[c] \in Nat
      BY DEF IInv, TypeOK
    <3>2. CASE Type(c)
      BY <3>1, <3>2 DEF Said, Type, Go, IInv, TypeOK
    <3>3. CASE ~Type(c)
      <4>1. line' = line /\ (reader'[c] = "signal" => reader[c] = "signal")
        BY <1>3, <3>3 DEF Join, ReadId, CopyBegin, CopyEnd, ClientGone, Draw, Go, clientVars,
           IInv, TypeOK
      <4> QED
        BY <3>1, <4>1 DEF Said, LinesTyped
    <3> QED
      BY <3>2, <3>3
  <2>4. SumFunction(Said)' + Said[c] = SumFunction(Said) + Said'[c] /\ SumFunction(Said)' \in Nat
    BY <2>2, SaidMore
  <2>5. Undetected \in {0, 1} /\ Undetected' \in {0, 1} /\ Said[c] \in Nat
    BY <1>1 DEF Undetected
  <2>6. SumFunction(Said) <= SumFunction(Said)'
    BY <1>1, <2>3, <2>4, <2>5
  <2> QED
    BY <1>1, <2>1, <2>4, <2>5, <2>6 DEF Heard
<1>4. ASSUME NEW c \in Clients, Announce(c) PROVE Heard'
  <2>1. detected' = detected /\ Undetected = 0 /\ Undetected' \in {0, 1}
    BY <1>4 DEF Announce, serverVars, Undetected
  <2>2. \A d \in Clients \ {c} : Said'[d] = Said[d]
    BY <1>4 DEF Said, Announce, Go, IInv, TypeOK
  <2>3. Said'[c] = Said[c] + 1
    <3>1. line[c] \in Nat /\ reader[c] = "signal" /\ reader'[c] = "copy" /\ line' = line
      BY <1>4 DEF Announce, Go, IInv, TypeOK
    <3> QED
      BY <3>1 DEF Said
  <2>4. SumFunction(Said)' + Said[c] = SumFunction(Said) + Said'[c] /\ SumFunction(Said)' \in Nat
    BY <2>2, SaidMore
  <2>5. SumFunction(Said)' = SumFunction(Said) + 1
    BY <1>1, <2>3, <2>4
  <2> QED
    BY <1>1, <2>1, <2>5 DEF Heard
<1> QED
  BY <1>2, <1>3, <1>4 DEF Next, Reader

-----------------------------------------------------------------------------
(* The ids *)

Joined == {c \in Clients : reader[c] # "off"}

(* The counter of ids never runs ahead of the clients that joined.          *)
CountBound == sem[0] <= 2 + Cardinality(Joined)

Owners(k) == {c \in Clients : myId[c] \in 1..k}

LEMMA JoinedFinite == IsFiniteSet(Joined) /\ Cardinality(Joined) \in Nat
BY ClientsFinite, FS_Subset, FS_CardinalityType DEF Joined

LEMMA JoinJoined ==
    ASSUME IInv, NEW c \in Clients, Join(c)
    PROVE  Cardinality(Joined)' = Cardinality(Joined) + 1
<1>1. c \notin Joined /\ Joined' = Joined \cup {c}
  BY DEF Join, Go, Joined, IInv, TypeOK
<1> QED
  BY <1>1, JoinedFinite, FS_AddElement

LEMMA JoinedStays ==
    ASSUME IInv, [Next]_vars, ~ \E c \in Clients : Join(c) PROVE Joined' = Joined
<1>1. CASE Server \/ Kill \/ UNCHANGED vars
  BY <1>1 DEF Joined, Server, Start, SetCount, SetSync, Detect, Wake, Close, Kill, clientVars, vars
<1>2. ASSUME NEW c \in Clients, ReadId(c) \/ Type(c) \/ Announce(c) \/ CopyBegin(c) \/ CopyEnd(c)
                                \/ ClientGone(c) \/ Draw(c)
      PROVE  Joined' = Joined
  BY <1>2 DEF Joined, ReadId, Type, Announce, CopyBegin, CopyEnd, ClientGone, Draw, Go, clientVars,
     IInv, TypeOK
<1> QED
  BY <1>1, <1>2 DEF Next, Reader

(* Ids are read once, from the counter; the counter goes up with a client   *)
(* only, and else down (a drawer with the id 0 takes from it) or back to 2. *)
LEMMA CounterSteps ==
    ASSUME IInv, [Next]_vars
    PROVE  /\ sem[0] \in Nat
           /\ \/ \E c \in Clients : Join(c) /\ sem'[0] = sem[0] + 1 /\ myId' = myId
              \/ SetCount /\ sem'[0] = 2 /\ myId' = myId /\ Joined' = Joined
              \/ \E c \in Clients : ReadId(c) /\ sem' = sem /\ Joined' = Joined
              \/ sem'[0] <= sem[0] /\ sem'[0] \in Nat /\ myId' = myId /\ Joined' = Joined
<1> USE Indices DEF IInv, TypeOK
<1>1. sem[0] \in Nat
  OBVIOUS
<1>2. ASSUME NEW c \in Clients, Join(c) PROVE sem'[0] = sem[0] + 1 /\ myId' = myId
  BY <1>2 DEF Join, Semop
<1>3. CASE SetCount
  <2>1. sem'[0] = 2 /\ myId' = myId /\ Joined' = Joined
    BY <1>3 DEF SetCount, clientVars, Joined
  <2> QED
    BY <1>1, <1>3, <2>1
<1>4. ASSUME NEW c \in Clients, ReadId(c) PROVE sem' = sem /\ Joined' = Joined
  BY <1>4 DEF ReadId, Go, Joined
<1>5. CASE Start \/ SetSync \/ Detect \/ Wake \/ Close \/ Kill \/ UNCHANGED vars
  <2>1. sem'[0] = sem[0] /\ myId' = myId /\ Joined' = Joined
    BY <1>5 DEF Start, SetSync, Detect, Wake, Close, Kill, Semop, ServerGo, clientVars, vars, Joined,
       LoopInRange
  <2> QED
    BY <1>1, <2>1
<1>6. ASSUME NEW c \in Clients, Type(c) \/ Announce(c) \/ CopyBegin(c) \/ CopyEnd(c)
                                \/ ClientGone(c) \/ Draw(c)
      PROVE  sem'[0] <= sem[0] /\ sem'[0] \in Nat /\ myId' = myId /\ Joined' = Joined
  <2>1. sem'[0] = sem[0] \/ (sem[0] > 0 /\ sem'[0] = sem[0] - 1)
    BY <1>6 DEF Type, Announce, CopyBegin, CopyEnd, ClientGone, Draw, Semop
  <2>2. myId' = myId
    BY <1>6 DEF Type, Announce, CopyBegin, CopyEnd, ClientGone, Draw, clientVars
  <2>3. Joined' = Joined
    BY <1>6 DEF Joined, Type, Announce, CopyBegin, CopyEnd, ClientGone, Draw, Go, clientVars
  <2> QED
    BY <1>1, <2>1, <2>2, <2>3
<1> QED
  BY <1>1, <1>2, <1>3, <1>4, <1>5, <1>6 DEF Next, Server, Reader

LEMMA CountBoundNext == ASSUME IInv, CountBound, [Next]_vars PROVE CountBound'
<1>1. Cardinality(Joined) \in Nat
  BY JoinedFinite
<1>2. ASSUME Joined' = Joined, sem'[0] <= sem[0] \/ sem'[0] = 2, sem'[0] \in Nat, sem[0] \in Nat
      PROVE  CountBound'
  BY <1>1, <1>2 DEF CountBound
<1>3. ASSUME NEW c \in Clients, Join(c), sem'[0] = sem[0] + 1 PROVE CountBound'
  <2>1. sem[0] \in Nat
    BY Indices DEF IInv, TypeOK
  <2>2. Cardinality(Joined)' = Cardinality(Joined) + 1
    BY <1>3, JoinJoined
  <2> QED
    BY <1>1, <1>3, <2>1, <2>2 DEF CountBound
<1> QED
  BY <1>2, <1>3, CounterSteps

(* While the counter counts every client that joined, an id read from it is *)
(* above the number of ids given out; and it counts them again, once it did *)
(* not, only when there is no client.                                       *)
LEMMA RanksNext ==
    ASSUME IInv, CountBound, IdsNotBelowRank, [Next]_vars PROVE IdsNotBelowRank'
<1>1. Cardinality(Joined) \in Nat /\ IsFiniteSet(Joined)
  BY JoinedFinite
<1>2. SUFFICES ASSUME CountIntact', NEW k \in 2..(2 + Cardinality(Clients))
               PROVE  Cardinality(Owners(k))' <= k - 2
  BY DEF IdsNotBelowRank, Owners
<1>3. sem'[0] = 2 + Cardinality(Joined)'
  BY <1>2 DEF CountIntact, Joined
<1>4. ASSUME CountIntact PROVE Cardinality(Owners(k)) <= k - 2
  BY <1>4 DEF IdsNotBelowRank, Owners
<1>5. CountIntact <=> sem[0] = 2 + Cardinality(Joined)
  BY DEF CountIntact, Joined
<1>6. CASE myId' = myId /\ CountIntact
  <2>1. Owners(k)' = Owners(k)
    BY <1>6 DEF Owners
  <2> QED
    BY <1>4, <1>6, <2>1
<1>7. CASE \E c \in Clients : Join(c) /\ sem'[0] = sem[0] + 1 /\ myId' = myId
  <2>1. CountIntact
    BY <1>1, <1>3, <1>5, <1>7, CounterSteps, JoinJoined
  <2> QED
    BY <1>6, <1>7, <2>1
<1>8. CASE SetCount /\ sem'[0] = 2 /\ myId' = myId /\ Joined' = Joined
  <2>1. Joined = {}
    BY <1>1, <1>3, <1>8, FS_EmptySet
  <2>2. Owners(k)' = {}
    BY <1>8, <2>1 DEF Joined, Owners, IInv, IdUnread
  <2> QED
    BY <2>2, FS_EmptySet
<1>9. CASE \E c \in Clients : ReadId(c) /\ sem' = sem /\ Joined' = Joined
  <2>1. PICK c \in Clients : ReadId(c) /\ sem' = sem /\ Joined' = Joined
    BY <1>9
  <2>2. CountIntact
    BY <1>3, <1>5, <2>1
  <2>3. CASE k < sem[0]
    <3>1. Owners(k)' = Owners(k)
      <4>1. sem[0] \in Nat /\ myId \in [Clients -> Nat] /\ myId' = [myId EXCEPT ![c] = sem[0]]
            /\ myId[c] = 0
        BY <2>1, CounterSteps DEF ReadId, Go, IInv, TypeOK, IdUnread
      <4> QED
        BY <2>3, <4>1 DEF Owners
    <3> QED
      BY <1>4, <2>2, <3>1
  <2>4. CASE k >= sem[0]
    <3>1. Owners(k)' \subseteq Joined
      <4>1. IInv'
        BY NextIInv
      <4>2. \A d \in Clients : reader'[d] = "off" => myId'[d] = 0
        BY <4>1 DEF IInv, IdUnread
      <4> QED
        BY <2>1, <4>2 DEF Owners, Joined
    <3>2. Cardinality(Owners(k)') <= Cardinality(Joined) /\ Cardinality(Owners(k)') \in Nat
      BY <1>1, <3>1, FS_Subset, FS_CardinalityType
    <3> QED
      BY <1>1, <1>5, <2>2, <2>4, <3>2, CounterSteps
  <2> QED
    BY <2>3, <2>4, CounterSteps
<1>10. CASE sem'[0] <= sem[0] /\ sem'[0] \in Nat /\ myId' = myId /\ Joined' = Joined
  <2>1. CountIntact
    BY <1>1, <1>3, <1>5, <1>10, CounterSteps DEF CountBound
  <2> QED
    BY <1>6, <1>10, <2>1
<1> QED
  BY <1>7, <1>8, <1>9, <1>10, CounterSteps

-----------------------------------------------------------------------------
(* What must be known of all clients and lines for these three to hold.     *)
Counts == /\ Unshown /\ WakeupsConserved
          /\ LinesTyped /\ Heard
          /\ CountBound /\ IdsNotBelowRank

LEMMA InitCounts == Init => Counts
<1> SUFFICES ASSUME Init PROVE Counts
  OBVIOUS
<1>1. Unshown /\ LinesTyped
  BY DEF Init, Unshown, LinesTyped
<1>2. WakeupsConserved
  <2>1. ASSUME NEW i \in Wakers PROVE Owed(i, detected - 0) /\ ~Pending(i)
    <3>1. \A c \in {d \in Clients : myId[d] = i} : shown[c] = 0
      BY DEF Init
    <3>2. DrawnFrom(i) = 0
      BY <3>1, ClientsFinite, FS_Subset, SumZero DEF DrawnFrom
    <3> QED
      BY <3>2, Indices DEF Init, Owed, Pending
  <2> QED
    BY <2>1, WakeupsCases
<1>3. Heard
  <2>1. IInv /\ LinesTyped
    BY <1>1, InitIInv
  <2>2. SumFunction(Said) \in Nat
    BY <2>1, SaidNat
  <2> QED
    BY <2>2, Indices DEF Init, Heard, Undetected
<1>4. CountBound
  BY JoinedFinite, Indices DEF Init, CountBound
<1>5. IdsNotBelowRank
  <2>1. ASSUME NEW k \in 2..(2 + Cardinality(Clients))
        PROVE  Cardinality({c \in Clients : myId[c] \in 1..k}) <= k - 2
    <3>1. {c \in Clients : myId[c] \in 1..k} = {}
      BY DEF Init
    <3>2. Cardinality({c \in Clients : myId[c] \in 1..k}) = 0
      BY <3>1, FS_EmptySet
    <3>3. k \in Int /\ k >= 2
      BY ClientsFinite, FS_CardinalityType
    <3> QED
      BY <3>2, <3>3
  <2> QED
    BY <2>1 DEF IdsNotBelowRank
<1> QED
  BY <1>1, <1>2, <1>3, <1>4, <1>5 DEF Counts

LEMMA NextCounts == IInv /\ Counts /\ IInv' /\ [Next]_vars => Counts'
BY UnshownNext, WakeupsNext, LinesTypedNext, HeardNext, CountBoundNext, RanksNext DEF Counts

LEMMA CountsHold == Spec => []Counts
BY InitCounts, NextCounts, Inductive, PTL DEF Spec

-----------------------------------------------------------------------------
(* The sync semaphore is binary and stays raised through every round, with  *)
(* any number of clients joining, leaving and being killed, and any number  *)
(* of server restarts, as long as no client holds the id 1.                 *)
THEOREM Rounds == Spec => []RoundDiscipline
<1>1. IInv => RoundDiscipline
  BY DEF IInv
<1> QED
  BY <1>1, Inductive, PTL

(* No wakeup without a round, none lost while the server lives, and no      *)
(* round without an announced line: for any number of clients that share    *)
(* ids, join late and are killed, and of servers that are killed.           *)
THEOREM Messages == Spec => []MessagesCounted
<1>1. IInv /\ Counts => MessagesCounted
  <2> SUFFICES ASSUME IInv, Counts PROVE NoPhantomMessage
    BY DEF IInv, Counts, MessagesCounted
  <2>1. SumFunction(Said) \in Nat /\ detected \in Nat /\ Undetected \in {0, 1}
    BY SaidNat DEF Counts, IInv, TypeOK, Undetected
  <2>2. detected <= SumFunction(Said)
    BY <2>1 DEF Counts, Heard
  <2> QED
    BY <2>2 DEF NoPhantomMessage, Said
<1> QED
  BY <1>1, Inductive, CountsHold, PTL

(* Clients that join together may read one id, but never more ids up to k   *)
(* than k - 2, while the counter counts them all.                           *)
THEOREM Ids == Spec => []IdsNotBelowRank
<1>1. Counts => IdsNotBelowRank
  BY DEF Counts
<1> QED
  BY <1>1, CountsHold, PTL
=============================================================================
