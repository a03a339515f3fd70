------------------------------- MODULE ShmChat -------------------------------
(***************************************************************************)
(* les17_shared_memory: a chat through one shared buffer and an array of   *)
(* System V semaphores.  Semaphore 0 hands out client ids, semaphore 1 is  *)
(* the sync signal of a new line, semaphores 2.. wake the drawers of the   *)
(* clients.  The semaphores outlive the processes that use them.           *)
(*                                                                         *)
(* semop is atomic, so each call is one action; strcpy into the shared     *)
(* buffer is not, so it begins (CopyBegin) and ends (CopyEnd), and a       *)
(* reader in between sees a torn line.  A line is <<its author, its        *)
(* number>>.  The server's test for "quit" compares against a buffer that  *)
(* always starts with a nickname, so it never stops the server: it stops   *)
(* by being killed (Kill), as a client may be (ClientGone).                *)
(***************************************************************************)
EXTENDS Integers, FiniteSets, Functions

CONSTANTS MAX_CLIENTS, Clients,
          MaxLines,   \* bound: lines typed in all
          MaxKills,   \* bound: times the server is killed
          MayLeave    \* clients may quit and be killed

ASSUME ChatConstants == /\ MAX_CLIENTS \in Nat \ {0} /\ IsFiniteSet(Clients)
                        /\ MaxLines \in Nat /\ MaxKills \in Nat
                        /\ MayLeave \in BOOLEAN

Semaphores == 0..(MAX_CLIENTS + 1)
Wakers == 2..(MAX_CLIENTS + 1)     \* the semaphores the server raises in a round
Empty == <<"", 0>>                 \* the buffer before the first line
Torn == <<"torn", 0>>              \* a mixture of two lines

VARIABLES sem,        \* values of the semaphores
          server,     \* control point of the server
          next,       \* the server's loop variable i
          detected,   \* number of "message!" lines the server printed
          kills,      \* times the server was killed
          reader,     \* control point of each client's main and reader_thread
          myId,       \* myId of each client, 0 until it is read
          line,       \* number of the line each client typed last
          quit,       \* isExit of each client's reader_thread
          buffer,     \* public_buff
          mixed,      \* copies to the buffer overlap
          shown,      \* how many times each drawer was woken and printed the buffer
          announced   \* history: the line announced last

serverVars == <<server, next, detected, kills>>
clientVars == <<reader, myId, line, quit>>
bufferVars == <<buffer, mixed>>
vars == <<sem, serverVars, clientVars, bufferVars, shown, announced>>

Init == /\ sem = [i \in Semaphores |-> 0]
        /\ server = "down" /\ next = 2 /\ detected = 0 /\ kills = 0
        /\ reader = [c \in Clients |-> "off"]
        /\ myId = [c \in Clients |-> 0]
        /\ line = [c \in Clients |-> 0]
        /\ quit = [c \in Clients |-> FALSE]
        /\ buffer = Empty /\ mixed = FALSE
        /\ shown = [c \in Clients |-> 0]
        /\ announced = Empty

Semop(i, d) == sem' = [sem EXCEPT ![i] = @ + d]

-----------------------------------------------------------------------------
(* The server *)

ServerGo(from, to) == server = from /\ server' = to

(* semget finds the array of an earlier server, or creates a zeroed one.    *)
Start == /\ ServerGo("down", "setcount")
         /\ UNCHANGED <<sem, next, detected, kills, clientVars, bufferVars, shown, announced>>

SetCount == /\ ServerGo("setcount", "setsync")
            /\ sem' = [sem EXCEPT ![0] = 2]
            /\ UNCHANGED <<next, detected, kills, clientVars, bufferVars, shown, announced>>

SetSync == /\ ServerGo("setsync", "wait")
           /\ sem' = [sem EXCEPT ![1] = 0]
           /\ UNCHANGED <<next, detected, kills, clientVars, bufferVars, shown, announced>>

(* {1,-1}, {1,0}, {1,+1} in one semop: passes at value 1 and keeps it.      *)
Detect == /\ sem[1] = 1
          /\ ServerGo("wait", "round")
          /\ next' = 2
          /\ detected' = detected + 1
          /\ UNCHANGED <<sem, kills, clientVars, bufferVars, shown, announced>>

(* Mutant: the loop ends one semaphore early.                               *)
WakeOneTooFew ==
    /\ ServerGo("round", IF next < MAX_CLIENTS THEN "round" ELSE "close")
    /\ Semop(next, 1)
    /\ next' = next + 1
    /\ UNCHANGED <<detected, kills, clientVars, bufferVars, shown, announced>>

Wake == /\ ServerGo("round", IF next < MAX_CLIENTS + 1 THEN "round" ELSE "close")
        /\ Semop(next, 1)
        /\ next' = next + 1
        /\ UNCHANGED <<detected, kills, clientVars, bufferVars, shown, announced>>

(* Mutants: the sync semaphore is not lowered; the sem_op that lowers it is *)
(* left at 0, which waits for zero.                                         *)
CloseWithoutReset == /\ ServerGo("close", "wait")
                     /\ UNCHANGED <<sem, next, detected, kills, clientVars, bufferVars, shown, announced>>

CloseWaitsForZero == /\ sem[1] = 0
                     /\ ServerGo("close", "wait")
                     /\ UNCHANGED <<sem, next, detected, kills, clientVars, bufferVars, shown, announced>>

Close == /\ sem[1] > 0
         /\ ServerGo("close", "wait")
         /\ Semop(1, -1)
         /\ UNCHANGED <<next, detected, kills, clientVars, bufferVars, shown, announced>>

Kill == /\ server # "down" /\ kills < MaxKills
        /\ server' = "down" /\ kills' = kills + 1
        /\ UNCHANGED <<sem, next, detected, clientVars, bufferVars, shown, announced>>

Server == Start \/ SetCount \/ SetSync \/ Detect \/ Wake \/ Close

-----------------------------------------------------------------------------
(* A client: main up to the threads, then the reader and the drawer *)

Go(c, from, to) == /\ reader[c] = from
                   /\ reader' = [reader EXCEPT ![c] = to]

(* The semaphore array exists once a server has run semget.                 *)
Created == server # "down" \/ kills > 0

Join(c) == /\ Created
           /\ Go(c, "off", "getval")
           /\ Semop(0, 1)
           /\ UNCHANGED <<serverVars, myId, line, quit, bufferVars, shown, announced>>

(* Mutant: ids counted from the client before.                              *)
ReadIdOneTooLow(c) ==
    /\ Go(c, "getval", "type")
    /\ myId' = [myId EXCEPT ![c] = sem[0] - 1]
    /\ UNCHANGED <<sem, serverVars, line, quit, bufferVars, shown, announced>>

ReadId(c) == /\ Go(c, "getval", "type")
             /\ myId' = [myId EXCEPT ![c] = sem[0]]
             /\ UNCHANGED <<sem, serverVars, line, quit, bufferVars, shown, announced>>

Type(c) == /\ SumFunction(line) < MaxLines
           /\ Go(c, "type", "signal")
           /\ line' = [line EXCEPT ![c] = @ + 1]
           /\ \E isQuit \in {FALSE, MayLeave} : quit' = [quit EXCEPT ![c] = isQuit]
           /\ UNCHANGED <<sem, serverVars, myId, bufferVars, shown, announced>>

(* Mutant: the wait for zero is dropped.                                    *)
AnnounceAtOnce(c) == /\ Go(c, "signal", "copy")
                     /\ Semop(1, 1)
                     /\ announced' = <<c, line[c]>>
                     /\ UNCHANGED <<serverVars, myId, line, quit, bufferVars, shown>>

(* {1,0}, {1,+1} in one semop; the line is not in the buffer yet.           *)
Announce(c) == /\ sem[1] = 0
               /\ Go(c, "signal", "copy")
               /\ Semop(1, 1)
               /\ announced' = <<c, line[c]>>
               /\ UNCHANGED <<serverVars, myId, line, quit, bufferVars, shown>>

Copying == {c \in Clients : reader[c] = "copying"}

CopyBegin(c) == /\ Go(c, "copy", "copying")
                /\ buffer' = Torn
                /\ mixed' = (Copying # {})
                /\ UNCHANGED <<sem, serverVars, myId, line, quit, shown, announced>>

(* The loop ends after a "quit" line; main joins the reader and returns.    *)
CopyEnd(c) == /\ Go(c, "copying", IF quit[c] THEN "gone" ELSE "type")
              /\ \/ buffer' = <<c, line[c]>>
                 \/ mixed /\ buffer' = Torn
              /\ mixed' = (mixed /\ Copying # {c})
              /\ UNCHANGED <<sem, serverVars, myId, line, quit, shown, announced>>

(* A client killed at any point: no semaphore is given back.                *)
ClientGone(c) == /\ MayLeave /\ reader[c] \notin {"off", "gone"}
                 /\ reader' = [reader EXCEPT ![c] = "gone"]
                 /\ UNCHANGED <<sem, serverVars, myId, line, quit, bufferVars, shown, announced>>

Drawing(c) == reader[c] \in {"type", "signal", "copy", "copying"}

(* The drawer waits on semaphore myId, then prints the buffer as it is.     *)
(* With an id past the array semop fails at once, and the drawer prints the *)
(* buffer over and over, which changes no state.                            *)
Draw(c) == /\ Drawing(c) /\ myId[c] \in Semaphores
           /\ sem[myId[c]] > 0
           /\ Semop(myId[c], -1)
           /\ shown' = [shown EXCEPT ![c] = @ + 1]
           /\ UNCHANGED <<serverVars, clientVars, bufferVars, announced>>

Reader(c) == Join(c) \/ ReadId(c) \/ Type(c) \/ Announce(c) \/ CopyBegin(c) \/ CopyEnd(c)

Next == \/ Server \/ Kill
        \/ \E c \in Clients : Reader(c) \/ ClientGone(c) \/ Draw(c)

Spec == Init /\ [][Next]_vars

(* The scheduler runs the server and the threads of a client that has work; *)
(* waiters on a semaphore are served in order, so a client that keeps       *)
(* finding the sync semaphore at 0 gets through (SF).  Nobody has to type,  *)
(* to join, or to start a server again after it is killed.                  *)
FairSpec == /\ Spec
            /\ WF_vars(server # "down" /\ Server)
            /\ \A c \in Clients : /\ SF_vars(Announce(c))
                                  /\ WF_vars(CopyBegin(c) \/ CopyEnd(c))
                                  /\ WF_vars(Draw(c))

-----------------------------------------------------------------------------
(* Properties *)

Lines == (Clients \X Nat) \cup {Empty, Torn}

TypeOK ==
    /\ sem \in [Semaphores -> Nat]
    /\ server \in {"down", "setcount", "setsync", "wait", "round", "close"}
    /\ next \in 2..(MAX_CLIENTS + 2)
    /\ detected \in Nat /\ kills \in 0..MaxKills
    /\ reader \in [Clients -> {"off", "getval", "type", "signal", "copy", "copying", "gone"}]
    /\ myId \in [Clients -> Nat]
    /\ line \in [Clients -> Nat]
    /\ quit \in [Clients -> BOOLEAN]
    /\ buffer \in Lines /\ mixed \in BOOLEAN
    /\ shown \in [Clients -> Nat]
    /\ announced \in Lines

(* The sync semaphore is binary, and stays raised for the whole of a round, *)
(* so no client announces a line while the server wakes the drawers and the *)
(* server's own decrement never blocks: also across kills and restarts.     *)
(* The exception is a client that joined between the semget and the SETVAL  *)
(* of the first server: it may read the id 1 and drain this semaphore.      *)
RoundDiscipline ==
    /\ sem[1] \in {0, 1}
    /\ (\A c \in Clients : myId[c] # 1) =>
          (server \in {"round", "close"} => sem[1] = 1)

(* Lines drawn by the clients that wait on semaphore i.                     *)
DrawnFrom(i) == SumFunctionOnSet(shown, {c \in Clients : myId[c] = i})

(* Whether the round in progress has still to raise semaphore i.            *)
Pending(i) == server = "round" /\ i >= next

(* Every round wakes every semaphore exactly once: the wakeups a drawer has *)
(* had and those it has still to take add up to the rounds so far, however  *)
(* clients join, leave and share ids.  A killed server drops the rest of    *)
(* its round, and a wakeup is never made up.                                *)
WakeupsConserved ==
    \A i \in Wakers :
        LET due == detected - IF Pending(i) THEN 1 ELSE 0
        IN  /\ sem[i] + DrawnFrom(i) <= due
            /\ kills = 0 => sem[i] + DrawnFrom(i) = due

(* The server prints "message!" at most once per announced line, also when  *)
(* it restarts over the semaphores of a server that died in mid-round.      *)
NoPhantomMessage ==
    detected <= SumFunction([c \in Clients |->
                    IF reader[c] = "signal" THEN line[c] - 1 ELSE line[c]])

(* Semaphore 0 counts every client that ever joined: no client came before  *)
(* the counter was set and no server has been restarted over it.            *)
CountIntact == sem[0] = 2 + Cardinality({c \in Clients : reader[c] # "off"})

(* The join is a semop and a later GETVAL, so clients that join together    *)
(* may read the same id, but only one that is too high: ids up to k never   *)
(* go to more than k - 2 clients, and the first of them is 3.  Hence at     *)
(* most MAX_CLIENTS - 1 clients ever have a semaphore to wait on.           *)
IdsNotBelowRank ==
    CountIntact =>
        \A k \in 2..(2 + Cardinality(Clients)) :
            Cardinality({c \in Clients : myId[c] \in 1..k}) <= k - 2

(* An announced line is served, unless the server is killed.                *)
AnnouncementServed == sem[1] = 1 ~> (sem[1] = 0 \/ server = "down")

(* A client that has typed a line gets to announce it, however many others  *)
(* compete for the sync semaphore.                                          *)
LineAnnounced ==
    \A c \in Clients : reader[c] = "signal" ~> (reader[c] # "signal" \/ server = "down")

(* A drawer with a semaphore of its own.                                    *)
OwnSemaphore(c) == /\ Drawing(c) /\ myId[c] \in Wakers
                   /\ \A d \in Clients \ {c} : myId[d] # myId[c]

(* Every round draws on the screen of every client that has a semaphore of  *)
(* its own, also of one that joins after the round.                         *)
RoundReachesEveryScreen ==
    \A c \in Clients, k \in 1..MaxLines :
        (detected >= k /\ OwnSemaphore(c))
            ~> (shown[c] >= k \/ ~OwnSemaphore(c) \/ kills > 0)

(* The counting of the semaphores: no round without a line and no wakeup    *)
(* without a round, at any kill of the server or of a client.               *)
MessagesCounted == TypeOK /\ WakeupsConserved /\ NoPhantomMessage

(* What is announced gets out of the way, and what is typed is announced.   *)
AnnouncementsEnd == AnnouncementServed /\ LineAnnounced

-----------------------------------------------------------------------------
(* What a comment in the code says, and the code does not do *)

(* server.c: "semaphore 1 is detecting a new input string": when the server *)
(* detects one, the line that was announced is the one in the buffer.       *)
DetectedInputIsNew == (server = "round" /\ next = 2) => buffer = announced
=============================================================================
