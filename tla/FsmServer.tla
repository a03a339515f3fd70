------------------------------ MODULE FsmServer ------------------------------
(***************************************************************************)
(* les21_FSM: a UDP server of one parent and a pool of forked handlers,    *)
(* each a finite state machine.  The parent receives the first datagram of *)
(* a client and queues its address on a System V message queue; a waiting  *)
(* handler takes it, greets the client from a socket of its own and talks  *)
(* to whoever sends to that socket, until a string is too short.           *)
(*                                                                         *)
(* Ctrl-C reaches the whole process group (Interrupt).  signal() restarts  *)
(* recvfrom, but never msgrcv, which fails with EINTR; a handler that has  *)
(* tested isExit and is not in msgrcv yet misses the signal.  The clients  *)
(* are the environment: les21_FSM/src/client.c does not compile.           *)
(***************************************************************************)
EXTENDS Integers, FiniteSets, Sequences, Functions

CONSTANTS Clients, Handlers,   \* as many handlers as the parent forks (10)
          QueueCapacity,       \* clients the message queue holds
          MaxCalls,            \* bound: datagrams sent to the parent, in all
          MaxSent,             \* bound: datagrams sent to the handlers, in all
          MaxInterrupts        \* bound: times Ctrl-C is pressed

ASSUME ServerConstants == /\ IsFiniteSet(Handlers) /\ Handlers # {}
                          /\ QueueCapacity \in Nat \ {0}
                          /\ {MaxCalls, MaxSent, MaxInterrupts} \subseteq Nat

NoClient == "none"

VARIABLES state,       \* the parent's state, or main_handler, exit, returned
          isExit,      \* the parent's isExit
          errno,       \* the parent's errno # 0
          fd,          \* the bytes of msgbuf.fd, which nobody initialises, are -1
          i,           \* turns of the fork loop
          waits,       \* calls of wait in main_handler
          reaped,      \* handlers that wait has returned
          client,      \* the address the parent received last
          queue,       \* the message queue
          pc,          \* control point of each handler
          hstate,      \* state of each handler
          hExit,       \* isExit of each handler
          hErrno,      \* errno # 0 of each handler
          peer,        \* buff.address of each handler
          inbox,       \* datagrams at the socket of each handler
          calls,       \* datagrams of each client the parent received
          greeted,     \* hellos of each handler to each client
          sent,        \* datagrams sent to the handlers
          interrupts   \* times Ctrl-C was pressed

parentVars == <<state, isExit, errno, i, waits, reaped, client>>
handlerVars == <<pc, hstate, hExit, hErrno, peer, greeted>>
vars == <<parentVars, handlerVars, fd, queue, inbox, calls, sent, interrupts>>

Init == /\ state = "CREATE_QUEUE" /\ isExit = FALSE /\ errno = FALSE
        /\ fd \in BOOLEAN
        /\ i = 0 /\ waits = 0 /\ reaped = {}
        /\ client = NoClient /\ queue = <<>>
        /\ pc = [h \in Handlers |-> "unborn"]
        /\ hstate = [h \in Handlers |-> "WAIT_FOR_CLIENT"]
        /\ hExit = [h \in Handlers |-> FALSE]
        /\ hErrno = [h \in Handlers |-> FALSE]
        /\ peer = [h \in Handlers |-> NoClient]
        /\ inbox = [h \in Handlers |-> <<>>]
        /\ calls = [c \in Clients |-> 0]
        /\ greeted = [h \in Handlers |-> [c \in Clients |-> 0]]
        /\ sent = 0 /\ interrupts = 0

Alive(h) == pc[h] \notin {"unborn", "ended"}

-----------------------------------------------------------------------------
(* The parent *)

(* The while test before a state's case.                                    *)
In(s) == state = s /\ ~isExit

Return == /\ isExit
          /\ state \in {"CREATE_QUEUE", "CREATE_HANDLERS", "WAIT_FOR_CLIENT", "ERROR"}
          /\ state' = "returned"
          /\ UNCHANGED <<isExit, errno, i, waits, reaped, client, handlerVars, fd,
                         queue, inbox, calls, sent, interrupts>>

(* bind or msgget may have failed.                                          *)
CreateQueue == /\ In("CREATE_QUEUE")
               /\ errno' \in BOOLEAN
               /\ state' = IF errno' THEN "ERROR" ELSE "CREATE_HANDLERS"
               /\ UNCHANGED <<isExit, i, waits, reaped, client, handlerVars, fd,
                              queue, inbox, calls, sent, interrupts>>

CreateHandlers == /\ In("CREATE_HANDLERS")
                  /\ state' = "forking"
                  /\ UNCHANGED <<isExit, errno, i, waits, reaped, client, handlerVars,
                                 fd, queue, inbox, calls, sent, interrupts>>

(* fork returns -1: the loop goes on, and errno stays set.                  *)
ForkFails == /\ state = "forking" /\ i < Cardinality(Handlers)
             /\ i' = i + 1
             /\ errno' = TRUE
             /\ UNCHANGED <<state, isExit, waits, reaped, client, handlerVars, fd,
                            queue, inbox, calls, sent, interrupts>>

(* A child starts with its parent's isExit and errno.                       *)
Fork(h) == /\ state = "forking" /\ i < Cardinality(Handlers)
           /\ pc[h] = "unborn"
           /\ i' = i + 1
           /\ pc' = [pc EXCEPT ![h] = "while"]
           /\ hExit' = [hExit EXCEPT ![h] = isExit]
           /\ hErrno' = [hErrno EXCEPT ![h] = errno]
           /\ UNCHANGED <<state, isExit, errno, waits, reaped, client, hstate, peer,
                          greeted, fd, queue, inbox, calls, sent, interrupts>>

(* Installs main_handler; until here Ctrl-C only sets isExit.               *)
Forked == /\ state = "forking" /\ i = Cardinality(Handlers)
          /\ state' = IF errno THEN "ERROR" ELSE "WAIT_FOR_CLIENT"
          /\ UNCHANGED <<isExit, errno, i, waits, reaped, client, handlerVars, fd,
                         queue, inbox, calls, sent, interrupts>>

WaitForClient(c) ==
    /\ In("WAIT_FOR_CLIENT") /\ SumFunction(calls) < MaxCalls
    /\ state' = "QUEUE_CLIENT"
    /\ client' = c
    /\ calls' = [calls EXCEPT ![c] = @ + 1]
    /\ UNCHANGED <<isExit, errno, i, waits, reaped, handlerVars, fd, queue, inbox,
                   sent, interrupts>>

(* Mutant: IPC_NOWAIT, a full queue loses the client.                       *)
QueueClientNoWait ==
    /\ In("QUEUE_CLIENT")
    /\ queue' = IF Len(queue) < QueueCapacity THEN Append(queue, client) ELSE queue
    /\ state' = "WAIT_FOR_CLIENT"
    /\ UNCHANGED <<isExit, errno, i, waits, reaped, client, handlerVars, fd, inbox,
                   calls, sent, interrupts>>

QueueClient == /\ In("QUEUE_CLIENT")
               /\ Len(queue) < QueueCapacity
               /\ queue' = Append(queue, client)
               /\ state' = "WAIT_FOR_CLIENT"
               /\ UNCHANGED <<isExit, errno, i, waits, reaped, client, handlerVars, fd,
                              inbox, calls, sent, interrupts>>

Default == /\ In("ERROR")
           /\ isExit' = TRUE
           /\ UNCHANGED <<state, errno, i, waits, reaped, client, handlerVars, fd,
                          queue, inbox, calls, sent, interrupts>>

(* main_handler calls wait as often as main called fork; without children   *)
(* left wait returns at once.                                               *)
Wait == /\ state = "main_handler" /\ waits < Cardinality(Handlers)
        /\ LET ended == {h \in Handlers : pc[h] = "ended"} \ reaped
           IN  \/ \E h \in ended : reaped' = reaped \cup {h}
               \/ ended = {} /\ ~(\E h \in Handlers : Alive(h)) /\ UNCHANGED reaped
        /\ waits' = waits + 1
        /\ UNCHANGED <<state, isExit, errno, i, client, handlerVars, fd, queue, inbox,
                       calls, sent, interrupts>>

Exit == /\ state = "main_handler" /\ waits = Cardinality(Handlers)
        /\ state' = "exit"
        /\ UNCHANGED <<isExit, errno, i, waits, reaped, client, handlerVars, fd, queue,
                       inbox, calls, sent, interrupts>>

-----------------------------------------------------------------------------
(* A handler *)

At(h, p) == pc[h] = p
Goto(h, p) == pc' = [pc EXCEPT ![h] = p]

While(h) ==
    /\ At(h, "while")
    /\ IF hExit[h] THEN Goto(h, "ended")
       ELSE Goto(h, CASE hstate[h] = "WAIT_FOR_CLIENT" -> "call"
                      [] hstate[h] = "TALKING" -> "recvfrom"
                      [] OTHER -> "sorry")
    /\ UNCHANGED <<parentVars, hstate, hExit, hErrno, peer, greeted, fd, queue, inbox,
                   calls, sent, interrupts>>

(* From here on a signal interrupts the call.                               *)
Call(h) == /\ At(h, "call") /\ Goto(h, "msgrcv")
           /\ UNCHANGED <<parentVars, hstate, hExit, hErrno, peer, greeted, fd, queue,
                          inbox, calls, sent, interrupts>>

(* Mutant: the state is set before the result of msgrcv is looked at.       *)
TakeThenCheck(h) ==
    /\ At(h, "msgrcv") /\ queue # <<>>
    /\ Goto(h, "while")
    /\ queue' = Tail(queue)
    /\ peer' = [peer EXCEPT ![h] = Head(queue)]
    /\ hstate' = [hstate EXCEPT ![h] = "TALKING"]
    /\ IF fd \/ hErrno[h]
       THEN hExit' = [hExit EXCEPT ![h] = TRUE] /\ UNCHANGED greeted
       ELSE greeted' = [greeted EXCEPT ![h][Head(queue)] = @ + 1] /\ UNCHANGED hExit
    /\ UNCHANGED <<parentVars, hErrno, fd, inbox, calls, sent, interrupts>>

(* The client is gone from the queue even if the handler gives up.          *)
Take(h) == /\ At(h, "msgrcv") /\ queue # <<>>
           /\ Goto(h, "while")
           /\ queue' = Tail(queue)
           /\ peer' = [peer EXCEPT ![h] = Head(queue)]
           /\ IF fd \/ hErrno[h]
              THEN hExit' = [hExit EXCEPT ![h] = TRUE] /\ UNCHANGED <<hstate, greeted>>
              ELSE /\ hstate' = [hstate EXCEPT ![h] = "TALKING"]
                   /\ greeted' = [greeted EXCEPT ![h][Head(queue)] = @ + 1]
                   /\ UNCHANGED hExit
           /\ UNCHANGED <<parentVars, hErrno, fd, inbox, calls, sent, interrupts>>

(* Mutant: the call is repeated after a signal.                             *)
RetryMsgrcv(h) == /\ At(h, "EINTR") /\ Goto(h, "msgrcv")
                  /\ hErrno' = [hErrno EXCEPT ![h] = TRUE]
                  /\ UNCHANGED <<parentVars, hstate, hExit, peer, greeted, fd, queue,
                                 inbox, calls, sent, interrupts>>

Interrupted(h) == /\ At(h, "EINTR") /\ Goto(h, "while")
                  /\ hErrno' = [hErrno EXCEPT ![h] = TRUE]
                  /\ hExit' = [hExit EXCEPT ![h] = TRUE]
                  /\ UNCHANGED <<parentVars, hstate, peer, greeted, fd, queue, inbox,
                                 calls, sent, interrupts>>

(* recvfrom writes the sender over buff.address: a late datagram of an      *)
(* earlier client makes it the peer again.                                  *)
Talk(h) == /\ At(h, "recvfrom") /\ inbox[h] # <<>>
           /\ Goto(h, "while")
           /\ inbox' = [inbox EXCEPT ![h] = Tail(@)]
           /\ peer' = [peer EXCEPT ![h] = Head(inbox[h]).from]
           /\ hstate' = [hstate EXCEPT ![h] = IF Head(inbox[h]).short THEN "ERROR" ELSE @]
           /\ UNCHANGED <<parentVars, hExit, hErrno, greeted, fd, queue, calls,
                          sent, interrupts>>

Sorry(h) == /\ At(h, "sorry") /\ Goto(h, "while")
            /\ hstate' = [hstate EXCEPT ![h] = "WAIT_FOR_CLIENT"]
            /\ UNCHANGED <<parentVars, hExit, hErrno, peer, greeted, fd, queue, inbox,
                           calls, sent, interrupts>>

Handler(h) == \/ While(h) \/ Call(h) \/ Take(h) \/ Interrupted(h)
              \/ Talk(h) \/ Sorry(h)

-----------------------------------------------------------------------------
(* The environment *)

(* A client learns the address of a handler's socket from its hello.        *)
Say(c, h) == /\ greeted[h][c] > 0 /\ Alive(h)
             /\ sent < MaxSent
             /\ sent' = sent + 1
             /\ \E short \in BOOLEAN :
                   inbox' = [inbox EXCEPT ![h] = Append(@, [from |-> c, short |-> short])]
             /\ UNCHANGED <<parentVars, handlerVars, fd, queue, calls, interrupts>>

(* main_handler is installed after the last fork.                           *)
Installed == i = Cardinality(Handlers) /\ state # "forking"

(* Ctrl-C is for the foreground process group, which is the shell's again   *)
(* when the parent is gone.                                                 *)
Interrupt ==
    /\ interrupts < MaxInterrupts /\ state \notin {"exit", "returned"}
    /\ interrupts' = interrupts + 1
    /\ isExit' = TRUE
    /\ state' = IF Installed THEN "main_handler" ELSE state
    /\ hExit' = [h \in Handlers |-> hExit[h] \/ Alive(h)]
    /\ pc' = [h \in Handlers |-> IF At(h, "msgrcv") THEN "EINTR" ELSE pc[h]]
    /\ UNCHANGED <<errno, i, waits, reaped, client, hstate, hErrno, peer, greeted, fd,
                   queue, inbox, calls, sent>>

Parent == \/ Return \/ CreateQueue \/ CreateHandlers \/ ForkFails
          \/ (\E h \in Handlers : Fork(h))
          \/ Forked \/ QueueClient \/ Default \/ Wait \/ Exit

Next == \/ Parent \/ Interrupt
        \/ \E h \in Handlers : Handler(h)
        \/ \E c \in Clients : WaitForClient(c) \/ \E h \in Handlers : Say(c, h)

Spec == Init /\ [][Next]_vars

(* Processes that are not blocked are scheduled; msgsnd and msgrcv serve    *)
(* blocked processes in order (SF).  Nobody has to call, send or interrupt. *)
FairSpec == /\ Spec /\ SF_vars(Parent)
            /\ \A h \in Handlers : SF_vars(Handler(h))

-----------------------------------------------------------------------------
(* Properties *)

TypeOK ==
    /\ state \in {"CREATE_QUEUE", "CREATE_HANDLERS", "forking", "WAIT_FOR_CLIENT",
                  "QUEUE_CLIENT", "ERROR", "main_handler", "exit", "returned"}
    /\ isExit \in BOOLEAN /\ errno \in BOOLEAN /\ fd \in BOOLEAN
    /\ i \in 0..Cardinality(Handlers) /\ waits \in 0..Cardinality(Handlers)
    /\ reaped \subseteq Handlers
    /\ client \in Clients \cup {NoClient} /\ queue \in Seq(Clients)
    /\ pc \in [Handlers -> {"unborn", "while", "call", "msgrcv", "EINTR", "recvfrom",
                            "sorry", "ended"}]
    /\ hstate \in [Handlers -> {"WAIT_FOR_CLIENT", "TALKING", "ERROR"}]
    /\ hExit \in [Handlers -> BOOLEAN] /\ hErrno \in [Handlers -> BOOLEAN]
    /\ peer \in [Handlers -> Clients \cup {NoClient}]
    /\ inbox \in [Handlers -> Seq([from : Clients, short : BOOLEAN])]
    /\ calls \in [Clients -> Nat] /\ greeted \in [Handlers -> [Clients -> Nat]]
    /\ sent \in 0..MaxSent /\ interrupts \in 0..MaxInterrupts

Hellos(c) == SumFunction([h \in Handlers |-> greeted[h][c]])
Queued(c) == Cardinality({k \in DOMAIN queue : queue[k] = c})
Held(c) == IF state = "QUEUE_CLIENT" /\ client = c THEN 1 ELSE 0

(* No process has a reason to give up a client.                             *)
Sound == ~fd /\ ~errno /\ interrupts = 0

(* A client is greeted once for every datagram with which it called, by one *)
(* handler; until then it is in the parent's hands or in the queue.  Calls  *)
(* are lost only by processes that give up.                                 *)
EveryCallGreetedOnce ==
    \A c \in Clients :
        /\ Hellos(c) + Queued(c) + Held(c) <= calls[c]
        /\ Sound => Hellos(c) + Queued(c) + Held(c) = calls[c]

Board == INSTANCE Switchboard WITH
    line <- queue \o (IF state = "QUEUE_CLIENT" THEN <<client>> ELSE <<>>),
    talking <- {h \in Handlers : hstate[h] # "WAIT_FOR_CLIENT"},
    sound <- Sound

(* The pool of processes around a message queue puts calls through in the   *)
(* order they came, each to one handler that talks to nobody.               *)
ImplementsSwitchboard == Board!SSpec

(* A handler answers and apologises only to clients it has greeted, though  *)
(* every datagram may change whom it talks to.                              *)
AnswersOnlyGreeted ==
    \A h \in Handlers :
        hstate[h] \in {"TALKING", "ERROR"} => peer[h] \in Clients /\ greeted[h][peer[h]] > 0

(* What clients send does not end a handler: the pool shrinks only after    *)
(* Ctrl-C, a failed fork or an unlucky msgbuf.fd.                           *)
HandlerStays == \A h \in Handlers : At(h, "ended") => ~Sound

(* A parent that exits through main_handler leaves no handler behind.       *)
NoOrphansAfterExit == state = "exit" => \A h \in Handlers : ~Alive(h)

Idle == {h \in Handlers : Alive(h) /\ hstate[h] = "WAIT_FOR_CLIENT"}

(* As long as there are as many waiting handlers as queued clients, each of *)
(* these clients gets its hello.                                            *)
QueuedClientGreeted ==
    \A c \in Clients, n \in 1..MaxCalls :
        (state = "WAIT_FOR_CLIENT" /\ calls[c] = n /\ Cardinality(Idle) >= Len(queue))
            ~> (Hellos(c) >= n \/ ~Sound)

(* A shutdown completes when no handler missed the signal, between the test *)
(* of isExit and msgrcv, or talks to a client that says no more.            *)
ShutdownCompletes ==
    (state = "main_handler" /\ \A h \in Handlers : pc[h] \notin {"call", "msgrcv", "recvfrom"})
        ~> state = "exit"

(* The pool keeps to its clients and its parent: no strangers are answered, *)
(* no handler is lost without a cause, none is left behind, and the calls   *)
(* add up.                                                                  *)
PoolSound == /\ TypeOK /\ AnswersOnlyGreeted /\ HandlerStays /\ NoOrphansAfterExit
             /\ EveryCallGreetedOnce
=============================================================================
