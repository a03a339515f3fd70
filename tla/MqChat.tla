-------------------------------- MODULE MqChat --------------------------------
(***************************************************************************)
(* les16_IPC_objects: a chat over three System V message queues.  A client *)
(* registers on the service queue and sends its lines on the middle queue; *)
(* the server's service thread counts the registrations, its redirecting   *)
(* thread puts one copy of each line per registered client on the client   *)
(* queue, from which the printers of all clients take copies.  The queues  *)
(* outlive the processes; the count of clients does not outlive the server.*)
(*                                                                         *)
(* msgsnd and msgrcv are atomic and block on a full and on an empty queue. *)
(* A thread's test of isExit is a step of its own: the flag may change     *)
(* between the test and the msgrcv after it.  A line is <<author, number>>.*)
(***************************************************************************)
EXTENDS Integers, FiniteSets, Sequences, Functions

CONSTANTS Clients,
          QueueCapacity,  \* messages a queue holds (msg_qbytes / message size)
          MaxLines,       \* bound: lines typed in all
          MaxStarts,      \* bound: times the server is started; only the last
                          \* server is never killed
          MayQuit         \* users may type quit

ASSUME ChatConstants == /\ QueueCapacity \in Nat \ {0}
                        /\ MaxLines \in Nat /\ MaxStarts \in Nat
                        /\ MayQuit \in BOOLEAN /\ IsFiniteSet(Clients)

Queues == <<"service", "client", "middle">>   \* in the order of the msgget calls

VARIABLES created,         \* how many of Queues exist
          queue,           \* contents of each queue
          main,            \* control point of the server's main
          service_thread,  \* control point of service_thread
          redirecting,     \* control point of redirecting_thread
          isExit,          \* the server's isExit
          clients_number,
          message,         \* line redirecting_thread holds
          i,               \* its loop variable: copies sent so far
          log,             \* lines the server printed as "has written", over all starts
          starts,          \* times the server was started
          reader,          \* control point of each client's main and screen_reader
          printer,         \* control point of each client's screen_printer
          found,           \* results of each client's msgget calls
          typed,           \* lines each client typed
          printed          \* lines each client's screen_printer printed

mainVars == <<created, main, isExit, starts>>
serviceVars == <<service_thread, clients_number>>
redirectVars == <<redirecting, message, i, log>>
serverVars == <<mainVars, serviceVars, redirectVars>>
clientVars == <<reader, printer, found, typed, printed>>
vars == <<queue, serverVars, clientVars>>

NoLine == <<"", 0>>

Init == /\ created = 0
        /\ queue = [q \in Range(Queues) |-> <<>>]
        /\ main = "down" /\ service_thread = "ended" /\ redirecting = "ended"
        /\ isExit = FALSE /\ clients_number = 0
        /\ message = NoLine /\ i = 0
        /\ log = <<>> /\ starts = 0
        /\ reader = [c \in Clients |-> "off"]
        /\ printer = [c \in Clients |-> "off"]
        /\ found = [c \in Clients |-> <<>>]
        /\ typed = [c \in Clients |-> 0]
        /\ printed = [c \in Clients |-> <<>>]

Msgsnd(q, m) == /\ Len(queue[q]) < QueueCapacity
                /\ queue' = [queue EXCEPT ![q] = Append(@, m)]

Msgrcv(q) == /\ queue[q] # <<>>
             /\ queue' = [queue EXCEPT ![q] = Tail(@)]

-----------------------------------------------------------------------------
(* The server's main *)

Start == /\ main = "down" /\ starts < MaxStarts
         /\ main' = "create"
         /\ starts' = starts + 1
         /\ isExit' = FALSE /\ clients_number' = 0
         /\ UNCHANGED <<queue, created, service_thread, redirectVars, clientVars>>

(* msgget creates a queue, or finds the one an earlier server left.         *)
Create == /\ main = "create" /\ created < Len(Queues)
          /\ created' = created + 1
          /\ UNCHANGED <<queue, main, isExit, starts, serviceVars, redirectVars, clientVars>>

StartThreads == /\ main = "create" /\ created = Len(Queues)
                /\ main' = "input"
                /\ service_thread' = "test" /\ redirecting' = "test"
                /\ UNCHANGED <<queue, created, isExit, starts, clients_number, message, i, log, clientVars>>

Enter == /\ main = "input"
         /\ main' = "join"
         /\ isExit' = TRUE
         /\ UNCHANGED <<queue, created, starts, serviceVars, redirectVars, clientVars>>

(* Both pthread_joins have returned.                                        *)
Joined == /\ main = "join"
          /\ service_thread = "ended" /\ redirecting = "ended"
          /\ main' = "down"
          /\ UNCHANGED <<queue, created, isExit, starts, serviceVars, redirectVars, clientVars>>

Kill == /\ main # "down" /\ starts < MaxStarts
        /\ main' = "down" /\ service_thread' = "ended" /\ redirecting' = "ended"
        /\ UNCHANGED <<queue, created, isExit, starts, clients_number, message, i, log, clientVars>>

-----------------------------------------------------------------------------
(* service_thread *)

ServiceTest == /\ service_thread = "test"
               /\ service_thread' = IF isExit THEN "ended" ELSE "msgrcv"
               /\ UNCHANGED <<queue, mainVars, clients_number, redirectVars, clientVars>>

ServiceReceive == /\ service_thread = "msgrcv"
                  /\ Msgrcv("service")
                  /\ service_thread' = "count"
                  /\ UNCHANGED <<mainVars, clients_number, redirectVars, clientVars>>

Count == /\ service_thread = "count"
         /\ service_thread' = "test"
         /\ clients_number' = clients_number + 1
         /\ UNCHANGED <<queue, mainVars, redirectVars, clientVars>>

Service == ServiceTest \/ ServiceReceive \/ Count

-----------------------------------------------------------------------------
(* redirecting_thread *)

RedirectTest == /\ redirecting = "test"
                /\ redirecting' = IF isExit THEN "ended" ELSE "msgrcv"
                /\ UNCHANGED <<queue, mainVars, serviceVars, message, i, log, clientVars>>

(* Mutants: isExit is tested once more after the msgrcv; the copies are     *)
(* counted from one.                                                        *)
RedirectReceiveUnlessExit ==
    /\ redirecting = "msgrcv"
    /\ Msgrcv("middle")
    /\ IF isExit THEN redirecting' = "ended" /\ UNCHANGED <<message, i, log>>
       ELSE /\ redirecting' = "copy"
            /\ message' = Head(queue["middle"])
            /\ i' = 0
            /\ log' = Append(log, message')
    /\ UNCHANGED <<mainVars, serviceVars, clientVars>>

RedirectReceiveFromOne ==
    /\ redirecting = "msgrcv"
    /\ Msgrcv("middle")
    /\ redirecting' = "copy"
    /\ message' = Head(queue["middle"])
    /\ i' = 1
    /\ log' = Append(log, message')
    /\ UNCHANGED <<mainVars, serviceVars, clientVars>>

RedirectReceive == /\ redirecting = "msgrcv"
                   /\ Msgrcv("middle")
                   /\ redirecting' = "copy"
                   /\ message' = Head(queue["middle"])
                   /\ i' = 0
                   /\ log' = Append(log, message')
                   /\ UNCHANGED <<mainVars, serviceVars, clientVars>>

(* Mutants: one copy too many; a copy that overtakes the queue.             *)
CopyOneTooMany ==
    /\ redirecting = "copy" /\ i <= clients_number
    /\ Msgsnd("client", message)
    /\ i' = i + 1
    /\ UNCHANGED <<mainVars, serviceVars, redirecting, message, log, clientVars>>

CopyInFront ==
    /\ redirecting = "copy" /\ i < clients_number
    /\ Len(queue["client"]) < QueueCapacity
    /\ queue' = [queue EXCEPT !["client"] = <<message>> \o @]
    /\ i' = i + 1
    /\ UNCHANGED <<mainVars, serviceVars, redirecting, message, log, clientVars>>

(* The loop compares i with the count of the moment, every time round.      *)
Copy == /\ redirecting = "copy" /\ i < clients_number
        /\ Msgsnd("client", message)
        /\ i' = i + 1
        /\ UNCHANGED <<mainVars, serviceVars, redirecting, message, log, clientVars>>

Copied == /\ redirecting = "copy" /\ i >= clients_number
          /\ redirecting' = "test"
          /\ UNCHANGED <<queue, mainVars, serviceVars, message, i, log, clientVars>>

Redirect == RedirectTest \/ RedirectReceive \/ Copy \/ Copied

-----------------------------------------------------------------------------
(* A client *)

Found(c, q) == \E k \in DOMAIN found[c] : Queues[k] = q /\ found[c][k]

(* The loop around the three msgget calls ends whatever they return: a      *)
(* failed msgget returns -1, and the loop looks for ENOENT.                 *)
Lookup(c) == /\ reader[c] = "off"
             /\ found' = [found EXCEPT ![c] = Append(@, Len(@) + 1 <= created)]
             /\ reader' = [reader EXCEPT ![c] =
                              IF Len(found'[c]) = Len(Queues) THEN "register" ELSE "off"]
             /\ UNCHANGED <<queue, serverVars, printer, typed, printed>>

(* msgsnd on a descriptor -1 fails and nobody looks at its result.          *)
Register(c) == /\ reader[c] = "register"
               /\ IF Found(c, "service") THEN Msgsnd("service", c) ELSE UNCHANGED queue
               /\ reader' = [reader EXCEPT ![c] = "type"]
               /\ printer' = [printer EXCEPT ![c] = "test"]
               /\ UNCHANGED <<serverVars, found, typed, printed>>

Type(c) == /\ reader[c] = "type" /\ SumFunction(typed) < MaxLines
           /\ reader' = [reader EXCEPT ![c] = "msgsnd"]
           /\ typed' = [typed EXCEPT ![c] = @ + 1]
           /\ UNCHANGED <<queue, serverVars, printer, found, printed>>

(* isExit is set by this thread alone, so isExit <=> reader[c] = "ended".   *)
Quit(c) == /\ MayQuit /\ reader[c] = "type"
           /\ reader' = [reader EXCEPT ![c] = "ended"]
           /\ UNCHANGED <<queue, serverVars, printer, found, typed, printed>>

Send(c) == /\ reader[c] = "msgsnd"
           /\ IF Found(c, "middle") THEN Msgsnd("middle", <<c, typed[c]>>)
                                    ELSE UNCHANGED queue
           /\ reader' = [reader EXCEPT ![c] = "type"]
           /\ UNCHANGED <<serverVars, printer, found, typed, printed>>

PrinterTest(c) ==
    /\ printer[c] = "test"
    /\ printer' = [printer EXCEPT ![c] = IF reader[c] = "ended" THEN "ended" ELSE "msgrcv"]
    /\ UNCHANGED <<queue, serverVars, reader, found, typed, printed>>

Show(c) == /\ printer[c] = "msgrcv" /\ Found(c, "client")
            /\ Msgrcv("client")
            /\ printed' = [printed EXCEPT ![c] = Append(@, Head(queue["client"]))]
            /\ printer' = [printer EXCEPT ![c] = "test"]
            /\ UNCHANGED <<serverVars, reader, found, typed>>

(* Without the queue msgrcv returns -1 at once; the loop goes round.        *)
ShowNothing(c) == /\ printer[c] = "msgrcv" /\ ~Found(c, "client")
                   /\ printer' = [printer EXCEPT ![c] = "test"]
                   /\ UNCHANGED <<queue, serverVars, reader, found, typed, printed>>

Reader(c) == Lookup(c) \/ Register(c) \/ Send(c)
Printer(c) == PrinterTest(c) \/ Show(c) \/ ShowNothing(c)

Next == \/ Start \/ Create \/ StartThreads \/ Enter \/ Joined \/ Kill
        \/ Service \/ Redirect
        \/ \E c \in Clients : Reader(c) \/ Type(c) \/ Quit(c) \/ Printer(c)

Spec == Init /\ [][Next]_vars

(* Every thread that is not blocked is scheduled; senders and receivers     *)
(* blocked on a queue are served in order, so none is overtaken for ever    *)
(* (SF).  Nobody has to start the server, type, quit or press Enter.        *)
FairSpec == /\ Spec
            /\ WF_vars(Create) /\ WF_vars(StartThreads) /\ WF_vars(Joined)
            /\ WF_vars(Service) /\ SF_vars(Redirect)
            /\ \A c \in Clients : SF_vars(Reader(c)) /\ SF_vars(Printer(c))

-----------------------------------------------------------------------------
(* Properties *)

Line == Clients \X (1..MaxLines)

TypeOK ==
    /\ created \in 0..Len(Queues)
    /\ queue["service"] \in Seq(Clients)
    /\ queue["client"] \in Seq(Line) /\ queue["middle"] \in Seq(Line)
    /\ \A q \in Range(Queues) : Len(queue[q]) <= QueueCapacity
    /\ main \in {"down", "create", "input", "join"}
    /\ service_thread \in {"test", "msgrcv", "count", "ended"}
    /\ redirecting \in {"test", "msgrcv", "copy", "ended"}
    /\ isExit \in BOOLEAN /\ clients_number \in Nat
    /\ message \in Line \cup {NoLine} /\ i \in Nat
    /\ log \in Seq(Line) /\ starts \in 0..MaxStarts
    /\ reader \in [Clients -> {"off", "register", "type", "msgsnd", "ended"}]
    /\ printer \in [Clients -> {"off", "test", "msgrcv", "ended"}]
    /\ found \in [Clients -> Seq(BOOLEAN)]
    /\ typed \in [Clients -> 0..MaxLines]
    /\ printed \in [Clients -> Seq(Line)]

Registered == {c \in Clients : reader[c] \notin {"off", "register"} /\ Found(c, "service")}

(* The first server has been neither killed nor stopped.                    *)
FirstServes == starts = 1 /\ main # "down"

(* Every registration is in the service queue, in the hands of the service  *)
(* thread or in clients_number, and is there once: none is counted twice,   *)
(* and none is lost unless the server that counted it is gone.              *)
RegistrationsConserved ==
    LET known == Len(queue["service"]) + clients_number
                   + (IF service_thread = "count" THEN 1 ELSE 0)
    IN  /\ known <= Cardinality(Registered)
        /\ FirstServes => known = Cardinality(Registered)

Sent(c) == IF ~Found(c, "middle") THEN 0
           ELSE typed[c] - IF reader[c] = "msgsnd" THEN 1 ELSE 0

(* What the server has logged and what it has still to read are the lines   *)
(* of each client, each once and in the order they were typed: over full    *)
(* queues, kills and restarts of the server.                                *)
LinesConserved ==
    LET lines == log \o queue["middle"]
    IN  /\ \A c \in Clients : \A n \in 1..Sent(c) : <<c, n>> \in Range(lines)
        /\ \A k \in DOMAIN lines : lines[k][2] \in 1..Sent(lines[k][1])
        /\ \A j, k \in DOMAIN lines :
              j < k /\ lines[j][1] = lines[k][1] => lines[j][2] < lines[k][2]

Occurrences(l, lines) == Cardinality({k \in DOMAIN lines : lines[k] = l})
Copies(l) == Occurrences(l, queue["client"])
               + SumFunction([c \in Clients |-> Occurrences(l, printed[c])])

(* While redirecting_thread copies a line, service_thread may raise the     *)
(* count under it.  Still the line gets one copy per loop turn, never more  *)
(* than there are clients, and a later line no fewer than an earlier one.   *)
CopiesFollowCount ==
    FirstServes =>
        /\ redirecting = "copy" => Copies(message) = i
        /\ \A k \in DOMAIN log : Copies(log[k]) <= clients_number
        /\ \A j, k \in DOMAIN log :
              j < k /\ (redirecting = "copy" => k < Len(log))
                  => Copies(log[j]) <= Copies(log[k])

Room == INSTANCE ChatRoom WITH said <- typed

(* Over full queues, kills and restarts the server's log leaves out no line *)
(* before one it has, and although every printer takes copies as it comes   *)
(* to it, the screens show them in the order of the log, the screens of all *)
(* clients together, each line at most once per client.                     *)
ImplementsChatRoom == Room!RSpec

(* Clients counted by the server of which no printer takes copies.          *)
Deaf == {c \in Clients : \/ reader[c] = "ended"
                         \/ (reader[c] # "off" /\ ~Found(c, "client"))}

(* A line that waits for a server that knows a client gets on to somebody's *)
(* screen, however small the queues are, unless Enter is pressed or a       *)
(* client has stopped taking its copies.                                    *)
LineShown ==
    \A l \in Line :
        (l \in Range(queue["middle"]) /\ main = "input" /\ clients_number > 0)
            ~> \/ \E c \in Clients : l \in Range(printed[c])
               \/ main # "input" \/ Deaf # {}

(* A registration that waits is counted while the server serves, whatever   *)
(* the redirecting thread is blocked on.                                    *)
RegistrationCounted ==
    \A n \in 1..Cardinality(Clients) :
        (main = "input" /\ starts = 1 /\ Cardinality(Registered) >= n)
            ~> (clients_number >= n \/ main # "input")

(* Nothing that was sent to the server is lost or counted twice by it, over *)
(* full queues and over a restart on the queues of the server before.       *)
NothingLost == TypeOK /\ RegistrationsConserved /\ LinesConserved

(* What waits in a queue is taken by the thread it is meant for.            *)
WaitingIsServed == LineShown /\ RegistrationCounted

-----------------------------------------------------------------------------
(* What the messages of the programs say, and the code does not do *)

(* server.c: "Press enter to stop": after Enter the server stops.           *)
EnterStops == main = "join" ~> main = "down"
=============================================================================
