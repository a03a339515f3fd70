----------------------------- MODULE MqChatProofs -----------------------------
(***************************************************************************)
(* Proofs about MqChat for any number of clients, lines, starts of the     *)
(* server and queues of any capacity.                                      *)
(*                                                                         *)
(* Fresh is the state before the first server, in which no client finds a  *)
(* queue; Threads ties the control points of the server's threads to its   *)
(* main.  Logged says that only lines that were read from the middle queue *)
(* are ever copied, and that the line being copied is the one read last:   *)
(* with LinesConserved, by which no line is logged twice, the copies of a  *)
(* line are made by one visit to the copying loop.  InOrder extends the    *)
(* order of what a screen shows to what it may still take from the queue.  *)
(***************************************************************************)
EXTENDS MqChat, Counting

(* Of the queues the types that updates need, and where threads may be.     *)
Shape == /\ queue \in [Range(Queues) -> Seq(Clients \cup Line)]
         /\ \A c \in Clients : /\ reader[c] \in {"off", "register"} => typed[c] = 0
                               /\ reader[c] = "msgsnd" => typed[c] > 0
         /\ redirecting = "copy" => message \in Line

Threads == main \in {"down", "create"} => service_thread = "ended" /\ redirecting = "ended"

Fresh == starts = 0 => /\ main = "down" /\ created = 0 /\ clients_number = 0
                       /\ queue["service"] = <<>> /\ log = <<>>
                       /\ \A c \in Clients : \A k \in DOMAIN found[c] : ~found[c][k]

(* Only logged lines are copied; the line in hand was logged last.          *)
Logged == /\ \A l \in Line : Copies(l) > 0 => l \in Range(log)
          /\ redirecting = "copy" => log # <<>> /\ message = log[Len(log)]

(* One line was logged before the other, or they are the same.              *)
Before(l, m) == \E j, k \in DOMAIN log : j <= k /\ log[j] = l /\ log[k] = m

InOrder ==
    LET waiting == queue["client"]
    IN  /\ \A a, b \in DOMAIN waiting : a <= b => Before(waiting[a], waiting[b])
        /\ \A c \in Clients : \A a \in DOMAIN printed[c] :
              /\ \A b \in DOMAIN printed[c] : a <= b => Before(printed[c][a], printed[c][b])
              /\ \A b \in DOMAIN waiting : Before(printed[c][a], waiting[b])

Base == TypeOK /\ Shape /\ Threads /\ Fresh

(* The copies of the logged lines, as a function of the line.               *)
CopyCount == [l \in Line |-> Copies(l)]

(* Whatever the server forgot when it was killed, a line has no more copies *)
(* than there are clients.                                                  *)
CopiesBounded == /\ redirecting = "copy" => CopyCount[message] = i
                 /\ \A l \in Line : CopyCount[l] <= Cardinality(Clients)

IInv == /\ Base /\ RegistrationsConserved /\ LinesConserved
        /\ Logged /\ CopiesFollowCount /\ CopiesBounded /\ InOrder

-----------------------------------------------------------------------------
(* The types, and where the threads may be *)

LEMMA Names ==
    /\ Range(Queues) = {"service", "client", "middle"} /\ Len(Queues) = 3
    /\ QueueCapacity \in Nat \ {0} /\ MaxLines \in Nat /\ MaxStarts \in Nat
    /\ IsFiniteSet(Clients)
BY ChatConstants DEF Queues, Range

LEMMA InitBase == Init => Base
<1> SUFFICES ASSUME Init PROVE Base
  OBVIOUS
<1> USE Names
<1>1. TypeOK
  <2>1. /\ queue["service"] = <<>> /\ queue["client"] = <<>> /\ queue["middle"] = <<>>
        /\ \A q \in Range(Queues) : Len(queue[q]) <= QueueCapacity
    BY DEF Init
  <2>2. /\ reader \in [Clients -> {"off", "register", "type", "msgsnd", "ended"}]
        /\ printer \in [Clients -> {"off", "test", "msgrcv", "ended"}]
        /\ found \in [Clients -> Seq(BOOLEAN)] /\ typed \in [Clients -> 0..MaxLines]
        /\ printed \in [Clients -> Seq(Line)]
    BY DEF Init
  <2> 0 \in 0..Len(Queues) /\ 0 \in 0..MaxStarts
    OBVIOUS
  <2>3. /\ created \in 0..Len(Queues) /\ main = "down" /\ starts \in 0..MaxStarts
        /\ service_thread = "ended" /\ redirecting = "ended"
        /\ isExit \in BOOLEAN /\ clients_number \in Nat /\ i \in Nat
    BY DEF Init
  <2>4. message \in Line \cup {NoLine} /\ log \in Seq(Line)
    BY DEF Init
  <2> QED
    BY <2>1, <2>2, <2>3, <2>4 DEF TypeOK
<1>2. Shape /\ Threads /\ Fresh
  BY DEF Init, Shape, Threads, Fresh
<1> QED
  BY <1>1, <1>2 DEF Base

(* What msgsnd and msgrcv do to the queues.                                 *)
LEMMA Sending ==
    ASSUME Base, NEW q \in Range(Queues), NEW m \in Clients \cup Line, Msgsnd(q, m)
    PROVE  /\ queue' \in [Range(Queues) -> Seq(Clients \cup Line)]
           /\ queue'[q] = Append(queue[q], m)
           /\ \A r \in Range(Queues) \ {q} : queue'[r] = queue[r]
           /\ \A r \in Range(Queues) : Len(queue'[r]) <= QueueCapacity
<1>1. /\ queue \in [Range(Queues) -> Seq(Clients \cup Line)]
      /\ \A r \in Range(Queues) : Len(queue[r]) <= QueueCapacity
      /\ Len(queue[q]) < QueueCapacity
      /\ queue' = [queue EXCEPT ![q] = Append(@, m)]
  BY DEF Base, TypeOK, Shape, Msgsnd
<1>2. Append(queue[q], m) \in Seq(Clients \cup Line) /\ Len(Append(queue[q], m)) = Len(queue[q]) + 1
  BY <1>1
<1>3. Len(Append(queue[q], m)) <= QueueCapacity
  BY <1>1, <1>2, Names
<1> QED
  BY <1>1, <1>2, <1>3

LEMMA Receiving ==
    ASSUME Base, NEW q \in Range(Queues), Msgrcv(q)
    PROVE  /\ queue' \in [Range(Queues) -> Seq(Clients \cup Line)]
           /\ queue[q] # <<>> /\ queue'[q] = Tail(queue[q])
           /\ \A r \in Range(Queues) \ {q} : queue'[r] = queue[r]
           /\ \A r \in Range(Queues) : Len(queue'[r]) <= QueueCapacity
<1>1. /\ queue \in [Range(Queues) -> Seq(Clients \cup Line)]
      /\ \A r \in Range(Queues) : Len(queue[r]) <= QueueCapacity
      /\ queue[q] # <<>> /\ queue' = [queue EXCEPT ![q] = Tail(@)]
  BY DEF Base, TypeOK, Shape, Msgrcv
<1>2. Tail(queue[q]) \in Seq(Clients \cup Line) /\ Len(Tail(queue[q])) = Len(queue[q]) - 1
  BY <1>1
<1>3. Len(Tail(queue[q])) <= QueueCapacity
  BY <1>1, <1>2, Names
<1> QED
  BY <1>1, <1>2, <1>3

(* A queue that messages of the right kind join or leave keeps its type.    *)
LEMMA QueueTypes ==
    ASSUME NEW S, NEW s \in Seq(S)
    PROVE  /\ \A m \in S : Append(s, m) \in Seq(S)
           /\ s # <<>> => Head(s) \in S /\ Tail(s) \in Seq(S)
OBVIOUS

LEMMA MainBase ==
    ASSUME Base, Start \/ Create \/ StartThreads \/ Enter \/ Joined \/ Kill PROVE Base'
<1> USE Names DEF Base, mainVars, serviceVars, redirectVars, serverVars, clientVars
<1>1. CASE Start
  <2>1. starts \in Nat /\ starts' = starts + 1 /\ starts' \in 0..MaxStarts /\ starts' # 0
    BY <1>1 DEF Start, TypeOK
  <2> QED
    BY <1>1, <2>1 DEF Start, TypeOK, Shape, Threads, Fresh
<1>2. CASE Create
  BY <1>2 DEF Create, TypeOK, Shape, Threads, Fresh
<1>3. CASE StartThreads
  BY <1>3 DEF StartThreads, TypeOK, Shape, Threads, Fresh
<1>4. CASE Enter
  BY <1>4 DEF Enter, TypeOK, Shape, Threads, Fresh
<1>5. CASE Joined
  BY <1>5 DEF Joined, TypeOK, Shape, Threads, Fresh
<1>6. CASE Kill
  BY <1>6 DEF Kill, TypeOK, Shape, Threads, Fresh
<1> QED
  BY <1>1, <1>2, <1>3, <1>4, <1>5, <1>6

LEMMA ThreadBase == ASSUME Base, Service \/ Redirect PROVE Base'
<1> USE Names DEF mainVars, serviceVars, redirectVars, serverVars, clientVars
<1>1. CASE ServiceTest
  BY <1>1 DEF ServiceTest, Base, TypeOK, Shape, Threads, Fresh
<1>2. CASE ServiceReceive
  <2>1. /\ Msgrcv("service") /\ service_thread = "msgrcv" /\ service_thread' = "count"
        /\ UNCHANGED <<mainVars, clients_number, redirectVars, clientVars>>
    BY <1>2 DEF ServiceReceive
  <2>2. /\ queue' \in [Range(Queues) -> Seq(Clients \cup Line)]
        /\ queue["service"] # <<>> /\ queue'["service"] = Tail(queue["service"])
        /\ queue'["client"] = queue["client"] /\ queue'["middle"] = queue["middle"]
        /\ \A r \in Range(Queues) : Len(queue'[r]) <= QueueCapacity
    BY <2>1, Receiving
  <2>3. queue'["service"] \in Seq(Clients)
    BY <2>2, QueueTypes DEF Base, TypeOK
  <2> QED
    BY <2>1, <2>2, <2>3 DEF Base, TypeOK, Shape, Threads, Fresh
<1>3. CASE Count
  BY <1>3 DEF Count, Base, TypeOK, Shape, Threads, Fresh
<1>4. CASE RedirectTest
  BY <1>4 DEF RedirectTest, Base, TypeOK, Shape, Threads, Fresh
<1>5. CASE RedirectReceive
  <2>1. /\ Msgrcv("middle") /\ redirecting = "msgrcv" /\ redirecting' = "copy"
        /\ message' = Head(queue["middle"]) /\ i' = 0 /\ log' = Append(log, message')
        /\ UNCHANGED <<mainVars, serviceVars, clientVars>>
    BY <1>5 DEF RedirectReceive
  <2>2. /\ queue' \in [Range(Queues) -> Seq(Clients \cup Line)]
        /\ queue["middle"] # <<>> /\ queue'["middle"] = Tail(queue["middle"])
        /\ queue'["client"] = queue["client"] /\ queue'["service"] = queue["service"]
        /\ \A r \in Range(Queues) : Len(queue'[r]) <= QueueCapacity
    BY <2>1, Receiving
  <2>3. queue'["middle"] \in Seq(Line) /\ message' \in Line
    BY <2>1, <2>2, QueueTypes DEF Base, TypeOK
  <2>4. log' \in Seq(Line)
    BY <2>1, <2>3, QueueTypes DEF Base, TypeOK
  <2>5. starts # 0
    BY <2>1 DEF Base, Threads, Fresh
  <2> QED
    BY <2>1, <2>2, <2>3, <2>4, <2>5 DEF Base, TypeOK, Shape, Threads, Fresh
<1>6. CASE Copy
  <2>1. /\ Msgsnd("client", message) /\ redirecting = "copy" /\ i' = i + 1
        /\ UNCHANGED <<mainVars, serviceVars, redirecting, message, log, clientVars>>
    BY <1>6 DEF Copy
  <2>2. message \in Line /\ message \in Clients \cup Line /\ "client" \in Range(Queues)
    BY <2>1 DEF Base, Shape
  <2>3. /\ queue' \in [Range(Queues) -> Seq(Clients \cup Line)]
        /\ queue'["client"] = Append(queue["client"], message)
        /\ queue'["middle"] = queue["middle"] /\ queue'["service"] = queue["service"]
        /\ \A r \in Range(Queues) : Len(queue'[r]) <= QueueCapacity
    BY <2>1, <2>2, Sending
  <2>4. queue'["client"] \in Seq(Line)
    BY <2>2, <2>3, QueueTypes DEF Base, TypeOK
  <2> QED
    BY <2>1, <2>2, <2>3, <2>4 DEF Base, TypeOK, Shape, Threads, Fresh
<1>7. CASE Copied
  BY <1>7 DEF Copied, Base, TypeOK, Shape, Threads, Fresh
<1> QED
  BY <1>1, <1>2, <1>3, <1>4, <1>5, <1>6, <1>7 DEF Service, Redirect

LEMMA LastOfAppend ==
    ASSUME NEW S, NEW s \in Seq(S), NEW a \in S
    PROVE  /\ Append(s, a) \in Seq(S) /\ Len(Append(s, a)) = Len(s) + 1
           /\ Append(s, a)[Len(s) + 1] = a
           /\ \A k \in 1..Len(s) : Append(s, a)[k] = s[k]
OBVIOUS

LEMMA SumTyped ==
    ASSUME Base, NEW c \in Clients, SumFunction(typed) < MaxLines
    PROVE  typed[c] + 1 \in 0..MaxLines
<1>1. typed \in [Clients -> 0..MaxLines] /\ SumFunction(typed) = SumFunctionOnSet(typed, Clients)
  BY DEF Base, TypeOK, SumFunction
<1>2. /\ \A d \in Clients : typed[d] \in Nat
      /\ IsFiniteSet(Clients \ {c}) /\ \A d \in Clients \ {c} : typed[d] \in Nat
  BY <1>1, Names, FS_RemoveElement
<1>3. SumFunctionOnSet(typed, Clients) = typed[c] + SumFunctionOnSet(typed, Clients \ {c})
  BY <1>2, Names, SumTakeOut
<1>4. SumFunctionOnSet(typed, Clients \ {c}) \in Nat
  BY <1>2, SumNat
<1>5. typed[c] \in Nat
  BY <1>2
<1> QED
  BY <1>1, <1>3, <1>4, <1>5, Names

LEMMA ClientBase ==
    ASSUME Base, NEW c \in Clients, Reader(c) \/ Type(c) \/ Quit(c) \/ Printer(c)
    PROVE  Base'
<1> USE Names DEF mainVars, serviceVars, redirectVars, serverVars
<1>1. CASE Lookup(c)
  <2>1. /\ found' = [found EXCEPT ![c] = Append(@, Len(@) + 1 <= created)]
        /\ reader[c] = "off" /\ reader' = [reader EXCEPT ![c] = reader'[c]]
        /\ reader'[c] \in {"off", "register"}
        /\ UNCHANGED <<queue, serverVars, printer, typed, printed>>
    BY <1>1 DEF Lookup, Base, TypeOK
  <2>2. found[c] \in Seq(BOOLEAN) /\ (Len(found[c]) + 1 <= created) \in BOOLEAN
    BY DEF Base, TypeOK
  <2>3. Append(found[c], Len(found[c]) + 1 <= created) \in Seq(BOOLEAN)
    BY <2>2
  <2>4. found' \in [Clients -> Seq(BOOLEAN)]
    BY <2>1, <2>3 DEF Base, TypeOK
  <2>5. TypeOK'
    <3>1. reader' \in [Clients -> {"off", "register", "type", "msgsnd", "ended"}]
      BY <2>1 DEF Base, TypeOK
    <3> QED
      BY <2>1, <2>4, <3>1 DEF Base, TypeOK
  <2>6. Shape' /\ Threads'
    BY <2>1 DEF Base, TypeOK, Shape, Threads
  <2>7. Fresh'
    <3>1. SUFFICES ASSUME starts = 0, NEW d \in Clients, NEW k \in DOMAIN found'[d]
                   PROVE  ~found'[d][k]
      BY <2>1 DEF Base, Fresh
    <3>2. created = 0 /\ \A k1 \in DOMAIN found[d] : ~found[d][k1]
      BY <3>1 DEF Base, Fresh
    <3>3. CASE d = c
      <4>1. found'[d] = Append(found[c], Len(found[c]) + 1 <= created)
        BY <2>1, <3>3 DEF Base, TypeOK
      <4>2. ~(Len(found[c]) + 1 <= created)
        BY <2>2, <3>2
      <4>3. k \in 1..(Len(found[c]) + 1)
        BY <2>2, <3>1, <4>1
      <4>4. CASE k = Len(found[c]) + 1
        <5>1. found'[d][k] = (Len(found[c]) + 1 <= created)
          BY <2>2, <4>1, <4>4, LastOfAppend
        <5> QED
          BY <4>2, <5>1, Zenon
      <4>5. CASE k # Len(found[c]) + 1
        <5>1. k \in DOMAIN found[c] /\ found'[d][k] = found[c][k]
          BY <2>2, <4>1, <4>3, <4>5
        <5> QED
          BY <3>2, <3>3, <5>1
      <4> QED
        BY <4>4, <4>5
    <3>4. CASE d # c
      BY <2>1, <3>2, <3>4 DEF Base, TypeOK
    <3> QED
      BY <3>3, <3>4
  <2> QED
    BY <2>5, <2>6, <2>7 DEF Base
<1>2. CASE Register(c)
  <2>1. /\ reader[c] = "register" /\ reader' = [reader EXCEPT ![c] = "type"]
        /\ printer' = [printer EXCEPT ![c] = "test"]
        /\ UNCHANGED <<serverVars, found, typed, printed>>
    BY <1>2 DEF Register
  <2>2. CASE Found(c, "service")
    <3>1. Msgsnd("service", c)
      BY <1>2, <2>2 DEF Register
    <3>2. /\ queue' \in [Range(Queues) -> Seq(Clients \cup Line)]
          /\ queue'["service"] = Append(queue["service"], c)
          /\ queue'["middle"] = queue["middle"] /\ queue'["client"] = queue["client"]
          /\ \A r \in Range(Queues) : Len(queue'[r]) <= QueueCapacity
      BY <3>1, Sending
    <3>3. queue'["service"] \in Seq(Clients)
      BY <3>2, QueueTypes DEF Base, TypeOK
    <3>4. starts # 0
      BY <2>2 DEF Base, Fresh, Found
    <3> QED
      BY <2>1, <3>2, <3>3, <3>4 DEF Base, TypeOK, Shape, Threads, Fresh
  <2>3. CASE ~Found(c, "service")
    <3>1. queue' = queue
      BY <1>2, <2>3 DEF Register
    <3> QED
      BY <2>1, <3>1 DEF Base, TypeOK, Shape, Threads, Fresh
  <2> QED
    BY <2>2, <2>3
<1>3. CASE Type(c)
  <2>1. /\ reader[c] = "type" /\ reader' = [reader EXCEPT ![c] = "msgsnd"]
        /\ typed' = [typed EXCEPT ![c] = @ + 1]
        /\ UNCHANGED <<queue, serverVars, printer, found, printed>>
    BY <1>3 DEF Type
  <2>2. typed[c] + 1 \in 0..MaxLines /\ typed[c] \in Nat
    BY <1>3, SumTyped DEF Type, Base, TypeOK
  <2>3. typed' \in [Clients -> 0..MaxLines] /\ typed'[c] > 0
    BY <2>1, <2>2 DEF Base, TypeOK
  <2>4. Shape'
    BY <2>1, <2>3 DEF Base, TypeOK, Shape
  <2> QED
    BY <2>1, <2>3, <2>4 DEF Base, TypeOK, Threads, Fresh
<1>4. CASE Quit(c)
  BY <1>4 DEF Quit, Base, TypeOK, Shape, Threads, Fresh
<1>5. CASE Send(c)
  <2>1. /\ reader[c] = "msgsnd" /\ reader' = [reader EXCEPT ![c] = "type"]
        /\ UNCHANGED <<serverVars, printer, found, typed, printed>>
    BY <1>5 DEF Send
  <2>2. CASE Found(c, "middle")
    <3>1. Msgsnd("middle", <<c, typed[c]>>)
      BY <1>5, <2>2 DEF Send
    <3>2. <<c, typed[c]>> \in Line
      BY <2>1 DEF Base, TypeOK, Shape, Line
    <3>3. <<c, typed[c]>> \in Clients \cup Line /\ "middle" \in Range(Queues)
      BY <3>2
    <3>4. /\ queue' \in [Range(Queues) -> Seq(Clients \cup Line)]
          /\ queue'["middle"] = Append(queue["middle"], <<c, typed[c]>>)
          /\ queue'["service"] = queue["service"] /\ queue'["client"] = queue["client"]
          /\ \A r \in Range(Queues) : Len(queue'[r]) <= QueueCapacity
      BY <3>1, <3>3, Sending
    <3>5. queue'["middle"] \in Seq(Line)
      BY <3>2, <3>4, QueueTypes DEF Base, TypeOK
    <3> QED
      BY <2>1, <3>4, <3>5 DEF Base, TypeOK, Shape, Threads, Fresh
  <2>3. CASE ~Found(c, "middle")
    <3>1. queue' = queue
      BY <1>5, <2>3 DEF Send
    <3> QED
      BY <2>1, <3>1 DEF Base, TypeOK, Shape, Threads, Fresh
  <2> QED
    BY <2>2, <2>3
<1>6. CASE PrinterTest(c)
  BY <1>6 DEF PrinterTest, Base, TypeOK, Shape, Threads, Fresh
<1>7. CASE Show(c)
  <2>1. /\ Msgrcv("client") /\ printer' = [printer EXCEPT ![c] = "test"]
        /\ printed' = [printed EXCEPT ![c] = Append(@, Head(queue["client"]))]
        /\ UNCHANGED <<serverVars, reader, found, typed>>
    BY <1>7 DEF Show
  <2> "client" \in Range(Queues)
    OBVIOUS
  <2>2. /\ queue' \in [Range(Queues) -> Seq(Clients \cup Line)]
        /\ queue["client"] # <<>> /\ queue'["client"] = Tail(queue["client"])
        /\ queue'["service"] = queue["service"] /\ queue'["middle"] = queue["middle"]
        /\ \A r \in Range(Queues) : Len(queue'[r]) <= QueueCapacity
    BY <2>1, Receiving
  <2>3. queue'["client"] \in Seq(Line) /\ Head(queue["client"]) \in Line
    BY <2>2, QueueTypes DEF Base, TypeOK
  <2>4. Append(printed[c], Head(queue["client"])) \in Seq(Line)
    BY <2>3, QueueTypes DEF Base, TypeOK
  <2>5. printed' \in [Clients -> Seq(Line)]
    BY <2>1, <2>4 DEF Base, TypeOK
  <2> QED
    BY <2>1, <2>2, <2>3, <2>5 DEF Base, TypeOK, Shape, Threads, Fresh
<1>8. CASE ShowNothing(c)
  BY <1>8 DEF ShowNothing, Base, TypeOK, Shape, Threads, Fresh
<1> QED
  BY <1>1, <1>2, <1>3, <1>4, <1>5, <1>6, <1>7, <1>8 DEF Reader, Printer

LEMMA NextBase == ASSUME Base, [Next]_vars PROVE Base'
<1>1. CASE UNCHANGED vars
  BY <1>1 DEF vars, mainVars, serviceVars, redirectVars, serverVars, clientVars,
      Base, TypeOK, Shape, Threads, Fresh
<1> QED
  BY <1>1, MainBase, ThreadBase, ClientBase DEF Next

-----------------------------------------------------------------------------
(* The registrations *)

Held == IF service_thread = "count" THEN 1 ELSE 0

LEMMA RegistrationTypes ==
    ASSUME Base
    PROVE  /\ Len(queue["service"]) \in Nat /\ clients_number \in Nat /\ Held \in {0, 1}
           /\ IsFiniteSet(Registered) /\ Cardinality(Registered) \in Nat
<1>1. IsFiniteSet(Registered)
  BY Names, FS_Subset DEF Registered
<1> QED
  BY <1>1, FS_CardinalityType DEF Base, TypeOK, Held

(* Steps that move neither a registration nor the first server.             *)
LEMMA RegistrationsStay ==
    ASSUME RegistrationsConserved, Registered' = Registered, clients_number' = clients_number,
           queue'["service"] = queue["service"], Held' = Held, FirstServes' => FirstServes
    PROVE  RegistrationsConserved'
BY DEF RegistrationsConserved, Held

LEMMA MainRegistrations ==
    ASSUME Base, RegistrationsConserved,
           Start \/ Create \/ StartThreads \/ Enter \/ Joined \/ Kill
    PROVE  RegistrationsConserved'
<1>1. queue' = queue /\ reader' = reader /\ found' = found
  BY DEF Start, Create, StartThreads, Enter, Joined, Kill, clientVars
<1>2. Registered' = Registered
  BY <1>1 DEF Registered, Found
<1>3. Len(queue["service"]) + clients_number + Held <= Cardinality(Registered)
  BY DEF RegistrationsConserved, Held
<1>4. CASE Start
  <2>1. /\ starts' = starts + 1 /\ clients_number' = 0 /\ starts \in Nat
        /\ service_thread' = "ended" /\ service_thread = "ended"
    BY <1>4, Names DEF Start, Base, Threads, TypeOK
  <2>2. Held = 0 /\ Held' = 0
    BY <2>1 DEF Held
  <2>3. Len(queue["service"]) <= Cardinality(Registered)
    BY <1>3, <2>2, RegistrationTypes
  <2>4. ASSUME starts' = 1 PROVE Len(queue["service"]) = Cardinality(Registered)
    <3>1. starts = 0
      BY <2>1, <2>4
    <3>2. queue["service"] = <<>> /\ Registered = {}
      BY <3>1 DEF Base, Fresh, Registered, Found
    <3> QED
      BY <3>2, FS_EmptySet
  <2>5. Len(queue["service"]) + 0 + 0 = Len(queue["service"])
    BY RegistrationTypes
  <2> QED
    BY <1>1, <1>2, <2>1, <2>2, <2>3, <2>4, <2>5 DEF RegistrationsConserved, FirstServes, Held
<1>5. CASE Kill \/ Joined
  <2>1. ~FirstServes' /\ clients_number' = clients_number /\ Held' \in {0, Held}
    BY <1>5 DEF Kill, Joined, FirstServes, serviceVars, Held
  <2>2. Len(queue["service"]) + clients_number + Held' <= Cardinality(Registered)
    BY <1>3, <2>1, RegistrationTypes
  <2> QED
    BY <1>1, <1>2, <2>1, <2>2 DEF RegistrationsConserved, Held
<1>6. CASE Create \/ StartThreads \/ Enter
  <2>1. clients_number' = clients_number /\ (FirstServes' => FirstServes)
    BY <1>6 DEF Create, StartThreads, Enter, serviceVars, FirstServes
  <2>2. Held' = Held
    BY <1>6 DEF Create, StartThreads, Enter, serviceVars, Held, Base, Threads
  <2> QED
    BY <1>1, <1>2, <2>1, <2>2, RegistrationsStay
<1> QED
  BY <1>4, <1>5, <1>6

LEMMA ThreadRegistrations ==
    ASSUME Base, RegistrationsConserved, Service \/ Redirect
    PROVE  RegistrationsConserved'
<1> USE Names
<1>1. reader' = reader /\ found' = found /\ main' = main /\ starts' = starts
  BY DEF Service, ServiceTest, ServiceReceive, Count, Redirect, RedirectTest, RedirectReceive,
         Copy, Copied, clientVars, mainVars
<1>2. Registered' = Registered /\ FirstServes' = FirstServes
  BY <1>1 DEF Registered, Found, FirstServes
<1>3. CASE ServiceTest \/ RedirectTest \/ Copied
  <2>1. queue' = queue /\ clients_number' = clients_number /\ Held' = Held
    BY <1>3 DEF ServiceTest, RedirectTest, Copied, serviceVars, Held
  <2> QED
    BY <1>2, <2>1, RegistrationsStay
<1>4. CASE ServiceReceive
  <2>1. /\ Msgrcv("service") /\ clients_number' = clients_number /\ Held = 0 /\ Held' = 1
    BY <1>4 DEF ServiceReceive, Held
  <2>2. queue["service"] # <<>> /\ queue'["service"] = Tail(queue["service"])
    BY <2>1, Receiving
  <2>3. Len(queue'["service"]) = Len(queue["service"]) - 1
    BY <2>2 DEF Base, TypeOK
  <2>4. Len(queue'["service"]) + clients_number' + Held'
            = Len(queue["service"]) + clients_number + Held
    BY <2>1, <2>3, RegistrationTypes
  <2> QED
    BY <1>2, <2>4 DEF RegistrationsConserved, Held
<1>5. CASE Count
  <2>1. queue' = queue /\ clients_number' = clients_number + 1 /\ Held = 1 /\ Held' = 0
    BY <1>5 DEF Count, Held
  <2>2. Len(queue'["service"]) + clients_number' + Held'
            = Len(queue["service"]) + clients_number + Held
    BY <2>1, RegistrationTypes
  <2> QED
    BY <1>2, <2>2 DEF RegistrationsConserved, Held
<1>6. CASE RedirectReceive
  <2>1. Msgrcv("middle") /\ "middle" \in Range(Queues)
        /\ clients_number' = clients_number /\ service_thread' = service_thread
    BY <1>6 DEF RedirectReceive, serviceVars
  <2>2. queue'["service"] = queue["service"]
    BY <2>1, Receiving
  <2> QED
    BY <1>2, <2>1, <2>2, RegistrationsStay DEF Held
<1>7. CASE Copy
  <2>1. Msgsnd("client", message) /\ "client" \in Range(Queues) /\ message \in Clients \cup Line
        /\ clients_number' = clients_number /\ service_thread' = service_thread
    BY <1>7 DEF Copy, serviceVars, Base, Shape
  <2>2. queue'["service"] = queue["service"]
    BY <2>1, Sending
  <2> QED
    BY <1>2, <2>1, <2>2, RegistrationsStay DEF Held
<1> QED
  BY <1>3, <1>4, <1>5, <1>6, <1>7 DEF Service, Redirect

LEMMA ClientRegistrations ==
    ASSUME Base, RegistrationsConserved, NEW c \in Clients,
           Reader(c) \/ Type(c) \/ Quit(c) \/ Printer(c)
    PROVE  RegistrationsConserved'
<1> USE Names
<1>1. UNCHANGED <<clients_number, service_thread, starts, main>>
  BY DEF Reader, Lookup, Register, Send, Type, Quit, Printer, PrinterTest, Show, ShowNothing,
         serverVars, serviceVars, mainVars
<1>2. Held' = Held /\ FirstServes' = FirstServes
  BY <1>1 DEF Held, FirstServes
<1>3. CASE Lookup(c)
  <2>1. /\ reader[c] = "off" /\ reader'[c] \in {"off", "register"}
        /\ \A d \in Clients \ {c} : reader'[d] = reader[d] /\ found'[d] = found[d]
        /\ queue' = queue
    BY <1>3 DEF Lookup, Base, TypeOK
  <2>2. Registered' = Registered
    BY <2>1 DEF Registered, Found
  <2> QED
    BY <1>1, <1>2, <2>1, <2>2, RegistrationsStay
<1>4. CASE Register(c)
  <2>1. /\ reader[c] = "register" /\ reader'[c] = "type" /\ found' = found
        /\ \A d \in Clients \ {c} : reader'[d] = reader[d]
    BY <1>4 DEF Register, Base, TypeOK
  <2>2. c \notin Registered
    BY <2>1 DEF Registered
  <2>3. CASE Found(c, "service")
    <3>1. queue'["service"] = Append(queue["service"], c)
      BY <1>4, <2>3, Sending DEF Register
    <3>2. Len(queue'["service"]) = Len(queue["service"]) + 1
      BY <3>1 DEF Base, TypeOK
    <3>3. Registered' = Registered \cup {c}
      BY <2>1, <2>3 DEF Registered, Found
    <3>4. Cardinality(Registered') = Cardinality(Registered) + 1
      BY <2>2, <3>3, RegistrationTypes, FS_AddElement
    <3>5. Len(queue'["service"]) + clients_number' + Held'
              = Len(queue["service"]) + clients_number + Held + 1
      BY <1>1, <1>2, <3>2, RegistrationTypes
    <3> QED
      BY <1>2, <3>4, <3>5, RegistrationTypes DEF RegistrationsConserved, Held
  <2>4. CASE ~Found(c, "service")
    <3>1. queue' = queue
      BY <1>4, <2>4 DEF Register
    <3>2. Registered' = Registered
      BY <2>1, <2>4 DEF Registered, Found
    <3> QED
      BY <1>1, <1>2, <3>1, <3>2, RegistrationsStay
  <2> QED
    BY <2>3, <2>4
<1>5. CASE Type(c) \/ Quit(c) \/ Send(c)
  <2>1. /\ reader[c] \notin {"off", "register"} /\ reader'[c] \notin {"off", "register"}
        /\ \A d \in Clients \ {c} : reader'[d] = reader[d]
        /\ found' = found
    BY <1>5 DEF Type, Quit, Send, Base, TypeOK
  <2>2. Registered' = Registered
    BY <2>1 DEF Registered, Found
  <2>3. queue'["service"] = queue["service"]
    <3>1. CASE Type(c) \/ Quit(c)
      BY <3>1 DEF Type, Quit
    <3>2. CASE Send(c)
      <4>1. <<c, typed[c]>> \in Clients \cup Line /\ "middle" \in Range(Queues)
        BY <3>2 DEF Send, Base, TypeOK, Shape, Line
      <4> QED
        BY <3>2, <4>1, Sending DEF Send
    <3> QED
      BY <1>5, <3>1, <3>2
  <2> QED
    BY <1>1, <1>2, <2>2, <2>3, RegistrationsStay
<1>6. CASE Printer(c)
  <2>1. reader' = reader /\ found' = found
    BY <1>6 DEF Printer, PrinterTest, Show, ShowNothing
  <2>2. queue'["service"] = queue["service"]
    <3>1. CASE PrinterTest(c) \/ ShowNothing(c)
      BY <3>1 DEF PrinterTest, ShowNothing
    <3>2. CASE Show(c)
      <4>1. Msgrcv("client") /\ "client" \in Range(Queues)
        BY <3>2 DEF Show
      <4> QED
        BY <4>1, Receiving
    <3> QED
      BY <1>6, <3>1, <3>2 DEF Printer
  <2>3. Registered' = Registered
    BY <2>1 DEF Registered, Found
  <2> QED
    BY <1>1, <1>2, <2>2, <2>3, RegistrationsStay
<1> QED
  BY <1>3, <1>4, <1>5, <1>6 DEF Reader

LEMMA NextRegistrations ==
    ASSUME Base, RegistrationsConserved, [Next]_vars PROVE RegistrationsConserved'
<1>1. CASE UNCHANGED vars
  <2>1. UNCHANGED <<queue, reader, found, clients_number, service_thread, starts, main>>
    BY <1>1 DEF vars, mainVars, serviceVars, serverVars, clientVars
  <2>2. Registered' = Registered /\ Held' = Held /\ (FirstServes' => FirstServes)
    BY <2>1 DEF Registered, Found, Held, FirstServes
  <2> QED
    BY <2>1, <2>2, RegistrationsStay
<1> QED
  BY <1>1, MainRegistrations, ThreadRegistrations, ClientRegistrations DEF Next

-----------------------------------------------------------------------------
(* The lines *)

(* The queue of lines and the log, of the steps that leave them alone.      *)
LEMMA LinesSame ==
    ASSUME Base, [Next]_vars, ~RedirectReceive,
           \A c \in Clients : Send(c) => ~Found(c, "middle")
    PROVE  log' = log /\ queue'["middle"] = queue["middle"]
<1> USE Names
<1>1. CASE \/ Start \/ Create \/ StartThreads \/ Enter \/ Joined \/ Kill \/ UNCHANGED vars
           \/ ServiceTest \/ Count \/ RedirectTest \/ Copied
  BY <1>1 DEF Start, Create, StartThreads, Enter, Joined, Kill, ServiceTest, Count, RedirectTest,
      Copied, redirectVars, serverVars, vars
<1>2. CASE ServiceReceive
  <2>1. Msgrcv("service") /\ log' = log
    BY <1>2 DEF ServiceReceive, redirectVars
  <2> QED
    BY <2>1, Receiving
<1>3. CASE Copy
  <2>1. Msgsnd("client", message) /\ log' = log
        /\ message \in Clients \cup Line /\ "client" \in Range(Queues)
    BY <1>3 DEF Copy, Base, Shape
  <2> QED
    BY <2>1, Sending
<1>4. ASSUME NEW c \in Clients, Reader(c) \/ Type(c) \/ Quit(c) \/ Printer(c)
      PROVE  log' = log /\ queue'["middle"] = queue["middle"]
  <2>1. log' = log
    BY <1>4 DEF Reader, Lookup, Register, Send, Type, Quit, Printer, PrinterTest, Show,
        ShowNothing, serverVars, redirectVars
  <2>2. CASE Register(c)
    BY <2>1, <2>2, Sending DEF Register
  <2>3. CASE Show(c)
    <3>1. Msgrcv("client") /\ "client" \in Range(Queues)
      BY <2>3 DEF Show
    <3> QED
      BY <2>1, <3>1, Receiving
  <2>4. CASE Lookup(c) \/ Send(c) \/ Type(c) \/ Quit(c) \/ PrinterTest(c) \/ ShowNothing(c)
    BY <2>1, <2>4 DEF Lookup, Send, Type, Quit, PrinterTest, ShowNothing
  <2> QED
    BY <1>4, <2>2, <2>3, <2>4 DEF Reader, Printer
<1> QED
  BY <1>1, <1>2, <1>3, <1>4 DEF Next, Service, Redirect

(* What a client has sent changes when it sends a line, and never else.     *)
LEMMA SentSame ==
    ASSUME Base, [Next]_vars, NEW c \in Clients, Send(c) => ~Found(c, "middle")
    PROVE  Sent(c)' = Sent(c)
<1>1. CASE UNCHANGED <<reader, found, typed>>
  BY <1>1 DEF Sent, Found
<1>2. ASSUME NEW d \in Clients \ {c}, Reader(d) \/ Type(d) \/ Quit(d) \/ Printer(d)
      PROVE  Sent(c)' = Sent(c)
  <2>1. reader'[c] = reader[c] /\ found'[c] = found[c] /\ typed'[c] = typed[c]
    BY <1>2 DEF Reader, Lookup, Register, Send, Type, Quit, Printer, PrinterTest, Show,
        ShowNothing, Base, TypeOK
  <2> QED
    BY <2>1 DEF Sent, Found
<1>3. typed[c] \in Nat
  BY Names DEF Base, TypeOK
<1>4. CASE Lookup(c)
  <2>1. /\ typed'[c] = typed[c] /\ typed[c] = 0 /\ reader[c] # "msgsnd" /\ reader'[c] # "msgsnd"
    BY <1>4 DEF Lookup, Base, TypeOK, Shape
  <2>2. Sent(c) = IF ~Found(c, "middle") THEN 0 ELSE 0 - 0
    BY <2>1 DEF Sent
  <2>3. Sent(c)' = IF ~Found(c, "middle")' THEN 0 ELSE 0 - 0
    BY <2>1 DEF Sent
  <2>4. Sent(c) = 0
    BY <2>2
  <2>5. Sent(c)' = 0
    BY <2>3
  <2> QED
    BY <2>4, <2>5
<1>5. CASE Type(c)
  <2>1. /\ typed'[c] = typed[c] + 1 /\ reader[c] # "msgsnd" /\ reader'[c] = "msgsnd"
        /\ found' = found
    BY <1>5 DEF Type, Base, TypeOK
  <2>2. Found(c, "middle")' <=> Found(c, "middle")
    BY <2>1 DEF Found
  <2> QED
    BY <1>3, <2>1, <2>2 DEF Sent
<1>6. CASE Register(c) \/ Quit(c)
  <2>1. reader[c] # "msgsnd" /\ reader'[c] # "msgsnd" /\ typed' = typed /\ found' = found
    BY <1>6 DEF Register, Quit, Base, TypeOK
  <2>2. Found(c, "middle")' <=> Found(c, "middle")
    BY <2>1 DEF Found
  <2> QED
    BY <2>1, <2>2 DEF Sent
<1>7. CASE Send(c)
  <2>1. found' = found /\ ~Found(c, "middle")
    BY <1>7 DEF Send
  <2>2. ~Found(c, "middle")'
    BY <2>1 DEF Found
  <2> QED
    BY <2>1, <2>2 DEF Sent
<1>8. CASE Printer(c)
  BY <1>1, <1>8 DEF Printer, PrinterTest, Show, ShowNothing
<1>9. CASE Start \/ Create \/ StartThreads \/ Enter \/ Joined \/ Kill \/ Service \/ Redirect
           \/ UNCHANGED vars
  BY <1>1, <1>9 DEF Start, Create, StartThreads, Enter, Joined, Kill, Service, ServiceTest,
      ServiceReceive, Count, Redirect, RedirectTest, RedirectReceive, Copy, Copied, clientVars, vars
<1> QED
  BY <1>2, <1>4, <1>5, <1>6, <1>7, <1>8, <1>9 DEF Next, Reader

(* The lines do not move while their sequence and Sent stay.                *)
LEMMA LinesStay ==
    ASSUME Base, LinesConserved, log' \o queue'["middle"] = log \o queue["middle"],
           \A c \in Clients : Sent(c)' = Sent(c)
    PROVE  LinesConserved'
<1>1. log \o queue["middle"] \in Seq(Line)
  BY DEF Base, TypeOK
<1>2. \A k \in DOMAIN (log \o queue["middle"]) : (log \o queue["middle"])[k][1] \in Clients
  BY <1>1 DEF Line
<1> DEFINE now == log \o queue["middle"]
           next == log' \o queue'["middle"]
<1>3. \A c \in Clients : \A n \in 1..Sent(c)' : <<c, n>> \in Range(next)
  BY DEF LinesConserved
<1>4. \A k \in DOMAIN next : next[k][2] \in 1..Sent(now[k][1])
  BY DEF LinesConserved
<1>5. \A j, k \in DOMAIN next :
          j < k /\ next[j][1] = next[k][1] => next[j][2] < next[k][2]
  BY DEF LinesConserved
<1> QED
  BY <1>2, <1>3, <1>4, <1>5 DEF LinesConserved

(* The head of the queue goes to the end of the log.                        *)
LEMMA HeadMoves ==
    ASSUME NEW S, NEW s \in Seq(S), NEW t \in Seq(S), t # <<>>
    PROVE  Append(s, Head(t)) \o Tail(t) = s \o t
<1> DEFINE a == Append(s, Head(t)) \o Tail(t)
           b == s \o t
<1>1. /\ Len(t) \in Nat /\ Len(t) > 0 /\ Len(s) \in Nat /\ Head(t) = t[1] /\ Head(t) \in S
      /\ Tail(t) \in Seq(S) /\ Len(Tail(t)) = Len(t) - 1
      /\ \A k \in 1..(Len(t) - 1) : Tail(t)[k] = t[k + 1]
  OBVIOUS
<1>2. Append(s, Head(t)) \in Seq(S) /\ Len(Append(s, Head(t))) = Len(s) + 1
  BY <1>1
<1>3. a \in Seq(S) /\ b \in Seq(S) /\ Len(a) = Len(s) + Len(t) /\ Len(b) = Len(s) + Len(t)
  BY <1>1, <1>2
<1>4. ASSUME NEW k \in 1..(Len(s) + Len(t)) PROVE a[k] = b[k]
  <2>1. CASE k <= Len(s)
    BY <1>1, <1>2, <2>1
  <2>2. CASE k = Len(s) + 1
    BY <1>1, <1>2, <2>2
  <2>3. CASE k > Len(s) + 1
    <3>1. a[k] = Tail(t)[k - (Len(s) + 1)] /\ b[k] = t[k - Len(s)]
      BY <1>1, <1>2, <2>3
    <3>2. k - (Len(s) + 1) \in 1..(Len(t) - 1) /\ (k - (Len(s) + 1)) + 1 = k - Len(s)
      BY <1>1, <2>3
    <3> QED
      BY <1>1, <3>1, <3>2
  <2> QED
    BY <1>1, <2>1, <2>2, <2>3
<1> HIDE DEF a, b
<1>5. a = b
  BY <1>3, <1>4
<1> QED
  BY <1>5 DEF a, b

LEMMA ReceiveLines ==
    ASSUME Base, RedirectReceive
    PROVE  /\ queue["middle"] # <<>> /\ message' = Head(queue["middle"])
           /\ log' = Append(log, Head(queue["middle"]))
           /\ queue'["middle"] = Tail(queue["middle"])
           /\ queue'["client"] = queue["client"]
           /\ log' \o queue'["middle"] = log \o queue["middle"]
<1>1. /\ Msgrcv("middle") /\ message' = Head(queue["middle"]) /\ log' = Append(log, message')
      /\ "middle" \in Range(Queues)
  BY Names DEF RedirectReceive
<1>2. /\ queue["middle"] # <<>> /\ queue'["middle"] = Tail(queue["middle"])
      /\ queue'["client"] = queue["client"]
  BY <1>1, Receiving, Names
<1>3. log \in Seq(Line) /\ queue["middle"] \in Seq(Line)
  BY DEF Base, TypeOK
<1> QED
  BY <1>1, <1>2, <1>3, HeadMoves

LEMMA SendLines ==
    ASSUME Base, LinesConserved, NEW c \in Clients, Send(c), Found(c, "middle"),
           \A d \in Clients \ {c} : Sent(d)' = Sent(d)
    PROVE  LinesConserved'
<1> DEFINE now == log \o queue["middle"]
           line == <<c, typed[c]>>
           next == log' \o queue'["middle"]
<1>1. /\ reader[c] = "msgsnd" /\ reader'[c] = "type" /\ typed' = typed /\ found' = found
      /\ log' = log /\ Msgsnd("middle", line)
  BY DEF Send, Base, TypeOK, serverVars, redirectVars
<1>2. typed[c] \in Nat /\ typed[c] > 0 /\ line \in Line
  BY <1>1, Names DEF Base, TypeOK, Shape, Line
<1>3. queue'["middle"] = Append(queue["middle"], line)
  <2>1. line \in Clients \cup Line /\ "middle" \in Range(Queues)
    BY <1>2, Names
  <2> QED
    BY <1>1, <2>1, Sending
<1>4. Sent(c) = typed[c] - 1 /\ Sent(c)' = typed[c]
  <2>1. Found(c, "middle")'
    BY <1>1 DEF Found
  <2> QED
    BY <1>1, <1>2, <2>1 DEF Sent
<1>5. /\ log \in Seq(Line) /\ queue["middle"] \in Seq(Line) /\ now \in Seq(Line)
  BY DEF Base, TypeOK
<1>6. next = Append(now, line)
  <2>1. \A s, t \in Seq(Line) : s \o Append(t, line) = Append(s \o t, line)
    BY <1>2
  <2> HIDE DEF line
  <2> QED
    BY <1>1, <1>3, <1>5, <2>1
<1>7. /\ \A d \in Clients : \A n \in 1..Sent(d) : <<d, n>> \in Range(now)
      /\ \A k \in DOMAIN now : now[k][2] \in 1..Sent(now[k][1])
      /\ \A j, k \in DOMAIN now : j < k /\ now[j][1] = now[k][1] => now[j][2] < now[k][2]
  BY DEF LinesConserved
<1>8. /\ Len(next) = Len(now) + 1 /\ Len(now) \in Nat /\ next[Len(now) + 1] = line
      /\ DOMAIN now = 1..Len(now) /\ DOMAIN next = 1..(Len(now) + 1)
      /\ \A k \in DOMAIN now : next[k] = now[k] /\ now[k] \in Line
  <2> HIDE DEF now, line, next
  <2> QED
    BY <1>2, <1>5, <1>6
<1>9. line[1] = c /\ line[2] = typed[c]
  OBVIOUS
<1>10. \A k \in DOMAIN now : now[k][1] \in Clients /\ now[k][2] \in Nat
  BY <1>8, Names DEF Line
<1> HIDE DEF now, line, next
<1>11. \A d \in Clients : \A n \in 1..Sent(d)' : <<d, n>> \in Range(next)
  <2>1. SUFFICES ASSUME NEW d \in Clients, NEW n \in 1..Sent(d)'
                 PROVE  \E k \in DOMAIN next : next[k] = <<d, n>>
    BY DEF Range
  <2>2. CASE n \in 1..Sent(d)
    <3>1. PICK k \in DOMAIN now : now[k] = <<d, n>>
      BY <1>7, <2>2 DEF Range
    <3> QED
      BY <1>8, <3>1
  <2>3. CASE n \notin 1..Sent(d)
    <3>1. d = c /\ n = typed[c]
      BY <1>2, <1>4, <2>1, <2>3
    <3> QED
      BY <1>8, <3>1 DEF line
  <2> QED
    BY <2>2, <2>3
<1>12. \A k \in DOMAIN next : \A d \in Clients : next[k][1] = d => next[k][2] \in 1..Sent(d)'
  <2>1. SUFFICES ASSUME NEW k \in DOMAIN next, NEW d \in Clients, d = next[k][1]
                 PROVE  next[k][2] \in 1..Sent(d)'
    OBVIOUS
  <2>2. CASE k \in DOMAIN now
    <3>1. next[k] = now[k] /\ d = now[k][1] /\ d \in Clients /\ now[k][2] \in 1..Sent(d)
      BY <1>7, <1>8, <1>10, <2>1, <2>2
    <3>2. CASE d = c
      BY <1>2, <1>4, <3>1, <3>2
    <3>3. CASE d # c
      BY <3>1, <3>3
    <3> QED
      BY <3>2, <3>3
  <2>3. CASE k \notin DOMAIN now
    <3>1. next[k] = line
      BY <1>8, <2>3
    <3> QED
      BY <1>2, <1>4, <1>9, <2>1, <3>1
  <2> QED
    BY <2>2, <2>3
<1>13. \A j, k \in DOMAIN next : j < k /\ next[j][1] = next[k][1] => next[j][2] < next[k][2]
  <2>1. SUFFICES ASSUME NEW j \in DOMAIN next, NEW k \in DOMAIN next, j < k,
                        next[j][1] = next[k][1]
                 PROVE  next[j][2] < next[k][2]
    OBVIOUS
  <2>2. j \in DOMAIN now
    BY <1>8, <2>1
  <2>3. CASE k \in DOMAIN now
    BY <1>7, <1>8, <2>1, <2>2, <2>3
  <2>4. CASE k \notin DOMAIN now
    <3>1. next[k] = line /\ next[j] = now[j] /\ now[j][1] = c
      BY <1>8, <1>9, <2>1, <2>2, <2>4
    <3>2. now[j][2] \in 1..(typed[c] - 1)
      BY <1>4, <1>7, <2>2, <3>1
    <3> QED
      BY <1>2, <1>9, <3>1, <3>2
  <2> QED
    BY <2>3, <2>4
<1>14. \A k \in DOMAIN next : next[k][1] \in Clients
  BY <1>8, <1>9, <1>10
<1> DEFINE S == [d \in Clients |-> Sent(d)']
<1>15. \A d \in Clients : Sent(d)' = S[d]
  OBVIOUS
<1> HIDE DEF S
<1>16. \A k \in DOMAIN next : next[k][2] \in 1..S[next[k][1]]
  BY <1>12, <1>14, <1>15
<1> USE DEF next
<1> QED
  BY <1>11, <1>13, <1>14, <1>15, <1>16 DEF LinesConserved

LEMMA NextLines == ASSUME Base, LinesConserved, [Next]_vars PROVE LinesConserved'
<1>1. CASE RedirectReceive
  <2>1. \A c \in Clients : Send(c) => FALSE
    BY <1>1 DEF Send, RedirectReceive, serverVars, redirectVars
  <2>2. \A c \in Clients : Sent(c)' = Sent(c)
    BY <2>1, SentSame
  <2> QED
    BY <1>1, <2>2, ReceiveLines, LinesStay
<1>2. ASSUME NEW c \in Clients, Send(c), Found(c, "middle") PROVE LinesConserved'
  <2>1. \A d \in Clients \ {c} : Sent(d)' = Sent(d)
    <3>1. \A d \in Clients \ {c} : ~Send(d)
      BY <1>2 DEF Send, Base, TypeOK
    <3> QED
      BY <3>1, SentSame
  <2> QED
    BY <1>2, <2>1, SendLines
<1>3. CASE ~RedirectReceive /\ \A c \in Clients : Send(c) => ~Found(c, "middle")
  BY <1>3, LinesSame, SentSame, LinesStay
<1> QED
  BY <1>1, <1>2, <1>3

-----------------------------------------------------------------------------
(* The copies *)

(* Copies of a line in a client queue C and on screens P.                   *)
CopiesIn(l, C, P) == Cardinality(Places(C, l))
                       + SumFunctionOnSet([c \in Clients |-> Cardinality(Places(P[c], l))], Clients)

LEMMA CopiesAre ==
    ASSUME NEW l PROVE /\ Copies(l) = CopiesIn(l, queue["client"], printed)
                       /\ Copies(l)' = CopiesIn(l, queue'["client"], printed')
<1>1. Copies(l) = CopiesIn(l, queue["client"], printed)
  BY DEF Copies, CopiesIn, Occurrences, Places, SumFunction
<1>2. Copies(l)' = CopiesIn(l, queue'["client"], printed')
  BY DEF Copies, CopiesIn, Occurrences, Places, SumFunction
<1> QED
  BY <1>1, <1>2

LEMMA CopiesNat ==
    ASSUME NEW l, NEW C \in Seq(Line), NEW P \in [Clients -> Seq(Line)]
    PROVE  /\ Cardinality(Places(C, l)) \in Nat
           /\ SumFunctionOnSet([c \in Clients |-> Cardinality(Places(P[c], l))], Clients) \in Nat
           /\ CopiesIn(l, C, P) \in Nat
<1> DEFINE f == [c \in Clients |-> Cardinality(Places(P[c], l))]
<1>1. \A c \in Clients : f[c] \in Nat
  BY PlacesFinite
<1>2. SumFunctionOnSet(f, Clients) \in Nat
  BY <1>1, Names, SumNat
<1>3. Cardinality(Places(C, l)) \in Nat
  BY PlacesFinite
<1> QED
  BY <1>2, <1>3 DEF CopiesIn

(* A copy more of one line in the queue.                                    *)
LEMMA CopiesMore ==
    ASSUME NEW l \in Line, NEW m \in Line, NEW C \in Seq(Line), NEW P \in [Clients -> Seq(Line)]
    PROVE  CopiesIn(l, Append(C, m), P) = CopiesIn(l, C, P) + (IF l = m THEN 1 ELSE 0)
<1> DEFINE n == SumFunctionOnSet([c \in Clients |-> Cardinality(Places(P[c], l))], Clients)
           k == Cardinality(Places(C, l))
<1>1. k \in Nat /\ n \in Nat
  BY CopiesNat
<1>2. CopiesIn(l, C, P) = k + n /\ CopiesIn(l, Append(C, m), P) = Cardinality(Places(Append(C, m), l)) + n
  BY DEF CopiesIn
<1>3. /\ l = m => Cardinality(Places(Append(C, m), l)) = k + 1
      /\ l # m => Cardinality(Places(Append(C, m), l)) = k
  BY PlacesAppend
<1> HIDE DEF n, k
<1>4. CASE l = m
  <2>1. CopiesIn(l, Append(C, m), P) = (k + 1) + n
    BY <1>2, <1>3, <1>4
  <2> QED
    BY <1>1, <1>2, <1>4, <2>1
<1>5. CASE l # m
  <2>1. CopiesIn(l, Append(C, m), P) = CopiesIn(l, C, P)
    BY <1>2, <1>3, <1>5
  <2>2. CopiesIn(l, C, P) + 0 = CopiesIn(l, C, P)
    BY <1>1, <1>2
  <2> QED
    BY <1>5, <2>1, <2>2
<1> QED
  BY <1>4, <1>5

(* A copy goes from the queue to a screen.                                  *)
Moved(c, C, P, Q) == /\ C \in Seq(Line) /\ C # <<>>
                     /\ P \in [Clients -> Seq(Line)] /\ Q \in [Clients -> Seq(Line)]
                     /\ Q[c] = Append(P[c], Head(C)) /\ \A d \in Clients \ {c} : Q[d] = P[d]

LEMMA CopiesMoved ==
    ASSUME NEW l \in Line, NEW c \in Clients, NEW C, NEW P, NEW Q, Moved(c, C, P, Q)
    PROVE  CopiesIn(l, Tail(C), Q) = CopiesIn(l, C, P)
<1> DEFINE f == [d \in Clients |-> Cardinality(Places(P[d], l))]
           g == [d \in Clients |-> Cardinality(Places(Q[d], l))]
           one == IF Head(C) = l THEN 1 ELSE 0
<1> USE DEF Moved
<1>1. Head(C) \in Line /\ Tail(C) \in Seq(Line) /\ P[c] \in Seq(Line)
  BY QueueTypes
<1>2. \A d \in Clients : f[d] \in Nat /\ g[d] \in Nat
  BY <1>1, PlacesFinite
<1>3. \A d \in Clients \ {c} : g[d] = f[d]
  BY <1>1
<1>4. g[c] = f[c] + one
  <2>1. g[c] = Cardinality(Places(Append(P[c], Head(C)), l)) /\ f[c] = Cardinality(Places(P[c], l))
    BY <1>1
  <2>2. /\ Head(C) = l => Cardinality(Places(Append(P[c], Head(C)), l)) = Cardinality(Places(P[c], l)) + 1
        /\ Head(C) # l => Cardinality(Places(Append(P[c], Head(C)), l)) = Cardinality(Places(P[c], l))
    BY <1>1, PlacesAppend
  <2>3. f[c] \in Nat
    BY <1>2
  <2> HIDE DEF f, g
  <2> QED
    BY <2>1, <2>2, <2>3
<1>5. SumFunctionOnSet(g, Clients) + f[c] = SumFunctionOnSet(f, Clients) + g[c]
  <2>1. IsFiniteSet(Clients)
    BY Names
  <2> HIDE DEF f, g
  <2> QED
    BY ONLY <1>2, <1>3, <2>1, c \in Clients, SumChange
<1>6. Cardinality(Places(C, l)) = Cardinality(Places(Tail(C), l)) + one
  BY PlacesTail
<1>7. /\ SumFunctionOnSet(f, Clients) \in Nat /\ SumFunctionOnSet(g, Clients) \in Nat
      /\ Cardinality(Places(C, l)) \in Nat /\ Cardinality(Places(Tail(C), l)) \in Nat
      /\ f[c] \in Nat /\ one \in {0, 1}
  BY <1>1, <1>2, CopiesNat
<1>8. /\ CopiesIn(l, C, P) = Cardinality(Places(C, l)) + SumFunctionOnSet(f, Clients)
      /\ CopiesIn(l, Tail(C), Q) = Cardinality(Places(Tail(C), l)) + SumFunctionOnSet(g, Clients)
  BY DEF CopiesIn
<1>9. CopiesIn(l, Tail(C), Q) = CopiesIn(l, C, P)
  <2> DEFINE F == SumFunctionOnSet(f, Clients)
             G == SumFunctionOnSet(g, Clients)
             T == Cardinality(Places(Tail(C), l))
             W == Cardinality(Places(C, l))
  <2>1. G + f[c] = F + g[c] /\ g[c] = f[c] + one /\ W = T + one
    BY <1>4, <1>5, <1>6
  <2>2. F \in Nat /\ G \in Nat /\ W \in Nat /\ T \in Nat /\ f[c] \in Nat /\ one \in Nat
    BY <1>7
  <2>3. CopiesIn(l, C, P) = W + F /\ CopiesIn(l, Tail(C), Q) = T + G
    BY <1>8
  <2> HIDE DEF f, g, one, F, G, T, W
  <2>4. G = F + one
    BY <2>1, <2>2
  <2>5. T + G = W + F
    BY <2>1, <2>2, <2>4
  <2> QED
    BY <2>3, <2>5
<1> QED
  BY <1>9

(* The client queue and the screens change when a copy is sent or shown.    *)
LEMMA CopySends ==
    ASSUME Base, Copy
    PROVE  /\ queue'["client"] = Append(queue["client"], message) /\ printed' = printed
           /\ message \in Line
<1>1. Msgsnd("client", message) /\ printed' = printed
      /\ message \in Line /\ message \in Clients \cup Line /\ "client" \in Range(Queues)
  BY Names DEF Copy, Base, Shape, clientVars
<1> QED
  BY <1>1, Sending

LEMMA ShowMoves ==
    ASSUME Base, NEW c \in Clients, Show(c)
    PROVE  /\ Moved(c, queue["client"], printed, printed')
           /\ queue'["client"] = Tail(queue["client"]) /\ ~Copy
<1>1. Msgrcv("client") /\ printed' = [printed EXCEPT ![c] = Append(@, Head(queue["client"]))]
      /\ "client" \in Range(Queues)
  BY Names DEF Show
<1>2. queue["client"] # <<>> /\ queue'["client"] = Tail(queue["client"])
  BY <1>1, Receiving
<1>3. queue["client"] \in Seq(Line) /\ printed \in [Clients -> Seq(Line)]
  BY DEF Base, TypeOK
<1>4. Append(printed[c], Head(queue["client"])) \in Seq(Line)
  BY <1>2, <1>3, QueueTypes
<1>5. /\ printed' \in [Clients -> Seq(Line)]
      /\ printed'[c] = Append(printed[c], Head(queue["client"]))
      /\ \A d \in Clients \ {c} : printed'[d] = printed[d]
  BY <1>1, <1>3, <1>4
<1>6. i' = i /\ i \in Nat
  BY DEF Show, serverVars, redirectVars, Base, TypeOK
<1>7. ~Copy
  BY <1>6 DEF Copy
<1> QED
  BY <1>2, <1>3, <1>5, <1>7 DEF Moved

LEMMA ScreensSame ==
    ASSUME Base, [Next]_vars, ~Copy, \A c \in Clients : ~Show(c)
    PROVE  queue'["client"] = queue["client"] /\ printed' = printed
<1> USE Names
<1>1. CASE \/ Start \/ Create \/ StartThreads \/ Enter \/ Joined \/ Kill \/ UNCHANGED vars
           \/ ServiceTest \/ Count \/ RedirectTest \/ Copied
  BY <1>1 DEF Start, Create, StartThreads, Enter, Joined, Kill, ServiceTest, Count,
      RedirectTest, Copied, clientVars, vars
<1>2. CASE ServiceReceive
  <2>1. Msgrcv("service") /\ printed' = printed
    BY <1>2 DEF ServiceReceive, clientVars
  <2> QED
    BY <2>1, Receiving
<1>3. CASE RedirectReceive
  <2>1. Msgrcv("middle") /\ printed' = printed /\ "middle" \in Range(Queues)
    BY <1>3 DEF RedirectReceive, clientVars
  <2> QED
    BY <2>1, Receiving
<1>4. ASSUME NEW c \in Clients, Reader(c) \/ Type(c) \/ Quit(c) \/ Printer(c)
      PROVE  queue'["client"] = queue["client"] /\ printed' = printed
  <2>1. CASE Register(c)
    BY <2>1, Sending DEF Register
  <2>2. CASE Send(c)
    <3>1. <<c, typed[c]>> \in Clients \cup Line /\ "middle" \in Range(Queues) /\ printed' = printed
      BY <2>2 DEF Send, Base, TypeOK, Shape, Line
    <3> QED
      BY <2>2, <3>1, Sending DEF Send
  <2>3. CASE Lookup(c) \/ Type(c) \/ Quit(c) \/ PrinterTest(c) \/ ShowNothing(c)
    BY <2>3 DEF Lookup, Type, Quit, PrinterTest, ShowNothing
  <2> QED
    BY <1>4, <2>1, <2>2, <2>3 DEF Reader, Printer
<1> QED
  BY <1>1, <1>2, <1>3, <1>4 DEF Next, Service, Redirect

(* How the copies of a line change: one more of the message in the copying  *)
(* loop, and not otherwise.                                                 *)
LEMMA NextCopies ==
    ASSUME Base, [Next]_vars, NEW l \in Line
    PROVE  /\ Copies(l) \in Nat /\ Copies(l)' \in Nat
           /\ Copies(l)' = IF Copy /\ l = message THEN Copies(l) + 1 ELSE Copies(l)
<1>1. queue["client"] \in Seq(Line) /\ printed \in [Clients -> Seq(Line)]
  BY DEF Base, TypeOK
<1>2. Copies(l) \in Nat
  <2>1. CopiesIn(l, queue["client"], printed) \in Nat
    BY <1>1, CopiesNat
  <2> QED
    BY <2>1, CopiesAre
<1>3. CASE Copy
  <2>1. Copies(l)' = Copies(l) + (IF l = message THEN 1 ELSE 0)
    <3>1. message \in Line
      BY <1>3, CopySends
    <3>2. CopiesIn(l, Append(queue["client"], message), printed)
              = CopiesIn(l, queue["client"], printed) + (IF l = message THEN 1 ELSE 0)
      BY <1>1, <3>1, CopiesMore
    <3> QED
      BY <1>3, <3>2, CopySends, CopiesAre
  <2> QED
    BY <1>2, <1>3, <2>1
<1>4. ASSUME NEW c \in Clients, Show(c)
      PROVE  Copies(l)' = Copies(l) /\ ~Copy
  <2>1. Moved(c, queue["client"], printed, printed')
    BY <1>4, ShowMoves
  <2>2. CopiesIn(l, Tail(queue["client"]), printed') = CopiesIn(l, queue["client"], printed)
    BY <1>4, <2>1, CopiesMoved
  <2> QED
    BY <1>4, <2>2, CopiesAre, ShowMoves
<1>5. CASE ~Copy /\ \A c \in Clients : ~Show(c)
  BY <1>2, <1>5, ScreensSame, CopiesAre
<1> QED
  BY <1>2, <1>3, <1>4, <1>5

-----------------------------------------------------------------------------
(* What was logged, and how often it is copied *)

(* No line is logged twice, and the line at the head of the queue is new.   *)
LEMMA LoggedOnce ==
    ASSUME Base, LinesConserved
    PROVE  /\ \A j, k \in DOMAIN log : log[j] = log[k] => j = k
           /\ queue["middle"] # <<>> => Head(queue["middle"]) \notin Range(log)
<1> DEFINE M == queue["middle"]
           now == log \o M
<1>1. log \in Seq(Line) /\ M \in Seq(Line)
  BY DEF Base, TypeOK
<1>2. \A j, k \in DOMAIN now : j < k /\ now[j][1] = now[k][1] => now[j][2] < now[k][2]
  BY DEF LinesConserved
<1> HIDE DEF M
<1>3. /\ DOMAIN log = 1..Len(log) /\ Len(log) \in Nat
      /\ DOMAIN now = 1..(Len(log) + Len(M)) /\ Len(M) \in Nat
      /\ \A k \in DOMAIN log : now[k] = log[k]
      /\ M # <<>> => Len(M) > 0 /\ now[Len(log) + 1] = Head(M)
      /\ \A k \in DOMAIN now : now[k] \in Line
  BY <1>1
<1>4. \A k \in DOMAIN now : now[k][2] \in Nat
  BY <1>3, Names DEF Line
<1> HIDE DEF now
<1>5. \A j, k \in DOMAIN now : j < k => now[j] # now[k]
  <2>1. SUFFICES ASSUME NEW j \in DOMAIN now, NEW k \in DOMAIN now, j < k, now[j] = now[k]
                 PROVE  FALSE
    OBVIOUS
  <2>2. now[j][2] < now[k][2] /\ now[j][2] = now[k][2]
    BY <1>2, <2>1
  <2> QED
    BY <1>4, <2>2
<1>6. \A j, k \in DOMAIN log : log[j] = log[k] => j = k
  <2>1. SUFFICES ASSUME NEW j \in DOMAIN log, NEW k \in DOMAIN log, log[j] = log[k], j # k
                 PROVE  FALSE
    OBVIOUS
  <2>2. j \in DOMAIN now /\ k \in DOMAIN now /\ now[j] = now[k]
    BY <1>3, <2>1
  <2>3. j < k \/ k < j
    BY <1>3, <2>1
  <2> QED
    BY <1>5, <2>2, <2>3
<1>7. ASSUME M # <<>>, NEW k \in DOMAIN log, log[k] = Head(M) PROVE FALSE
  <2>1. /\ k \in DOMAIN now /\ Len(log) + 1 \in DOMAIN now /\ k < Len(log) + 1
        /\ now[k] = now[Len(log) + 1]
    BY <1>3, <1>7
  <2> QED
    BY <1>5, <2>1
<1> QED
  BY <1>6, <1>7 DEF Range, M

(* The log grows at its end, when redirecting_thread reads a line.          *)
LEMMA NextLog ==
    ASSUME Base, [Next]_vars
    PROVE  /\ log \in Seq(Line)
           /\ RedirectReceive => /\ log' = Append(log, message') /\ message' \in Line
                                 /\ redirecting' = "copy" /\ i' = 0 /\ redirecting = "msgrcv"
                                 /\ message' = Head(queue["middle"]) /\ queue["middle"] # <<>>
           /\ ~RedirectReceive => /\ log' = log
                                  /\ redirecting' = "copy" => redirecting = "copy" /\ message' = message
<1>1. log \in Seq(Line) /\ queue["middle"] \in Seq(Line)
  BY DEF Base, TypeOK
<1>2. ASSUME RedirectReceive
      PROVE  /\ log' = Append(log, message') /\ message' \in Line
             /\ redirecting' = "copy" /\ i' = 0 /\ redirecting = "msgrcv"
             /\ message' = Head(queue["middle"]) /\ queue["middle"] # <<>>
  BY <1>1, <1>2, ReceiveLines, QueueTypes DEF RedirectReceive
<1>3. ASSUME ~RedirectReceive
      PROVE  /\ log' = log
             /\ redirecting' = "copy" => redirecting = "copy" /\ message' = message
  BY <1>3 DEF Next, Start, Create, StartThreads, Enter, Joined, Kill, Service, ServiceTest,
     ServiceReceive, Count, Redirect, RedirectTest, Copy, Copied, Reader, Lookup, Register, Send,
     Type, Quit, Printer, PrinterTest, Show, ShowNothing, serverVars, redirectVars, vars
<1> QED
  BY <1>1, <1>2, <1>3

LEMMA NextLogged ==
    ASSUME Base, LinesConserved, Logged, [Next]_vars PROVE Logged'
<1>1. log \in Seq(Line)
  BY NextLog
<1>2. redirecting = "copy" => message \in Range(log)
  <2>1. redirecting = "copy" => Len(log) \in DOMAIN log
    BY <1>1 DEF Logged
  <2> QED
    BY <2>1 DEF Logged, Range
<1>3. Range(log) \subseteq Range(log)'
  <2>1. CASE RedirectReceive
    BY <1>1, <2>1, NextLog DEF Range
  <2>2. CASE ~RedirectReceive
    BY <2>2, NextLog
  <2> QED
    BY <2>1, <2>2
<1>4. ASSUME NEW l \in Line, Copies(l)' > 0 PROVE l \in Range(log)'
  <2>1. CASE Copy /\ l = message
    BY <1>2, <1>3, <2>1 DEF Copy
  <2>2. CASE ~(Copy /\ l = message)
    <3>1. Copies(l) > 0
      BY <1>4, <2>2, NextCopies
    <3> QED
      BY <1>3, <3>1 DEF Logged
  <2> QED
    BY <2>1, <2>2
<1>5. ASSUME redirecting' = "copy" PROVE log' # <<>> /\ message' = log'[Len(log')]
  <2>1. CASE RedirectReceive
    <3>1. log' = Append(log, message') /\ message' \in Line
      BY <2>1, NextLog
    <3> QED
      BY <1>1, <3>1, LastOfAppend
  <2>2. CASE ~RedirectReceive
    BY <1>5, <2>2, NextLog DEF Logged
  <2> QED
    BY <2>1, <2>2
<1> QED
  BY <1>4, <1>5 DEF Logged

LEMMA CountIs ==
    /\ \A l \in Line : Copies(l) = CopyCount[l]
    /\ \A l \in Line : Copies(l)' = CopyCount'[l]
BY DEF CopyCount

LEMMA NextCount ==
    ASSUME Base, [Next]_vars
    PROVE  /\ \A l \in Line : CopyCount[l] \in Nat
           /\ Copy => /\ message \in Line /\ CopyCount'[message] = CopyCount[message] + 1
                      /\ \A l \in Line \ {message} : CopyCount'[l] = CopyCount[l]
           /\ ~Copy => \A l \in Line : CopyCount'[l] = CopyCount[l]
<1>1. \A l \in Line : /\ CopyCount[l] \in Nat
                        /\ CopyCount'[l] = IF Copy /\ l = message THEN CopyCount[l] + 1
                                                                 ELSE CopyCount[l]
  BY NextCopies, CountIs
<1>2. Copy => message \in Line
  BY DEF Copy, Base, Shape
<1> QED
  BY <1>1, <1>2

(* The servers before counted no more clients than there are either.        *)
LEMMA NextBounded ==
    ASSUME Base, RegistrationsConserved, LinesConserved, Logged, CopiesBounded, [Next]_vars
    PROVE  CopiesBounded'
<1>1. clients_number \in Nat /\ i \in Nat /\ clients_number <= Cardinality(Clients)
      /\ Cardinality(Clients) \in Nat
  <2>1. /\ Cardinality(Registered) <= Cardinality(Clients) /\ Cardinality(Registered) \in Nat
        /\ Cardinality(Clients) \in Nat
    BY Names, FS_Subset, FS_CardinalityType, RegistrationTypes DEF Registered
  <2>2. Len(queue["service"]) \in Nat /\ clients_number \in Nat /\ Held \in {0, 1} /\ i \in Nat
    BY RegistrationTypes DEF Base, TypeOK
  <2>3. Len(queue["service"]) + clients_number + Held <= Cardinality(Registered)
    BY DEF RegistrationsConserved, Held
  <2> QED
    BY <2>1, <2>2, <2>3
<1>2. /\ \A l \in Line : CopyCount[l] \in Nat /\ CopyCount[l] <= Cardinality(Clients)
      /\ redirecting = "copy" => CopyCount[message] = i
  BY NextCount DEF CopiesBounded
<1>3. CASE RedirectReceive
  <2>1. /\ message' \in Line /\ message' \notin Range(log) /\ i' = 0 /\ redirecting = "msgrcv"
    BY <1>3, NextLog, LoggedOnce
  <2>2. \A l \in Line : CopyCount'[l] = CopyCount[l]
    BY <2>1, NextCount DEF Copy
  <2>3. CopyCount[message'] = 0
    <3>1. ASSUME NEW l \in Line, l \notin Range(log) PROVE CopyCount[l] = 0
      BY <1>2, <3>1, CountIs DEF Logged
    <3> QED
      BY <2>1, <3>1
  <2> QED
    BY <1>2, <2>1, <2>2, <2>3 DEF CopiesBounded
<1>4. CASE Copy
  <2>1. redirecting = "copy" /\ i < clients_number /\ i' = i + 1 /\ message' = message
    BY <1>4 DEF Copy
  <2>2. /\ message \in Line /\ CopyCount'[message] = i + 1
        /\ \A l \in Line \ {message} : CopyCount'[l] = CopyCount[l]
    BY <1>2, <1>4, <2>1, NextCount
  <2>3. i + 1 <= Cardinality(Clients)
    BY <1>1, <2>1
  <2>4. \A l \in Line : CopyCount'[l] <= Cardinality(Clients)
    BY <1>2, <2>2, <2>3
  <2> QED
    BY <2>1, <2>2, <2>4 DEF CopiesBounded
<1>5. CASE ~RedirectReceive /\ ~Copy
  <2>1. \A l \in Line : CopyCount'[l] = CopyCount[l]
    BY <1>5, NextCount
  <2>2. redirecting' = "copy" => redirecting = "copy" /\ message' = message
    BY <1>5, NextLog
  <2>3. i' = i
    BY <1>5 DEF Next, Start, Create, StartThreads, Enter, Joined, Kill, Service, ServiceTest,
       ServiceReceive, Count, Redirect, RedirectTest, Copied, Reader, Lookup, Register, Send,
       Type, Quit, Printer, PrinterTest, Show, ShowNothing, serverVars, redirectVars, vars
  <2>4. redirecting = "copy" => message \in Line
    BY DEF Base, Shape
  <2> QED
    BY <1>2, <2>1, <2>2, <2>3, <2>4 DEF CopiesBounded
<1> QED
  BY <1>3, <1>4, <1>5

(* CopiesFollowCount in terms of the function.                              *)
CopiesRight ==
    /\ redirecting = "copy" => CopyCount[message] = i
    /\ \A k \in DOMAIN log : CopyCount[log[k]] <= clients_number
    /\ \A j, k \in DOMAIN log :
          j < k /\ (redirecting = "copy" => k < Len(log)) => CopyCount[log[j]] <= CopyCount[log[k]]

LEMMA CopiesRightIs ==
    /\ Base => (CopiesFollowCount <=> (FirstServes => CopiesRight))
    /\ Base' => (CopiesFollowCount' <=> (FirstServes' => CopiesRight'))
<1>1. ASSUME Base PROVE CopiesFollowCount <=> (FirstServes => CopiesRight)
  <2>1. (redirecting = "copy" => message \in Line) /\ log \in Seq(Line)
    BY <1>1 DEF Base, TypeOK, Shape
  <2>2. \A k \in DOMAIN log : log[k] \in Line
    BY <2>1
  <2> QED
    BY <2>1, <2>2, CountIs DEF CopiesFollowCount, CopiesRight
<1>2. ASSUME Base' PROVE CopiesFollowCount' <=> (FirstServes' => CopiesRight')
  <2>1. (redirecting' = "copy" => message' \in Line) /\ log' \in Seq(Line)
    BY <1>2 DEF Base, TypeOK, Shape
  <2>2. \A k \in DOMAIN log' : log'[k] \in Line
    BY <2>1
  <2> QED
    BY <2>1, <2>2, CountIs DEF CopiesFollowCount, CopiesRight
<1> QED
  BY <1>1, <1>2

LEMMA NextCopiesFollow ==
    ASSUME Base, LinesConserved, Logged, CopiesFollowCount, [Next]_vars
    PROVE  CopiesFollowCount'
<1>1. Base'
  BY NextBase
<1>2. SUFFICES ASSUME FirstServes' PROVE CopiesRight'
  BY <1>1, CopiesRightIs
<1>3. /\ log \in Seq(Line) /\ \A k \in DOMAIN log : log[k] \in Line
      /\ DOMAIN log = 1..Len(log) /\ Len(log) \in Nat
      /\ clients_number \in Nat /\ i \in Nat
  BY DEF Base, TypeOK
<1>4. FirstServes \/ (Start /\ starts = 0)
  <2>1. CASE Start
    BY <1>2, <2>1, Names DEF Start, FirstServes, Base, TypeOK
  <2>2. CASE Create \/ StartThreads \/ Enter
    BY <1>2, <2>2 DEF Create, StartThreads, Enter, FirstServes
  <2>3. CASE Joined \/ Kill
    BY <1>2, <2>3 DEF Joined, Kill, FirstServes
  <2>4. CASE \/ Service \/ Redirect \/ UNCHANGED vars
             \/ \E c \in Clients : Reader(c) \/ Type(c) \/ Quit(c) \/ Printer(c)
    <3>1. UNCHANGED <<starts, main>>
      BY <2>4 DEF Service, ServiceTest, ServiceReceive, Count, Redirect, RedirectTest,
          RedirectReceive, Copy, Copied, Reader, Lookup, Register, Send, Type, Quit, Printer,
          PrinterTest, Show, ShowNothing, serverVars, mainVars, vars
    <3> QED
      BY <1>2, <3>1 DEF FirstServes
  <2> QED
    BY <2>1, <2>2, <2>3, <2>4 DEF Next
<1>5. CASE Start /\ starts = 0
  <2>1. log' = <<>> /\ redirecting' = "ended"
    BY <1>5 DEF Start, Base, Fresh, Threads, redirectVars
  <2> QED
    BY <2>1 DEF CopiesRight
<1>6. CASE FirstServes
  <2>1. /\ redirecting = "copy" => CopyCount[message] = i
        /\ \A k \in DOMAIN log : CopyCount[log[k]] <= clients_number
        /\ \A j, k \in DOMAIN log :
              j < k /\ (redirecting = "copy" => k < Len(log))
                  => CopyCount[log[j]] <= CopyCount[log[k]]
    BY <1>6, CopiesRightIs DEF CopiesRight
  <2>2. \A l \in Line : CopyCount[l] \in Nat
    BY NextCount
  <2>3. redirecting = "copy" => /\ log # <<>> /\ message = log[Len(log)] /\ message \in Line
                                /\ Len(log) \in DOMAIN log
    BY <1>3 DEF Logged, Base, Shape
  <2>4. CASE RedirectReceive
    <3>1. /\ log' = Append(log, message') /\ message' \in Line /\ redirecting' = "copy" /\ i' = 0
          /\ redirecting = "msgrcv" /\ message' \notin Range(log)
          /\ clients_number' = clients_number
      BY <2>4, NextLog, LoggedOnce DEF RedirectReceive, serviceVars
    <3>2. ~Copy
      BY <3>1 DEF Copy
    <3>3. \A l \in Line : CopyCount'[l] = CopyCount[l]
      BY <3>2, NextCount
    <3>4. CopyCount[message'] = 0
      <4>1. ASSUME NEW l \in Line, l \notin Range(log) PROVE CopyCount[l] = 0
        <5>1. ~(Copies(l) > 0)
          BY <4>1 DEF Logged
        <5> QED
          BY <2>2, <5>1, CountIs
      <4> QED
        BY <3>1, <4>1
    <3>5. /\ log' \in Seq(Line) /\ DOMAIN log' = 1..(Len(log) + 1) /\ Len(log') = Len(log) + 1
          /\ \A k \in DOMAIN log : log'[k] = log[k]
          /\ log'[Len(log) + 1] = message'
      BY <1>3, <3>1, LastOfAppend
    <3>6. \A k \in DOMAIN log' : CopyCount'[log'[k]] <= clients_number'
      <4>1. SUFFICES ASSUME NEW k \in DOMAIN log' PROVE CopyCount'[log'[k]] <= clients_number'
        OBVIOUS
      <4>2. CASE k \in DOMAIN log
        BY <1>3, <2>1, <3>1, <3>3, <3>5, <4>2
      <4>3. CASE k \notin DOMAIN log
        <5>1. k = Len(log) + 1
          BY <1>3, <3>5, <4>1, <4>3
        <5>2. CopyCount'[log'[k]] = 0
          BY <3>1, <3>3, <3>4, <3>5, <5>1
        <5> QED
          BY <1>3, <3>1, <5>2
      <4> QED
        BY <4>2, <4>3
    <3>7. \A j, k \in DOMAIN log' :
              j < k /\ k < Len(log') => CopyCount'[log'[j]] <= CopyCount'[log'[k]]
      <4>1. SUFFICES ASSUME NEW j \in DOMAIN log', NEW k \in DOMAIN log', j < k, k < Len(log')
                     PROVE  CopyCount'[log'[j]] <= CopyCount'[log'[k]]
        OBVIOUS
      <4>2. j \in DOMAIN log /\ k \in DOMAIN log
        BY <1>3, <3>5, <4>1
      <4>3. CopyCount[log[j]] <= CopyCount[log[k]]
        BY <2>1, <3>1, <4>1, <4>2
      <4> QED
        BY <1>3, <3>3, <3>5, <4>2, <4>3
    <3>8. CopyCount'[message'] = i'
      BY <3>1, <3>3, <3>4
    <3> QED
      BY <3>1, <3>6, <3>7, <3>8 DEF CopiesRight
  <2>5. CASE Copy
    <3>1. /\ redirecting = "copy" /\ redirecting' = "copy" /\ i < clients_number /\ i' = i + 1
          /\ clients_number' = clients_number /\ log' = log /\ message' = message
      BY <2>5 DEF Copy, serviceVars
    <3>2. /\ CopyCount'[message] = i + 1
          /\ \A l \in Line \ {message} : CopyCount'[l] = CopyCount[l]
      BY <2>1, <2>5, <3>1, NextCount
    <3>3. \A k \in DOMAIN log : CopyCount'[log[k]] <= clients_number
      <4>1. SUFFICES ASSUME NEW k \in DOMAIN log PROVE CopyCount'[log[k]] <= clients_number
        OBVIOUS
      <4>2. CASE log[k] = message
        BY <1>3, <3>1, <3>2, <4>2
      <4>3. CASE log[k] # message
        BY <1>3, <2>1, <3>2, <4>3
      <4> QED
        BY <4>2, <4>3
    <3>4. \A k \in DOMAIN log : k < Len(log) => log[k] # message
      BY <1>3, <2>3, <3>1, LoggedOnce
    <3>5. \A j, k \in DOMAIN log :
              j < k /\ k < Len(log) => CopyCount'[log[j]] <= CopyCount'[log[k]]
      <4>1. SUFFICES ASSUME NEW j \in DOMAIN log, NEW k \in DOMAIN log, j < k, k < Len(log)
                     PROVE  CopyCount'[log[j]] <= CopyCount'[log[k]]
        OBVIOUS
      <4>2. log[j] # message /\ log[k] # message
        BY <1>3, <3>4, <4>1
      <4>3. CopyCount[log[j]] <= CopyCount[log[k]]
        BY <2>1, <4>1
      <4> QED
        BY <1>3, <3>2, <4>2, <4>3
    <3> QED
      BY <3>1, <3>2, <3>3, <3>5 DEF CopiesRight
  <2>6. CASE Copied
    <3>1. /\ redirecting = "copy" /\ redirecting' = "test" /\ i >= clients_number /\ ~Copy
          /\ clients_number' = clients_number /\ log' = log
      BY <2>6 DEF Copied, Copy, serviceVars
    <3>2. \A l \in Line : CopyCount'[l] = CopyCount[l]
      BY <3>1, NextCount
    <3>3. \A j, k \in DOMAIN log : j < k => CopyCount[log[j]] <= CopyCount[log[k]]
      <4>1. SUFFICES ASSUME NEW j \in DOMAIN log, NEW k \in DOMAIN log, j < k
                     PROVE  CopyCount[log[j]] <= CopyCount[log[k]]
        OBVIOUS
      <4>2. CASE k < Len(log)
        BY <2>1, <4>1, <4>2
      <4>3. CASE ~(k < Len(log))
        <5>1. log[k] = message
          BY <1>3, <2>3, <3>1, <4>1, <4>3
        <5>2. CopyCount[log[k]] = i /\ CopyCount[log[j]] <= clients_number
              /\ CopyCount[log[j]] \in Nat
          BY <1>3, <2>1, <2>2, <3>1, <4>1, <5>1
        <5> QED
          BY <1>3, <3>1, <5>2
      <4> QED
        BY <4>2, <4>3
    <3>4. \A k \in DOMAIN log' : CopyCount'[log'[k]] <= clients_number'
      BY <1>3, <2>1, <3>1, <3>2
    <3>5. \A j, k \in DOMAIN log' : j < k => CopyCount'[log'[j]] <= CopyCount'[log'[k]]
      BY <1>3, <3>1, <3>2, <3>3
    <3> QED
      BY <3>1, <3>4, <3>5 DEF CopiesRight
  <2>7. CASE ~RedirectReceive /\ ~Copy /\ ~Copied
    <3>1. /\ log' = log /\ (redirecting' = "copy" => redirecting = "copy" /\ message' = message)
      BY <2>7, NextLog
    <3>2. \A l \in Line : CopyCount'[l] = CopyCount[l]
      BY <2>7, NextCount
    <3>3. /\ redirecting = "copy" => redirecting' = "copy" /\ i' = i
          /\ clients_number' \in {clients_number, clients_number + 1}
      <4>1. CASE Start \/ Joined \/ Kill
        BY <1>2, <1>6, <4>1, Names DEF Start, Joined, Kill, FirstServes
      <4>2. CASE StartThreads
        BY <4>2 DEF StartThreads, Base, Threads
      <4>3. CASE Create \/ Enter \/ UNCHANGED vars
        BY <4>3 DEF Create, Enter, serviceVars, redirectVars, serverVars, vars
      <4>4. CASE Service \/ RedirectTest
        BY <4>4 DEF Service, ServiceTest, ServiceReceive, Count, RedirectTest, serviceVars,
            redirectVars
      <4>5. ASSUME NEW c \in Clients, Reader(c) \/ Type(c) \/ Quit(c) \/ Printer(c)
            PROVE  UNCHANGED <<redirecting, i, clients_number>>
        BY <4>5 DEF Reader, Lookup, Register, Send, Type, Quit, Printer, PrinterTest, Show,
            ShowNothing, serverVars, serviceVars, redirectVars
      <4> QED
        BY <2>7, <4>1, <4>2, <4>3, <4>4, <4>5 DEF Next, Redirect
    <3>4. redirecting' = "copy" => CopyCount'[message'] = i'
      BY <2>1, <2>3, <3>1, <3>2, <3>3
    <3>5. \A k \in DOMAIN log' : CopyCount'[log'[k]] <= clients_number'
      <4>1. SUFFICES ASSUME NEW k \in DOMAIN log PROVE CopyCount'[log[k]] <= clients_number'
        BY <3>1
      <4>2. CopyCount'[log[k]] = CopyCount[log[k]] /\ CopyCount[log[k]] \in Nat
            /\ CopyCount[log[k]] <= clients_number
        BY <1>3, <2>1, <2>2, <3>2
      <4> QED
        BY <1>3, <3>3, <4>2
    <3>6. \A j, k \in DOMAIN log' :
              j < k /\ (redirecting' = "copy" => k < Len(log'))
                  => CopyCount'[log'[j]] <= CopyCount'[log'[k]]
      BY <1>3, <2>1, <3>1, <3>2, <3>3
    <3> QED
      BY <3>4, <3>5, <3>6 DEF CopiesRight
  <2> QED
    BY <2>4, <2>5, <2>6, <2>7
<1> QED
  BY <1>4, <1>5, <1>6

-----------------------------------------------------------------------------
(* The order on the screens *)

(* Pairs of lines of which Before holds, as a set that grows with the log.  *)
Order == {p \in Line \X Line : Before(p[1], p[2])}

LEMMA OrderIs ==
    /\ \A l, m \in Line : Before(l, m) <=> <<l, m>> \in Order
    /\ \A l, m \in Line : Before(l, m)' <=> <<l, m>> \in Order'
BY DEF Order

LEMMA NextOrder ==
    ASSUME Base, Logged, [Next]_vars
    PROVE  /\ Order \subseteq Order'
           /\ Copy => \A l \in Line : <<l, l>> \in Order => <<l, message>> \in Order
           /\ Copy => <<message, message>> \in Order
<1>1. log \in Seq(Line) /\ DOMAIN log = 1..Len(log) /\ Len(log) \in Nat
  BY NextLog
<1>2. /\ DOMAIN log \subseteq DOMAIN log' /\ \A k \in DOMAIN log : log'[k] = log[k]
  <2>1. CASE RedirectReceive
    <3>1. log' = Append(log, message') /\ message' \in Line
      BY <2>1, NextLog
    <3>2. log' \in Seq(Line) /\ Len(log') = Len(log) + 1 /\ \A k \in 1..Len(log) : log'[k] = log[k]
      BY <1>1, <3>1, LastOfAppend
    <3> QED
      BY <1>1, <3>2
  <2>2. CASE ~RedirectReceive
    BY <2>2, NextLog
  <2> QED
    BY <2>1, <2>2
<1>3. ASSUME NEW l \in Line, NEW m \in Line, <<l, m>> \in Order PROVE <<l, m>> \in Order'
  <2>1. PICK j \in DOMAIN log, k \in DOMAIN log : j <= k /\ log[j] = l /\ log[k] = m
    BY <1>3, OrderIs DEF Before
  <2>2. j \in DOMAIN log' /\ k \in DOMAIN log' /\ j <= k /\ log'[j] = l /\ log'[k] = m
    BY <1>2, <2>1
  <2>3. Before(l, m)'
    BY <2>2 DEF Before
  <2> QED
    BY <2>3, OrderIs
<1>4. ASSUME Copy
      PROVE  /\ message \in Line /\ Len(log) \in DOMAIN log /\ log[Len(log)] = message
  BY <1>1, <1>4 DEF Copy, Logged, Base, Shape
<1>5. ASSUME Copy, NEW l \in Line, <<l, l>> \in Order PROVE <<l, message>> \in Order
  <2>1. PICK j \in DOMAIN log : log[j] = l
    BY <1>5, OrderIs DEF Before
  <2>2. j <= Len(log)
    BY <1>1
  <2>3. Before(l, message)
    BY <1>4, <1>5, <2>1, <2>2 DEF Before
  <2> QED
    BY <1>4, <1>5, <2>3, OrderIs
<1>6. ASSUME Copy PROVE <<message, message>> \in Order
  <2>1. Before(message, message)
    BY <1>1, <1>4, <1>6 DEF Before
  <2> QED
    BY <1>4, <1>6, <2>1, OrderIs
<1>7. Order \subseteq Order'
  BY <1>3 DEF Order
<1> QED
  BY <1>5, <1>6, <1>7

(* InOrder in terms of a client queue C, screens P and a set O of pairs.    *)
OrderedIn(C, P, O) ==
    /\ \A a, b \in DOMAIN C : a <= b => <<C[a], C[b]>> \in O
    /\ \A c \in Clients : \A a \in DOMAIN P[c] :
          /\ \A b \in DOMAIN P[c] : a <= b => <<P[c][a], P[c][b]>> \in O
          /\ \A b \in DOMAIN C : <<P[c][a], C[b]>> \in O

LEMMA OrderedIs ==
    /\ Base => (InOrder <=> OrderedIn(queue["client"], printed, Order))
    /\ Base' => (InOrder' <=> OrderedIn(queue'["client"], printed', Order'))
<1>1. ASSUME Base PROVE InOrder <=> OrderedIn(queue["client"], printed, Order)
  <2>1. queue["client"] \in Seq(Line) /\ printed \in [Clients -> Seq(Line)]
    BY <1>1 DEF Base, TypeOK
  <2>2. /\ \A a \in DOMAIN queue["client"] : queue["client"][a] \in Line
        /\ \A c \in Clients : \A a \in DOMAIN printed[c] : printed[c][a] \in Line
    BY <2>1
  <2> QED
    BY <2>2, OrderIs DEF InOrder, OrderedIn
<1>2. ASSUME Base' PROVE InOrder' <=> OrderedIn(queue'["client"], printed', Order')
  <2>1. queue'["client"] \in Seq(Line) /\ printed' \in [Clients -> Seq(Line)]
    BY <1>2 DEF Base, TypeOK
  <2>2. /\ \A a \in DOMAIN queue'["client"] : queue'["client"][a] \in Line
        /\ \A c \in Clients : \A a \in DOMAIN printed'[c] : printed'[c][a] \in Line
    BY <2>1
  <2> QED
    BY <2>2, OrderIs DEF InOrder, OrderedIn
<1> QED
  BY <1>1, <1>2

(* More pairs are ordered; a last message joins the queue.                  *)
LEMMA OrderedMore ==
    ASSUME NEW C, NEW P, NEW O, NEW Q, O \subseteq Q, OrderedIn(C, P, O)
    PROVE  OrderedIn(C, P, Q)
BY DEF OrderedIn

LEMMA OrderedAppend ==
    ASSUME NEW C \in Seq(Line), NEW P \in [Clients -> Seq(Line)], NEW O, NEW m \in Line,
           OrderedIn(C, P, O), <<m, m>> \in O,
           \A l \in Line : <<l, l>> \in O => <<l, m>> \in O
    PROVE  OrderedIn(Append(C, m), P, O)
<1> DEFINE D == Append(C, m)
<1>1. /\ DOMAIN C = 1..Len(C) /\ Len(C) \in Nat /\ DOMAIN D = 1..(Len(C) + 1)
      /\ D[Len(C) + 1] = m /\ \A k \in DOMAIN C : D[k] = C[k] /\ C[k] \in Line
  OBVIOUS
<1> HIDE DEF D
<1>2. ASSUME NEW a \in DOMAIN D, NEW b \in DOMAIN D, a <= b PROVE <<D[a], D[b]>> \in O
  <2>1. CASE b \in DOMAIN C
    BY <1>1, <1>2, <2>1 DEF OrderedIn
  <2>2. CASE b \notin DOMAIN C /\ a \in DOMAIN C
    <3>1. D[b] = m /\ D[a] = C[a] /\ C[a] \in Line
      BY <1>1, <2>2
    <3>2. a <= a
      BY <1>1, <2>2
    <3>3. <<C[a], C[a]>> \in O
      BY <2>2, <3>2 DEF OrderedIn
    <3> QED
      BY <3>1, <3>3
  <2>3. CASE b \notin DOMAIN C /\ a \notin DOMAIN C
    <3>1. D[b] = m /\ D[a] = m
      BY <1>1, <2>3
    <3> QED
      BY <3>1
  <2> QED
    BY <2>1, <2>2, <2>3
<1>3. ASSUME NEW c \in Clients, NEW a \in DOMAIN P[c], NEW b \in DOMAIN D
      PROVE  <<P[c][a], D[b]>> \in O
  <2>1. DOMAIN P[c] = 1..Len(P[c]) /\ P[c][a] \in Line
    OBVIOUS
  <2>2. CASE b \in DOMAIN C
    BY <1>1, <2>2 DEF OrderedIn
  <2>3. CASE b \notin DOMAIN C
    <3>1. D[b] = m
      BY <1>1, <2>3
    <3>2. a <= a
      BY <2>1
    <3>3. <<P[c][a], P[c][a]>> \in O
      BY <3>2 DEF OrderedIn
    <3> QED
      BY <2>1, <3>1, <3>3
  <2> QED
    BY <2>2, <2>3
<1>4. OrderedIn(D, P, O)
  BY <1>2, <1>3 DEF OrderedIn
<1> QED
  BY <1>4 DEF D

LEMMA OrderedShow ==
    ASSUME NEW c \in Clients, NEW C, NEW P, NEW Q, Moved(c, C, P, Q), NEW O, OrderedIn(C, P, O)
    PROVE  OrderedIn(Tail(C), Q, O)
<1> DEFINE T == Tail(C)
           h == Head(C)
           s == P[c]
           t == Q[c]
<1>1. /\ C \in Seq(Line) /\ C # <<>> /\ s \in Seq(Line) /\ t = Append(s, h)
      /\ \A d \in Clients \ {c} : Q[d] = P[d]
  BY DEF Moved
<1>2. /\ DOMAIN C = 1..Len(C) /\ Len(C) \in Nat /\ Len(C) > 0 /\ h = C[1] /\ 1 \in DOMAIN C
      /\ DOMAIN T = 1..(Len(C) - 1) /\ \A k \in DOMAIN T : k + 1 \in DOMAIN C /\ T[k] = C[k + 1]
  BY <1>1
<1>3. /\ DOMAIN s = 1..Len(s) /\ Len(s) \in Nat /\ DOMAIN t = 1..(Len(s) + 1)
      /\ t[Len(s) + 1] = h /\ \A k \in DOMAIN s : t[k] = s[k]
  <2>1. h \in Line
    BY <1>1, QueueTypes
  <2> HIDE DEF h, s, t
  <2> QED
    BY <1>1, <2>1, LastOfAppend
<1>4. /\ \A a, b \in DOMAIN C : a <= b => <<C[a], C[b]>> \in O
      /\ \A a \in DOMAIN s : /\ \A b \in DOMAIN s : a <= b => <<s[a], s[b]>> \in O
                             /\ \A b \in DOMAIN C : <<s[a], C[b]>> \in O
  BY DEF OrderedIn
<1> HIDE DEF T, h, s, t
<1>5. ASSUME NEW a \in DOMAIN T, NEW b \in DOMAIN T, a <= b PROVE <<T[a], T[b]>> \in O
  BY <1>2, <1>4, <1>5
<1>6. ASSUME NEW a \in DOMAIN t, NEW b \in DOMAIN t, a <= b PROVE <<t[a], t[b]>> \in O
  <2>1. CASE b \in DOMAIN s
    BY <1>3, <1>4, <1>6, <2>1
  <2>2. CASE b \notin DOMAIN s /\ a \in DOMAIN s
    <3>1. t[b] = C[1] /\ t[a] = s[a]
      BY <1>2, <1>3, <2>2
    <3> QED
      BY <1>2, <1>4, <2>2, <3>1
  <2>3. CASE b \notin DOMAIN s /\ a \notin DOMAIN s
    <3>1. t[b] = C[1] /\ t[a] = C[1]
      BY <1>2, <1>3, <2>3
    <3> QED
      BY <1>2, <1>4, <3>1
  <2> QED
    BY <2>1, <2>2, <2>3
<1>7. ASSUME NEW a \in DOMAIN t, NEW b \in DOMAIN T PROVE <<t[a], T[b]>> \in O
  <2>1. b + 1 \in DOMAIN C /\ T[b] = C[b + 1] /\ 1 <= b + 1
    BY <1>2
  <2>2. CASE a \in DOMAIN s
    BY <1>3, <1>4, <2>1, <2>2
  <2>3. CASE a \notin DOMAIN s
    <3>1. t[a] = C[1]
      BY <1>2, <1>3, <2>3
    <3> QED
      BY <1>2, <1>4, <2>1, <3>1
  <2> QED
    BY <2>2, <2>3
<1>8. ASSUME NEW d \in Clients, NEW a \in DOMAIN Q[d]
      PROVE  /\ \A b \in DOMAIN Q[d] : a <= b => <<Q[d][a], Q[d][b]>> \in O
             /\ \A b \in DOMAIN T : <<Q[d][a], T[b]>> \in O
  <2>1. CASE d = c
    BY <1>6, <1>7, <1>8, <2>1 DEF t
  <2>2. CASE d # c
    <3>1. Q[d] = P[d]
      BY <1>1, <2>2
    <3>2. /\ \A b \in DOMAIN P[d] : a <= b => <<P[d][a], P[d][b]>> \in O
          /\ \A b \in DOMAIN C : <<P[d][a], C[b]>> \in O
      BY <1>8, <3>1 DEF OrderedIn
    <3> QED
      BY <1>2, <3>1, <3>2
  <2> QED
    BY <2>1, <2>2
<1>9. OrderedIn(T, Q, O)
  BY <1>5, <1>8 DEF OrderedIn
<1> QED
  BY <1>9 DEF T

LEMMA NextInOrder ==
    ASSUME Base, Logged, InOrder, [Next]_vars PROVE InOrder'
<1> DEFINE C == queue["client"]
<1>1. Base' /\ C \in Seq(Line) /\ printed \in [Clients -> Seq(Line)]
  BY NextBase DEF Base, TypeOK
<1>2. OrderedIn(C, printed, Order) /\ Order \subseteq Order'
  BY OrderedIs, NextOrder
<1>3. SUFFICES OrderedIn(queue'["client"], printed', Order)
  BY <1>1, <1>2, OrderedIs, OrderedMore
<1>4. CASE Copy
  <2>1. queue'["client"] = Append(C, message) /\ printed' = printed /\ message \in Line
    BY <1>4, CopySends
  <2>2. <<message, message>> \in Order /\ \A l \in Line : <<l, l>> \in Order => <<l, message>> \in Order
    BY <1>4, NextOrder
  <2> HIDE DEF C
  <2>3. OrderedIn(Append(C, message), printed, Order)
    BY <1>1, <1>2, <2>1, <2>2, OrderedAppend
  <2> QED
    BY <2>1, <2>3
<1>5. ASSUME NEW c \in Clients, Show(c) PROVE OrderedIn(queue'["client"], printed', Order)
  <2>1. Moved(c, C, printed, printed') /\ queue'["client"] = Tail(C)
    BY <1>5, ShowMoves
  <2> HIDE DEF C
  <2>2. OrderedIn(Tail(C), printed', Order)
    BY <1>2, <1>5, <2>1, OrderedShow
  <2> QED
    BY <2>1, <2>2
<1>6. CASE ~Copy /\ \A c \in Clients : ~Show(c)
  BY <1>2, <1>6, ScreensSame
<1> QED
  BY <1>4, <1>5, <1>6

-----------------------------------------------------------------------------
(* The theorems *)

LEMMA InitIInv == Init => IInv
<1> SUFFICES ASSUME Init PROVE IInv
  OBVIOUS
<1> USE Names
<1>1. Base
  BY InitBase
<1>2. /\ queue["service"] = <<>> /\ queue["client"] = <<>> /\ queue["middle"] = <<>>
      /\ log = <<>> /\ redirecting = "ended" /\ clients_number = 0 /\ main = "down"
      /\ service_thread = "ended"
      /\ \A c \in Clients : reader[c] = "off" /\ found[c] = <<>> /\ printed[c] = <<>>
  BY DEF Init
<1>3. RegistrationsConserved
  <2>1. Registered = {}
    BY <1>2 DEF Registered
  <2>2. Cardinality(Registered) = 0
    BY <2>1, FS_EmptySet
  <2> QED
    BY <1>2, <2>2 DEF RegistrationsConserved, FirstServes
<1>4. LinesConserved
  <2>1. log \o queue["middle"] = <<>>
    BY <1>2
  <2>2. \A c \in Clients : Sent(c) = 0
    BY <1>2 DEF Sent, Found
  <2> QED
    BY <2>1, <2>2 DEF LinesConserved
<1>5. Logged
  <2>1. ASSUME NEW l \in Line PROVE Copies(l) = 0
    <3> DEFINE f == [c \in Clients |-> Cardinality(Places(printed[c], l))]
    <3>1. Places(queue["client"], l) = {} /\ \A c \in Clients : Places(printed[c], l) = {}
      BY <1>2 DEF Places
    <3>2. Cardinality(Places(queue["client"], l)) = 0 /\ \A c \in Clients : f[c] = 0
      BY <3>1, FS_EmptySet
    <3>3. SumFunctionOnSet(f, Clients) = 0
      BY <3>2, SumZero
    <3>4. CopiesIn(l, queue["client"], printed) = 0 + 0
      BY <3>2, <3>3 DEF CopiesIn
    <3>5. CopiesIn(l, queue["client"], printed) = 0
      BY <3>4
    <3> QED
      BY <3>5, CopiesAre
  <2> QED
    BY <1>2, <2>1 DEF Logged
<1>6. CopiesFollowCount
  BY <1>2 DEF CopiesFollowCount
<1>7. InOrder
  BY <1>2 DEF InOrder
<1>8. CopiesBounded
  <2>1. Cardinality(Clients) \in Nat /\ Range(log) = {}
    BY <1>2, FS_CardinalityType DEF Range
  <2>2. ASSUME NEW l \in Line PROVE CopyCount[l] <= Cardinality(Clients)
    <3>1. queue["client"] \in Seq(Line) /\ printed \in [Clients -> Seq(Line)]
      BY <1>1 DEF Base, TypeOK
    <3>2. CopiesIn(l, queue["client"], printed) \in Nat
      BY <3>1, CopiesNat
    <3>3. CopyCount[l] \in Nat /\ CopyCount[l] = Copies(l)
      BY <3>2, CountIs, CopiesAre
    <3>4. ~(Copies(l) > 0)
      BY <1>5, <2>1 DEF Logged
    <3> QED
      BY <2>1, <3>3, <3>4
  <2> QED
    BY <1>2, <2>2 DEF CopiesBounded
<1> QED
  BY <1>1, <1>3, <1>4, <1>5, <1>6, <1>7, <1>8 DEF IInv

LEMMA NextIInv == IInv /\ [Next]_vars => IInv'
BY NextBase, NextRegistrations, NextLines, NextLogged, NextCopiesFollow, NextBounded, NextInOrder
   DEF IInv

LEMMA Inductive == Spec => []IInv
BY InitIInv, NextIInv, PTL DEF Spec

(* Every registration and every line that was sent is where it should be,   *)
(* once: in its queue, or with the server that took it (server.c and        *)
(* client.c, over full queues, kills and restarts).                         *)
THEOREM Conserved == Spec => []NothingLost
<1>1. IInv => NothingLost
  BY DEF IInv, Base, NothingLost
<1> QED
  BY <1>1, Inductive, PTL

(* A line gets one copy per turn of the copying loop, never more than there *)
(* are registered clients, and no fewer than an earlier line.               *)
THEOREM CountFollowed == Spec => []CopiesFollowCount
<1>1. IInv => CopiesFollowCount
  BY DEF IInv
<1> QED
  BY <1>1, Inductive, PTL

(* No screen shows lines in another order than the server logged them.      *)
PrintedInOrder ==
    \A c \in Clients : \A a, b \in DOMAIN printed[c] : a < b => Before(printed[c][a], printed[c][b])

THEOREM Ordered == Spec => []PrintedInOrder
<1>1. ASSUME IInv PROVE PrintedInOrder
  <2>1. SUFFICES ASSUME NEW c \in Clients, NEW a \in DOMAIN printed[c],
                        NEW b \in DOMAIN printed[c], a < b
                 PROVE  Before(printed[c][a], printed[c][b])
    BY DEF PrintedInOrder
  <2>2. a <= b
    <3>1. DOMAIN printed[c] = 1..Len(printed[c])
      BY <1>1 DEF IInv, Base, TypeOK
    <3> QED
      BY <2>1, <3>1
  <2> QED
    BY <1>1, <2>2 DEF IInv, InOrder
<1> QED
  BY <1>1, Inductive, PTL

-----------------------------------------------------------------------------
(* MqChat implements ChatRoom *)

(* The line at the head of the middle queue is the next one of its author.  *)
LEMMA HeadIsNext ==
    ASSUME Base, LinesConserved, queue["middle"] # <<>>
    PROVE  LET l == Head(queue["middle"])
           IN  /\ l \in Line /\ l[2] <= typed[l[1]] /\ l \notin Range(log)
               /\ \A m \in 1..l[2] - 1 : <<l[1], m>> \in Range(log)
<1> DEFINE M == queue["middle"]
           l == Head(M)
           now == log \o M
           h == Len(log) + 1
<1>1. log \in Seq(Line) /\ M \in Seq(Line) /\ M # <<>>
  BY DEF Base, TypeOK
<1>2. l \in Line /\ l = <<l[1], l[2]>> /\ l[1] \in Clients /\ l[2] \in Nat
  BY <1>1, QueueTypes, Names DEF Line
<1>3. l \notin Range(log)
  BY <1>1, LoggedOnce
<1>4. /\ \A c \in Clients : \A n \in 1..Sent(c) : <<c, n>> \in Range(now)
      /\ \A k \in DOMAIN now : now[k][2] \in 1..Sent(now[k][1])
      /\ \A j, k \in DOMAIN now : j < k /\ now[j][1] = now[k][1] => now[j][2] < now[k][2]
  BY DEF LinesConserved
<1>5. Sent(l[1]) \in Int /\ Sent(l[1]) <= typed[l[1]]
  <2>1. typed[l[1]] \in Nat
    BY <1>2, Names DEF Base, TypeOK
  <2> HIDE DEF l
  <2> QED
    BY <2>1 DEF Sent
<1> HIDE DEF M
<1>6. /\ Len(log) \in Nat /\ DOMAIN log = 1..Len(log) /\ Len(M) \in Nat /\ Len(M) > 0
      /\ DOMAIN now = 1..(Len(log) + Len(M)) /\ now[h] = l /\ \A k \in DOMAIN log : now[k] = log[k]
  BY <1>1
<1> HIDE DEF now, l
<1>7. h \in DOMAIN now /\ l[2] \in 1..Sent(l[1])
  BY <1>4, <1>6
<1>8. ASSUME NEW m \in 1..l[2] - 1 PROVE <<l[1], m>> \in Range(log)
  <2>1. m \in 1..Sent(l[1])
    BY <1>2, <1>5, <1>7
  <2>2. PICK p \in DOMAIN now : now[p] = <<l[1], m>>
    BY <1>2, <1>4, <2>1 DEF Range
  <2>3. ~(h < p) /\ h # p
    BY <1>2, <1>4, <1>6, <1>7, <2>2
  <2>4. p \in DOMAIN log
    BY <1>6, <2>3
  <2> QED
    BY <1>6, <2>2, <2>4 DEF Range
<1>9. l[2] <= typed[l[1]]
  <2>1. typed[l[1]] \in Nat
    BY <1>2, Names DEF Base, TypeOK
  <2> QED
    BY <1>2, <1>5, <1>7, <2>1
<1> QED
  BY <1>2, <1>3, <1>8, <1>9 DEF l, M

(* What a printer shows is not older than anything any screen shows.        *)
LEMMA ShownInTurn ==
    ASSUME Base, LinesConserved, Logged, InOrder, NEW c \in Clients, Show(c)
    PROVE  \E k \in DOMAIN log :
               /\ log[k] = Head(queue["client"])
               /\ \A d \in Clients : \A p \in DOMAIN printed[d] : \E j \in 1..k : printed[d][p] = log[j]
<1> DEFINE C == queue["client"]
<1>1. C \in Seq(Line) /\ C # <<>>
  BY ShowMoves DEF Moved
<1> HIDE DEF C
<1>2. Head(C) = C[1] /\ 1 \in DOMAIN C /\ DOMAIN log = 1..Len(log) /\ Len(log) \in Nat
  BY <1>1 DEF Base, TypeOK
<1>3. /\ Before(C[1], C[1])
      /\ \A d \in Clients : \A p \in DOMAIN printed[d] : Before(printed[d][p], C[1])
  <2>1. /\ \A a, b \in DOMAIN C : a <= b => Before(C[a], C[b])
        /\ \A d \in Clients : \A p \in DOMAIN printed[d] :
              \A b \in DOMAIN C : Before(printed[d][p], C[b])
    BY DEF InOrder, C
  <2> QED
    BY <1>2, <2>1
<1>4. PICK k \in DOMAIN log : log[k] = C[1]
  BY <1>3 DEF Before
<1>5. ASSUME NEW d \in Clients, NEW p \in DOMAIN printed[d]
      PROVE  \E j \in 1..k : printed[d][p] = log[j]
  <2>1. PICK j \in DOMAIN log, n \in DOMAIN log : j <= n /\ log[j] = printed[d][p] /\ log[n] = C[1]
    BY <1>3 DEF Before
  <2>2. n = k
    BY <1>4, <2>1, LoggedOnce
  <2> QED
    BY <1>2, <2>1, <2>2
<1> QED
  BY <1>2, <1>4, <1>5 DEF C

(* What ChatRoom counts with is what MqChat counts with.                    *)
LEMMA RoomCardinality == ASSUME NEW S PROVE Room!Cardinality(S) = Cardinality(S)
BY DEF Room!Cardinality, Cardinality

LEMMA RoomSum == ASSUME NEW f, NEW S PROVE Room!SumFunctionOnSet(f, S) = SumFunctionOnSet(f, S)
BY DEF Room!SumFunctionOnSet, Room!FoldFunctionOnSet, Room!MapThenFoldSet,
       SumFunctionOnSet, FoldFunctionOnSet, MapThenFoldSet

(* The copy that is shown was one of those the queue held.                  *)
LEMMA ShownBelow ==
    ASSUME Base, CopiesBounded, NEW c \in Clients, Show(c)
    PROVE  Room!TimesShown(Head(queue["client"])) < Room!Cardinality(Clients)
<1> DEFINE C == queue["client"]
           l == Head(C)
           n == SumFunctionOnSet([d \in Clients |-> Cardinality(Places(printed[d], l))], Clients)
<1>1. C \in Seq(Line) /\ C # <<>> /\ printed \in [Clients -> Seq(Line)]
  BY ShowMoves DEF Moved
<1>2. l \in Line /\ Tail(C) \in Seq(Line)
  BY <1>1, QueueTypes
<1>3. Copies(l) <= Cardinality(Clients)
  BY <1>2, CountIs DEF CopiesBounded
<1>4. Copies(l) = Cardinality(Places(C, l)) + n
  BY CopiesAre DEF CopiesIn
<1>5. Cardinality(Places(C, l)) = Cardinality(Places(Tail(C), l)) + 1
  BY <1>1, <1>2, PlacesTail
<1>6. n \in Nat /\ Cardinality(Places(Tail(C), l)) \in Nat /\ Cardinality(Clients) \in Nat
  BY <1>1, <1>2, CopiesNat, Names, FS_CardinalityType
<1>7. Room!TimesShown(l) = n
  <2> DEFINE f == [d \in Clients |-> Cardinality(Places(printed[d], l))]
             g == [d \in Clients |-> Room!Cardinality({k \in DOMAIN printed[d] : printed[d][k] = l})]
  <2>1. \A d \in Clients : Room!Cardinality({k \in DOMAIN printed[d] : printed[d][k] = l})
                              = Cardinality(Places(printed[d], l))
    BY RoomCardinality DEF Places
  <2>2. f = g
    BY <2>1
  <2>3. Room!TimesShown(l) = Room!SumFunctionOnSet(g, Clients)
    BY DEF Room!TimesShown, Room!SumFunction
  <2> HIDE DEF f, g
  <2>4. Room!TimesShown(l) = SumFunctionOnSet(f, Clients)
    BY <2>2, <2>3, RoomSum
  <2> QED
    BY <2>4 DEF f, n
<1> HIDE DEF C, l, n
<1>8. n < Cardinality(Clients)
  BY <1>3, <1>4, <1>5, <1>6
<1> QED
  BY <1>7, <1>8, RoomCardinality DEF C, l

LEMMA RoomStep ==
    ASSUME IInv, [Next]_vars PROVE [Room!RNext]_<<typed, log, printed>>
<1>0. Base /\ LinesConserved /\ Logged /\ CopiesBounded /\ InOrder
  BY DEF IInv
<1>1. CASE RedirectReceive
  <2> DEFINE l == Head(queue["middle"])
  <2>1. log' = Append(log, l) /\ queue["middle"] # <<>> /\ UNCHANGED <<typed, printed>>
    BY <1>0, <1>1, ReceiveLines DEF RedirectReceive, clientVars
  <2>2. /\ l \in Line /\ l[2] <= typed[l[1]] /\ l \notin Range(log)
        /\ \A m \in 1..l[2] - 1 : <<l[1], m>> \in Range(log)
    BY <1>0, <2>1, HeadIsNext
  <2>3. l = <<l[1], l[2]>> /\ l[1] \in Clients /\ l[2] \in 1..MaxLines /\ typed[l[1]] \in Nat
    <3>1. typed \in [Clients -> 0..MaxLines]
      BY <1>0 DEF Base, TypeOK
    <3> HIDE DEF l
    <3> QED
      BY <2>2, <3>1, Names DEF Line
  <2> HIDE DEF l
  <2>4. l[2] \in 1..typed[l[1]]
    BY <2>2, <2>3, Names
  <2>5. Room!Write(l[1], l[2])
    BY <2>1, <2>2, <2>3 DEF Room!Write, Room!Range, Range
  <2> QED
    BY <2>3, <2>4, <2>5 DEF Room!RNext
<1>2. ASSUME NEW c \in Clients, Type(c) PROVE Room!Say(c)
  BY <1>2 DEF Type, Room!Say, serverVars, redirectVars
<1>3. ASSUME NEW c \in Clients, Show(c) PROVE Room!Show(c)
  <2>1. PICK k \in DOMAIN log :
               /\ log[k] = Head(queue["client"])
               /\ \A d \in Clients : \A p \in DOMAIN printed[d] : \E j \in 1..k : printed[d][p] = log[j]
    BY <1>0, <1>3, ShownInTurn
  <2>2. Room!TimesShown(log[k]) < Room!Cardinality(Clients)
    BY <1>0, <1>3, <2>1, ShownBelow
  <2>3. printed' = [printed EXCEPT ![c] = Append(@, log[k])] /\ UNCHANGED <<typed, log>>
    BY <1>3, <2>1 DEF Show, serverVars, redirectVars
  <2> QED
    BY <2>1, <2>2, <2>3 DEF Room!Show
<1>4. CASE ~RedirectReceive /\ \A c \in Clients : ~Type(c) /\ ~Show(c)
  <2>1. log' = log
    BY <1>0, <1>4, NextLog
  <2>2. typed' = typed
    BY <1>4 DEF Next, Start, Create, StartThreads, Enter, Joined, Kill, Service, ServiceTest,
       ServiceReceive, Count, Redirect, RedirectTest, Copy, Copied, Reader, Lookup, Register, Send,
       Quit, Printer, PrinterTest, ShowNothing, clientVars, vars
  <2>3. printed' = printed
    BY <1>4 DEF Next, Start, Create, StartThreads, Enter, Joined, Kill, Service, ServiceTest,
       ServiceReceive, Count, Redirect, RedirectTest, Copy, Copied, Reader, Lookup, Register, Send,
       Quit, Printer, PrinterTest, ShowNothing, clientVars, vars
  <2> QED
    BY <2>1, <2>2, <2>3
<1> QED
  BY <1>1, <1>2, <1>3, <1>4 DEF Room!RNext

(* The chat over queues, threads and restarts implements the room without   *)
(* them: redirecting_thread writes a line when it receives it, a printer    *)
(* shows one, and whatever else happens changes neither.                    *)
THEOREM Refinement == Spec => ImplementsChatRoom
<1>1. Init => Room!RInit
  BY DEF Init, Room!RInit
<1>2. IInv /\ [Next]_vars => [Room!RNext]_<<typed, log, printed>>
  BY RoomStep
<1> QED
  BY <1>1, <1>2, Inductive, PTL DEF Spec, ImplementsChatRoom, Room!RSpec
=============================================================================
