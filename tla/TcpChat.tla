-------------------------------- MODULE TcpChat --------------------------------
(***************************************************************************)
(* les20 over TCP: a server that forks a child for each connection, and    *)
(* its clients.  The stream to a client is counted in units: the greeting  *)
(* of 18 bytes is one, an answer of 256 is two (238 and 18), and recv      *)
(* takes up to 256 bytes, so up to two of them.  Lines that a client sends *)
(* are units of their own.                                                 *)
(***************************************************************************)
EXTENDS Naturals, Sequences

CONSTANTS Callers,
          MaxFds,      \* connections the parent can hold
          MaxProcs,    \* children it may fork
          MaxLines     \* bound: lines a client types

NoCaller == "no caller"

VARIABLES parent, conn,      \* the parent's control point and subSock
          accepted, forked,  \* descriptors and children it has used up
          waiting,           \* connections not accepted yet
          child,             \* of each connection
          caller,            \* control point of each client
          up, down,          \* lines and units under way
          broken,            \* 1: the client reset it, 2: and the child has the error
          lines, units       \* lines typed, units read

vars == <<parent, conn, accepted, forked, waiting, child, caller, up, down, broken, lines, units>>

Init == /\ parent = "start" /\ conn = NoCaller /\ accepted = 0 /\ forked = 0
        /\ waiting = <<>>
        /\ child = [c \in Callers |-> "none"] /\ caller = [c \in Callers |-> "new"]
        /\ up = [c \in Callers |-> 0] /\ down = [c \in Callers |-> 0]
        /\ broken = [c \in Callers |-> 0]
        /\ lines = [c \in Callers |-> 0] /\ units = [c \in Callers |-> 0]

Least(a, b) == IF a < b THEN a ELSE b

-----------------------------------------------------------------------------
(* Clients *)

UNCHANGED_Server == UNCHANGED <<parent, conn, accepted, forked, child>>

Connect(c) == /\ caller[c] = "new"
              /\ IF parent = "start"
                 THEN caller' = [caller EXCEPT ![c] = "gone"] /\ UNCHANGED waiting
                 ELSE /\ caller' = [caller EXCEPT ![c] = "scanf"]
                      /\ waiting' = Append(waiting, c)
              /\ UNCHANGED <<up, down, broken, lines, units>> /\ UNCHANGED_Server

Line(c) == /\ caller[c] = "scanf" /\ lines[c] < MaxLines
           /\ caller' = [caller EXCEPT ![c] = "recv"]
           /\ lines' = [lines EXCEPT ![c] = @ + 1]
           /\ up' = [up EXCEPT ![c] = @ + 1]
           /\ UNCHANGED <<waiting, down, broken, units>> /\ UNCHANGED_Server

Take(c, n) == /\ caller[c] = "recv" /\ down[c] > 0
              /\ caller' = [caller EXCEPT ![c] = "scanf"]
              /\ units' = [units EXCEPT ![c] = @ + n]
              /\ down' = [down EXCEPT ![c] = @ - n]
              /\ UNCHANGED <<waiting, up, broken, lines>> /\ UNCHANGED_Server

(* Mutant: it takes all there is.                                           *)
RecvAll(c) == Take(c, down[c])

RecvLine(c) == Take(c, Least(2, down[c]))

(* It types quit, or is killed.                                             *)
Quit(c) == /\ caller[c] \in {"scanf", "recv"}
           /\ caller' = [caller EXCEPT ![c] = "gone"]
           /\ broken' = [broken EXCEPT ![c] = IF down[c] > 0 THEN 1 ELSE 0]
           /\ UNCHANGED <<waiting, up, down, lines, units>> /\ UNCHANGED_Server

-----------------------------------------------------------------------------
(* The server *)

UNCHANGED_Callers == UNCHANGED <<caller, lines, units>>

Listen == /\ parent = "start"
          /\ parent' = "scanf"
          /\ UNCHANGED <<conn, accepted, forked, waiting, child, up, down, broken>>
          /\ UNCHANGED_Callers

(* After that the parent waits for a number on its terminal.                *)
Scanf == /\ parent = "scanf"
         /\ parent' = "accept"
         /\ UNCHANGED <<conn, accepted, forked, waiting, child, up, down, broken>>
         /\ UNCHANGED_Callers

(* Without a free descriptor accept fails at once; nobody looks at it.      *)
Accept == /\ parent = "accept"
          /\ \/ /\ accepted < MaxFds /\ waiting # <<>>
                /\ conn' = Head(waiting) /\ waiting' = Tail(waiting)
                /\ accepted' = accepted + 1
             \/ /\ accepted = MaxFds
                /\ conn' = NoCaller /\ UNCHANGED <<waiting, accepted>>
          /\ parent' = "fork"
          /\ UNCHANGED <<forked, child, up, down, broken>> /\ UNCHANGED_Callers

(* A child is forked with or without a connection: one without loops on     *)
(* failing calls for ever.  The parent closes no descriptor, waits for no   *)
(* child, and does not notice a fork that fails.                            *)
ForkThen(next) ==
    /\ parent = "fork"
    /\ IF forked < MaxProcs
       THEN /\ forked' = forked + 1
            /\ child' = [c \in Callers |-> IF c = conn THEN "greet" ELSE child[c]]
       ELSE UNCHANGED <<forked, child>>
    /\ parent' = next
    /\ UNCHANGED <<conn, accepted, waiting, up, down, broken>> /\ UNCHANGED_Callers

Fork == ForkThen("accept")

(* send: towards a client that is gone it brings back a reset; after a      *)
(* reset it fails, and once that was reported the child dies of SIGPIPE.    *)
Put(c, n) ==
    /\ IF broken[c] = 2 THEN child' = [child EXCEPT ![c] = "dead"]
                        ELSE child' = [child EXCEPT ![c] = "recv"]
    /\ IF caller[c] = "gone"
       THEN broken' = [broken EXCEPT ![c] = Least(@ + 1, 2)] /\ UNCHANGED down
       ELSE down' = [down EXCEPT ![c] = @ + n] /\ UNCHANGED broken
    /\ UNCHANGED <<parent, conn, accepted, forked, waiting, up>> /\ UNCHANGED_Callers

Greet(c) == child[c] = "greet" /\ Put(c, 1)

(* Mutant: recv does not return when the client is gone.                    *)
RecvOnlyLines(c) ==
    /\ child[c] = "recv" /\ up[c] > 0
    /\ up' = [up EXCEPT ![c] = @ - 1]
    /\ child' = [child EXCEPT ![c] = "send"]
    /\ UNCHANGED <<parent, conn, accepted, forked, waiting, down, broken>>
    /\ UNCHANGED_Callers

Recv(c) == /\ child[c] = "recv" /\ (up[c] > 0 \/ caller[c] = "gone")
           /\ up' = [up EXCEPT ![c] = IF @ > 0 /\ broken[c] = 0 THEN @ - 1 ELSE 0]
           /\ broken' = [broken EXCEPT ![c] = IF @ > 0 THEN 2 ELSE 0]
           /\ child' = [child EXCEPT ![c] = "send"]
           /\ UNCHANGED <<parent, conn, accepted, forked, waiting, down>>
           /\ UNCHANGED_Callers

Reply(c) == child[c] = "send" /\ Put(c, 2)

Child(c) == Greet(c) \/ Recv(c) \/ Reply(c)

Next == \/ \E c \in Callers : Connect(c) \/ Line(c) \/ RecvLine(c) \/ Quit(c) \/ Child(c)
        \/ Listen \/ Scanf \/ Accept \/ Fork

Fairness == /\ WF_vars(Accept \/ Fork)
            /\ \A c \in Callers : WF_vars(Child(c)) /\ WF_vars(RecvLine(c))

Spec == Init /\ [][Next]_vars /\ Fairness

-----------------------------------------------------------------------------
(* Properties *)

TypeOK == /\ parent \in {"start", "scanf", "accept", "fork"}
          /\ conn \in Callers \cup {NoCaller}
          /\ accepted \in 0..MaxFds /\ forked \in 0..MaxProcs
          /\ \A c \in Callers : /\ child[c] \in {"none", "greet", "recv", "send", "dead"}
                                /\ caller[c] \in {"new", "scanf", "recv", "gone"}
                                /\ up[c] \in 0..MaxLines /\ down[c] \in Nat
                                /\ broken[c] \in 0..2 /\ units[c] \in 0..(2 * MaxLines)

(* The greeting is taken for the first answer: after k lines a client has   *)
(* never read the whole of the kth answer, however the two sides run.       *)
OneGreetingBehind ==
    \A c \in Callers : caller[c] = "scanf" /\ lines[c] > 0 =>
        units[c] \in {2 * lines[c] - 1, 2 * lines[c]}

(* Whoever sends a line after the server has begun to accept gets something *)
(* back, or has no child, as the descriptors or the children are used up.   *)
RecvReturns ==
    \A c \in Callers : caller[c] = "recv" /\ parent \in {"accept", "fork"} ~>
        \/ caller[c] # "recv"
        \/ child[c] = "none" /\ (accepted = MaxFds \/ forked = MaxProcs)

(* Though no child looks at what recv returns, a child whose client is gone *)
(* ends.                                                                    *)
ChildEnds == \A c \in Callers : caller[c] = "gone" /\ child[c] # "none" ~> child[c] = "dead"

(* Neither a client that waits nor a child that lost its client is stuck.   *)
ChatGoesOn == RecvReturns /\ ChildEnds
=============================================================================
