------------------------------ MODULE MultiServer ------------------------------
(***************************************************************************)
(* les22: a server on a TCP and a UDP socket, in a loop over epoll, poll   *)
(* or select.  A turn asks the kernel which sockets are readable and       *)
(* serves them with one buffer and one address; the server ends after      *)
(* MaxTurns turns.  The clients, such as those of les20, are the           *)
(* environment; connections they reset are left out.  The server prints to *)
(* a terminal, so that printf leaves errno alone.                          *)
(***************************************************************************)
EXTENDS Naturals, Sequences

CONSTANTS TcpClients, UdpClients,
          MaxTurns,            \* 10 in the code
          MaxAsks, MaxKeys     \* bounds: datagrams, and keys on the terminal

Clients == TcpClients \cup UdpClients
Nobody == "nobody"

VARIABLES loop,      \* "epoll", "poll" or "select"
          server,    \* control point of the server
          bound,     \* sockets whose bind succeeded
          turn,      \* i
          reported,  \* events[0], revents or mask
          backlog, datagrams, keys,   \* what the kernel holds for the server
          buffer,    \* the line in it: its author and the author's count
          peer,      \* addr
          cstate, asked, got,         \* of each client; got: the line answered
          served     \* history: requests served, and keys read

vars == <<loop, server, bound, turn, reported, backlog, datagrams, keys, buffer, peer,
          cstate, asked, got, served>>

Init == /\ loop = "none" /\ server = "main" /\ bound = {} /\ turn = 0 /\ reported = {}
        /\ backlog = <<>> /\ datagrams = <<>> /\ keys = 0
        /\ buffer = <<Nobody, 0>> /\ peer = Nobody
        /\ cstate = [c \in Clients |-> "new"]
        /\ asked = [c \in Clients |-> 0] /\ got = [c \in Clients |-> <<Nobody, 0>>]
        /\ served = 0

-----------------------------------------------------------------------------
(* Clients *)

UNCHANGED_Server == UNCHANGED <<loop, server, bound, turn, reported, buffer, peer, served>>

Connect(c) == /\ cstate[c] = "new" /\ "tcp" \in bound
              /\ cstate' = [cstate EXCEPT ![c] = "connected"]
              /\ backlog' = Append(backlog, c)
              /\ UNCHANGED <<datagrams, keys, asked, got>> /\ UNCHANGED_Server

Say(c) == /\ cstate[c] = "connected"
          /\ cstate' = [cstate EXCEPT ![c] = "sent"]
          /\ asked' = [asked EXCEPT ![c] = @ + 1]
          /\ UNCHANGED <<backlog, datagrams, keys, got>> /\ UNCHANGED_Server

HangUp(c) == /\ cstate[c] \in {"connected", "sent"}
             /\ cstate' = [cstate EXCEPT ![c] = "hungup"]
             /\ UNCHANGED <<backlog, datagrams, keys, asked, got>> /\ UNCHANGED_Server

Send(c) == /\ cstate[c] \in {"new", "answered"} /\ asked[c] < MaxAsks
           /\ "udp" \in bound
           /\ cstate' = [cstate EXCEPT ![c] = "sent"]
           /\ asked' = [asked EXCEPT ![c] = @ + 1]
           /\ datagrams' = Append(datagrams, <<c, asked'[c]>>)
           /\ UNCHANGED <<backlog, keys, got>> /\ UNCHANGED_Server

Type == /\ keys < MaxKeys /\ server # "main"
        /\ keys' = keys + 1
        /\ UNCHANGED <<backlog, datagrams, cstate, asked, got>> /\ UNCHANGED_Server

Environment == \/ \E c \in TcpClients : Connect(c) \/ Say(c) \/ HangUp(c)
               \/ \E c \in UdpClients : Send(c)
               \/ Type

-----------------------------------------------------------------------------
(* The server *)

UNCHANGED_Clients == UNCHANGED <<loop, bound, cstate, asked, got>>

(* A port may still be in use; only server_on_epoll looks at errno.         *)
Main == /\ server = "main"
        /\ loop' \in {"epoll", "poll", "select"}
        /\ bound' \in SUBSET {"tcp", "udp"}
        /\ server' = IF loop' = "epoll" /\ bound' # {"tcp", "udp"} THEN "ended" ELSE "wait"
        /\ UNCHANGED <<turn, reported, backlog, datagrams, keys, buffer, peer, cstate, asked,
                       got, served>>

Readable == {s \in {"tcp", "udp", "stdin"} :
                \/ s = "tcp" /\ backlog # <<>>
                \/ s = "udp" /\ datagrams # <<>>
                \/ s = "stdin" /\ keys > 0 /\ loop = "select"}

(* Mutant: the mask of the turn before is not filled again.                 *)
ReportsOfOldMask ==
    IF loop = "epoll" THEN {{s} : s \in Readable}
    ELSE {Readable \cap (IF turn = 0 THEN Readable ELSE reported)} \ {{}}

(* The epoll loop only looks at its first event.                            *)
Reports == IF loop = "epoll" THEN {{s} : s \in Readable} ELSE {Readable} \ {{}}

Wait == /\ server = "wait"
        /\ reported' \in Reports
        /\ server' = "udp"
        /\ UNCHANGED <<turn, backlog, datagrams, keys, buffer, peer, served>>
        /\ UNCHANGED_Clients

(* The answer in the buffer reaches c if c still waits for one.             *)
Answer(c) == /\ cstate' = [cstate EXCEPT ![c] = IF @ = "sent" THEN "answered" ELSE @]
             /\ got' = [got EXCEPT ![c] = IF cstate[c] = "sent" THEN buffer' ELSE @]
             /\ served' = served + 1

(* Mutant: recvfrom does not fill in the sender.                            *)
UdpToPeer == /\ server = "udp" /\ "udp" \in reported
             /\ buffer' = Head(datagrams) /\ datagrams' = Tail(datagrams)
             /\ peer' = IF peer = Nobody THEN buffer'[1] ELSE peer
             /\ Answer(peer')
             /\ server' = "tcp"
             /\ UNCHANGED <<loop, bound, turn, reported, backlog, keys, asked>>

Udp == /\ server = "udp" /\ "udp" \in reported
       /\ buffer' = Head(datagrams) /\ datagrams' = Tail(datagrams)
       /\ peer' = buffer'[1]
       /\ Answer(peer')
       /\ server' = "tcp"
       /\ UNCHANGED <<loop, bound, turn, reported, backlog, keys, asked>>

Accept == /\ server = "tcp" /\ "tcp" \in reported
          /\ peer' = Head(backlog) /\ backlog' = Tail(backlog)
          /\ server' = "recv"
          /\ UNCHANGED <<turn, reported, datagrams, keys, buffer, served>>
          /\ UNCHANGED_Clients

(* Of a connection closed without a line recv leaves the buffer as it was.  *)
Recv == /\ server = "recv" /\ cstate[peer] \in {"sent", "hungup"}
        /\ buffer' = IF asked[peer] > 0 THEN <<peer, asked[peer]>> ELSE buffer
        /\ Answer(peer)
        /\ server' = "stdin"
        /\ UNCHANGED <<loop, bound, turn, reported, backlog, datagrams, keys, peer, asked>>

Skip == \E s \in {<<"udp", "tcp">>, <<"tcp", "stdin">>} :
           /\ server = s[1] /\ s[1] \notin reported
           /\ server' = s[2]
           /\ UNCHANGED <<turn, reported, backlog, datagrams, keys, buffer, peer, served>>
           /\ UNCHANGED_Clients

NextTurn == /\ turn' = turn + 1
            /\ server' = IF turn' = MaxTurns THEN "ended" ELSE "wait"
            /\ UNCHANGED <<reported, backlog, datagrams, buffer, peer>>
            /\ UNCHANGED_Clients

(* The loop's last branch, which only select has, and its increment.        *)
EndTurn == /\ server = "stdin"
           /\ IF "stdin" \in reported THEN keys' = keys - 1 /\ served' = served + 1
                                      ELSE UNCHANGED <<keys, served>>
           /\ NextTurn

Serve == Wait \/ Udp \/ Accept \/ Recv \/ Skip \/ EndTurn

Next == Main \/ Environment \/ Serve

Spec == Init /\ [][Next]_vars /\ WF_vars(Serve)

-----------------------------------------------------------------------------
(* Properties *)

TypeOK == /\ loop \in {"none", "epoll", "poll", "select"}
          /\ server \in {"main", "wait", "udp", "tcp", "recv", "stdin", "ended"}
          /\ bound \subseteq {"tcp", "udp"} /\ reported \subseteq {"tcp", "udp", "stdin"}
          /\ turn \in 0..MaxTurns /\ keys \in 0..MaxKeys
          /\ backlog \in Seq(TcpClients) /\ datagrams \in Seq(UdpClients \X Nat)
          /\ peer \in Clients \cup {Nobody}
          /\ buffer[1] \in Clients \cup {Nobody}
          /\ asked \in [Clients -> 0..MaxAsks]

(* Though both sockets share a buffer and an address, and a connection may  *)
(* end without a line, whoever gets an answer gets one to its last line.    *)
AnswersOwn == \A c \in Clients : cstate[c] = "answered" => got[c] = <<c, asked[c]>>

(* A turn is used up only for a request or for a key: clients alone make    *)
(* MaxTurns turns last for at least that many requests.                     *)
TurnsNotWasted == turn <= served

(* The server waits for this connection, and its client says nothing.       *)
Held == server = "recv" /\ cstate[peer] = "connected"

(* A client waits for ever only if the turns are used up or a silent        *)
(* connection holds the server, in each of the three loops.                 *)
EachServed ==
    \A c \in Clients : cstate[c] = "sent" ~> cstate[c] # "sent" \/ server = "ended" \/ Held

(* A turn of the server goes to a request, and its answer to who asked.     *)
TurnsAnswer == AnswersOwn /\ TurnsNotWasted

(* The connections in the order they were made, the one in hand first.      *)
Pending == (IF server = "recv" THEN <<peer>> ELSE <<>>) \o backlog

Service == INSTANCE AnswerService WITH
    phase <- CASE server = "main" -> "closed" [] server = "ended" -> "over" [] OTHER -> "open",
    waits <- {c \in Clients : cstate[c] = "sent"},
    left <- {c \in Clients : cstate[c] = "hungup"},
    letters <- datagrams, line <- Pending

(* Three loops that share a buffer and an address between two sockets, and  *)
(* act on what the kernel reported earlier, answer each request once, in    *)
(* the order of its socket, to who asked, as long as there are turns.       *)
ImplementsAnswerService == Service!ASpec
=============================================================================
