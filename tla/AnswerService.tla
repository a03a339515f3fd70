----------------------------- MODULE AnswerService -----------------------------
(***************************************************************************)
(* What the servers of les22 promise their clients, without loops, sockets,*)
(* buffers and reports of the kernel: datagrams are answered in the order  *)
(* they came, connections in the order they were made, each once and to    *)
(* who asked; a connection is left alone until its client says something   *)
(* or leaves; nobody is turned away before MaxTurns requests or keys.      *)
(* MultiServer implements this specification.                              *)
(***************************************************************************)
EXTENDS Naturals, Sequences, Functions

CONSTANTS TcpClients, UdpClients, Clients, Nobody, MaxTurns

VARIABLES phase,     \* of the service: "closed", "open" or "over"
          asked,     \* requests of each client
          waits,     \* clients that wait for an answer
          got,       \* the request answered last, and whose it was
          letters,   \* requests by datagram, <<client, number>>
          line,      \* connections
          left,      \* clients that closed their connection
          served     \* requests and keys

avars == <<phase, asked, waits, got, letters, line, left, served>>

AInit == /\ phase = "closed" /\ asked = [c \in Clients |-> 0]
         /\ waits = {} /\ got = [c \in Clients |-> <<Nobody, 0>>]
         /\ letters = <<>> /\ line = <<>> /\ left = {} /\ served = 0

Ask(c) == /\ c \notin waits
          /\ asked' = [asked EXCEPT ![c] = @ + 1]
          /\ waits' = waits \cup {c}
          /\ UNCHANGED <<phase, got, left, served>>

Letter(c) == Ask(c) /\ letters' = Append(letters, <<c, asked'[c]>>) /\ UNCHANGED line
Say(c) == Ask(c) /\ c \in Range(line) \ left /\ UNCHANGED <<letters, line>>

Connect(c) == /\ line' = Append(line, c)
              /\ UNCHANGED <<phase, asked, waits, got, letters, left, served>>

Leave(c) == /\ c \in Range(line)
            /\ left' = left \cup {c} /\ waits' = waits \ {c}
            /\ UNCHANGED <<phase, asked, got, letters, line, served>>

(* Nobody hears the answer to a client that has left.                       *)
Answer(c) == /\ phase = "open" /\ c \in waits \cup left
             /\ got' = [got EXCEPT ![c] = IF c \in waits THEN <<c, asked[c]>> ELSE @]
             /\ waits' = waits \ {c} /\ served' = served + 1
             /\ UNCHANGED <<phase, asked, left>>

AnswerLetter == /\ letters # <<>> /\ Answer(Head(letters)[1])
                /\ letters' = Tail(letters) /\ UNCHANGED line

AnswerConnection == /\ line # <<>> /\ Answer(Head(line))
                    /\ line' = Tail(line) /\ UNCHANGED letters

Open == /\ phase = "closed" /\ phase' \in {"open", "over"}
        /\ UNCHANGED <<asked, waits, got, letters, line, left, served>>

(* A key may use up the last turn.                                          *)
KeyOrEnd == /\ phase = "open" /\ served' \in {served, served + 1}
            /\ phase' = "over" => served' >= MaxTurns
            /\ phase' \in {"open", "over"}
            /\ UNCHANGED <<asked, waits, got, letters, line, left>>

ANext == \/ \E c \in UdpClients : Letter(c)
         \/ \E c \in TcpClients : Connect(c) \/ Say(c) \/ Leave(c)
         \/ AnswerLetter \/ AnswerConnection \/ Open \/ KeyOrEnd

ASpec == AInit /\ [][ANext]_avars
=============================================================================
