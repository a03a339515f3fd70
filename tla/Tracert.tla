-------------------------------- MODULE Tracert --------------------------------
(***************************************************************************)
(* les28 tracert: probes of growing ttl go out, and the ICMP messages that *)
(* come back are printed one per round.  Nothing in the code relates an    *)
(* answer to its probe.  The network may lose a probe, delay and reorder   *)
(* answers and deliver an error that belongs to someone else.  recvfrom    *)
(* overwrites addr, the address the next probe goes to: with the header    *)
(* written by the program that only chooses the route, and is left out.    *)
(***************************************************************************)
EXTENDS Integers

CONSTANTS Distance,      \* hops to the destination
          TtlRange,      \* 256 in the code: ttl is an unsigned char
          MaxTimeouts, MaxLosses, MaxStrays   \* bounds on what the network does

(* ICMP types *)
Reached == 0
Unreachable == 3
TimeExceeded == 11

Stray == -1   \* hop of an error that belongs to someone else

VARIABLES asks,      \* what the events next to sock ask poll for
          tracer,    \* control point
          ttl, count,
          rcv,       \* the last message taken, and its type
          flying,    \* messages on their way back
          arrived,   \* messages in sock, told apart by the round of their probe
          line,      \* the last line printed: its number, and the hop it names
          timeouts, losses, strays

vars == <<asks, tracer, ttl, count, rcv, flying, arrived, line, timeouts, losses, strays>>

Message == [hop : {Stray} \cup 0..Distance, type : {Reached, Unreachable, TimeExceeded},
            round : Nat]

(* The type is set to 11 before the loop.                                   *)
Init == /\ asks = "?" /\ tracer = "main" /\ ttl = 1 /\ count = 1
        /\ rcv = [hop |-> Stray, type |-> TimeExceeded, round |-> 0]
        /\ flying = {} /\ arrived = {}
        /\ line = <<0, Stray>> /\ timeouts = 0 /\ losses = 0 /\ strays = 0

(* poll is given &sock and not &fd: the events are whatever follows sock in *)
(* memory.  Any socket is writable, so POLLOUT makes poll return at once.   *)
Start == /\ tracer = "main"
         /\ asks' \in {"POLLIN", "POLLOUT", "neither"}
         /\ tracer' = "sendto"
         /\ UNCHANGED <<ttl, count, rcv, flying, arrived, line, timeouts, losses, strays>>

-----------------------------------------------------------------------------
(* The network *)

(* The first router also answers a ttl that has come round to 0.            *)
Answer(t) == [hop |-> IF t >= Distance THEN Distance ELSE IF t = 0 THEN 1 ELSE t,
              type |-> IF t < Distance THEN TimeExceeded ELSE Reached, round |-> count]

Arrive == \E m \in flying : /\ flying' = flying \ {m} /\ arrived' = arrived \cup {m}
                            /\ UNCHANGED <<asks, tracer, ttl, count, rcv, line, timeouts, losses,
                                           strays>>

StrayError == /\ strays < MaxStrays /\ tracer # "main"
              /\ strays' = strays + 1
              /\ arrived' = arrived \cup {[hop |-> Stray, type |-> Unreachable, round |-> 0]}
              /\ UNCHANGED <<asks, tracer, ttl, count, rcv, flying, line, timeouts, losses>>

-----------------------------------------------------------------------------
(* The program *)

Sendto == /\ tracer = "sendto"
          /\ \/ flying' = flying \cup {Answer(ttl)} /\ UNCHANGED losses
             \/ /\ losses < MaxLosses
                /\ losses' = losses + 1 /\ UNCHANGED flying
          /\ tracer' = "poll"
          /\ UNCHANGED <<asks, ttl, count, rcv, arrived, line, timeouts, strays>>

PollReady == /\ tracer = "poll"
             /\ \/ asks = "POLLOUT"
                \/ asks = "POLLIN" /\ arrived # {}
             /\ tracer' = "recvfrom"
             /\ UNCHANGED <<asks, ttl, count, rcv, flying, arrived, line, timeouts, losses, strays>>

(* Mutant: ttl is an int.                                                   *)
EndRoundWide(message) == /\ rcv' = message
                         /\ ttl' = ttl + 1
                         /\ count' = count + 1
                         /\ tracer' = IF message.type = TimeExceeded THEN "sendto" ELSE "ended"

(* The end of a round: the line, the next ttl and the loop's condition.     *)
EndRound(message) == /\ rcv' = message
                     /\ ttl' = (ttl + 1) % TtlRange
                     /\ count' = count + 1
                     /\ tracer' = IF message.type = TimeExceeded THEN "sendto" ELSE "ended"

(* Mutant: a round without an answer does not count.                        *)
UncountedTimeout == /\ tracer = "poll" /\ asks # "POLLOUT" /\ timeouts < MaxTimeouts
                    /\ asks = "POLLIN" => arrived = {}
                    /\ ttl' = (ttl + 1) % TtlRange /\ UNCHANGED <<rcv, count>>
                    /\ tracer' = "sendto"
                    /\ line' = <<count, Stray>> /\ timeouts' = timeouts + 1
                    /\ UNCHANGED <<asks, flying, arrived, losses, strays>>

(* Five seconds without an answer.                                          *)
PollTimeout == /\ tracer = "poll" /\ asks # "POLLOUT" /\ timeouts < MaxTimeouts
               /\ asks = "POLLIN" => arrived = {}
               /\ EndRound(rcv)
               /\ line' = <<count, Stray>> /\ timeouts' = timeouts + 1
               /\ UNCHANGED <<asks, flying, arrived, losses, strays>>

(* Mutant: it takes the answer to its own probe, and only that.             *)
RecvfromOwn == /\ tracer = "recvfrom"
               /\ \E m \in arrived : /\ m.round = count
                                     /\ EndRound(m)
                                     /\ arrived' = arrived \ {m}
                                     /\ line' = <<count, m.hop>>
               /\ UNCHANGED <<asks, flying, timeouts, losses, strays>>

Recvfrom == /\ tracer = "recvfrom"
            /\ \E m \in arrived : /\ EndRound(m)
                                  /\ arrived' = arrived \ {m}
                                  /\ line' = <<count, m.hop>>
            /\ UNCHANGED <<asks, flying, timeouts, losses, strays>>

Round == Sendto \/ PollReady \/ PollTimeout \/ Recvfrom

Next == Start \/ Arrive \/ StrayError \/ Round

Fairness == WF_vars(Arrive) /\ WF_vars(Start \/ Round)

Spec == Init /\ [][Next]_vars /\ Fairness

-----------------------------------------------------------------------------
(* Properties *)

TypeOK == /\ asks \in {"?", "POLLIN", "POLLOUT", "neither"}
          /\ tracer \in {"main", "sendto", "poll", "recvfrom", "ended"}
          /\ ttl \in 0..(TtlRange - 1) /\ count \in Nat \ {0}
          /\ rcv \in Message /\ flying \subseteq Message /\ arrived \subseteq Message

(* A line may name a hop that answered late, and so be too near; it never   *)
(* names a hop farther away than its number.                                *)
NoHopTooEarly == line[2] <= line[1]

(* Without someone else's error the program ends only when a probe got to   *)
(* the destination: not before that many rounds, and not by running out of  *)
(* answers.                                                                 *)
EndsAtDestination ==
    tracer = "ended" /\ strays = 0 => rcv.hop = Distance /\ count > Distance

(* If poll asks for input the program ends, whatever came late or was lost. *)
ReachesDestination == asks = "POLLIN" ~> tracer = "ended"

(* The lines printed are never of hops too far, and their end is the        *)
(* destination's.                                                           *)
LinesTrue == NoHopTooEarly /\ EndsAtDestination
=============================================================================
