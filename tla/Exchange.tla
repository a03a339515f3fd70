-------------------------------- MODULE Exchange --------------------------------
(***************************************************************************)
(* The talk of two peers that take turns: les19 over TCP, where the client *)
(* begins and has no limit, and les24 over SCTP, where the server begins.  *)
(* Neither program looks at what its send and recv return; users may kill  *)
(* either side.                                                            *)
(***************************************************************************)
EXTENDS Naturals

CONSTANT Rounds   \* 26 in les19, 15 in les24

Sides == {"client", "server"}
Peer(s) == IF s = "client" THEN "server" ELSE "client"

VARIABLES protocol,    \* "TCP" or "SCTP"
          at,          \* control point of each side
          linked,      \* connect and accept succeeded
          inbox,       \* messages for each side
          rounds,      \* i of each side
          reset        \* sides that have sent to a peer that is gone

xvars == <<protocol, at, linked, inbox, rounds, reset>>

Init == /\ protocol = "none" /\ at = [s \in Sides |-> "new"] /\ linked = FALSE
        /\ inbox = [s \in Sides |-> 0] /\ rounds = [s \in Sides |-> 0] /\ reset = {}

(* Mutant: the client of les19 waits for the server as that of les24 does.  *)
BeginsNever(s) == s = "server" /\ protocol = "SCTP"

Begins(s) == (s = "client") = (protocol = "TCP")

First(s) == IF Begins(s) THEN "send" ELSE "recv"
Limit(s) == IF s = "client" /\ protocol = "TCP" THEN 0 ELSE Rounds   \* 0: none

-----------------------------------------------------------------------------
(* Connecting *)

(* les24 stops when its addresses cannot be bound.                          *)
Serve == /\ at["server"] = "new"
         /\ protocol' \in {"TCP", "SCTP"}
         /\ at' = [at EXCEPT !["server"] = "accept"]
         /\ UNCHANGED <<linked, inbox, rounds, reset>>

ServeNot == /\ at["server"] = "new"
            /\ protocol' = "SCTP"
            /\ at' = [at EXCEPT !["server"] = "ended"]
            /\ UNCHANGED <<linked, inbox, rounds, reset>>

Connect == /\ at = [client |-> "new", server |-> "accept"]
           /\ at' = [s \in Sides |-> First(s)]
           /\ linked' = TRUE
           /\ UNCHANGED <<protocol, inbox, rounds, reset>>

(* The client of les19 exits; that of les24 prints the error and goes on.   *)
ConnectFails == /\ at["client"] = "new" /\ protocol # "none"
                /\ at' = [at EXCEPT !["client"] = IF protocol = "TCP" THEN "ended" ELSE "recv"]
                /\ UNCHANGED <<protocol, linked, inbox, rounds, reset>>

-----------------------------------------------------------------------------
(* Talking *)

(* A round is over when the call that does not begin it is done.            *)
Return(s, call) ==
    LET over == call # First(s) IN
      /\ rounds' = [rounds EXCEPT ![s] = @ + (IF over THEN 1 ELSE 0)]
      /\ at' = [at EXCEPT ![s] = IF ~over THEN (IF call = "send" THEN "recv" ELSE "send")
                                 ELSE IF rounds'[s] = Limit(s) THEN "ended" ELSE First(s)]

Alone(s) == ~linked \/ at[Peer(s)] = "ended"

Send(s) == /\ at[s] = "send" /\ (linked => s \notin reset)
           /\ Return(s, "send")
           /\ inbox' = [inbox EXCEPT ![Peer(s)] = @ + (IF Alone(s) THEN 0 ELSE 1)]
           /\ reset' = IF Alone(s) THEN reset \cup {s} ELSE reset
           /\ UNCHANGED <<protocol, linked>>

(* The second send to a peer that is gone ends the program, and so does the *)
(* first one if the peer left something unread.                             *)
Sigpipe(s) == /\ at[s] = "send" /\ linked /\ Alone(s)
              /\ at' = [at EXCEPT ![s] = "ended"]
              /\ UNCHANGED <<protocol, linked, inbox, rounds, reset>>

Recv(s) == /\ at[s] = "recv" /\ (inbox[s] > 0 \/ Alone(s))
           /\ Return(s, "recv")
           /\ inbox' = [inbox EXCEPT ![s] = IF @ > 0 THEN @ - 1 ELSE 0]
           /\ UNCHANGED <<protocol, linked, reset>>

Kill(s) == /\ at[s] \in {"send", "recv"}
           /\ at' = [at EXCEPT ![s] = "ended"]
           /\ UNCHANGED <<protocol, linked, inbox, rounds, reset>>

Talk(s) == Send(s) \/ Sigpipe(s) \/ Recv(s)

Next == \/ Serve \/ ServeNot \/ Connect \/ ConnectFails
        \/ \E s \in Sides : Talk(s) \/ Kill(s)

Spec == Init /\ [][Next]_xvars /\ \A s \in Sides : WF_xvars(Talk(s))

-----------------------------------------------------------------------------
(* Properties *)

TypeOK == /\ protocol \in {"none", "TCP", "SCTP"} /\ linked \in BOOLEAN /\ reset \subseteq Sides
          /\ at \in [Sides -> {"new", "accept", "send", "recv", "ended"}]
          /\ inbox \in [Sides -> Nat] /\ rounds \in [Sides -> 0..(Rounds + 2)]

(* No message is under way together with another, so that a recv on the     *)
(* stream never takes two as one; and the sides never differ by more than   *)
(* the round that is under way.                                             *)
TakesTurns ==
    linked /\ (\A s \in Sides : at[s] # "ended") =>
        /\ inbox["client"] + inbox["server"] <= 1
        /\ \A s \in Sides : rounds[s] <= rounds[Peer(s)] + 1

(* Once connected both programs come to their end, even the client of les19 *)
(* that loops for ever and whoever is left alone in the middle of a round.  *)
(* A client of les24 that is not connected ends as well.                    *)
TalkEnds == \A s \in Sides : linked \/ at[s] \in {"send", "recv"} ~> at[s] = "ended"

(* The sides talk in turns until both of them have ended.                   *)
TalkProceeds == []TakesTurns /\ TalkEnds
=============================================================================
