------------------------------- MODULE MCSockets -------------------------------
(* The programs that talk over sockets, one after another: a first step     *)
(* chooses a lesson, and the behaviour is one of that program from then on. *)
EXTENDS Checksum, Sequences

VARIABLES lesson

CONSTANTS TcpClients, UdpClients, MaxTurns, MaxAsks, MaxKeys
VARIABLES loop, server, bound, turn, reported, backlog, datagrams, keys, buffer, peer, cstate,
          asked, got, served
msVars == <<loop, server, bound, turn, reported, backlog, datagrams, keys, buffer, peer, cstate, asked, got, served>>
MS == INSTANCE MultiServer

CONSTANTS Callers, MaxFds, MaxProcs, MaxLines
VARIABLES parent, conn, accepted, forked, waiting, child, caller, up, down, broken, lines, units
tcVars == <<parent, conn, accepted, forked, waiting, child, caller, up, down, broken, lines, units>>
TC == INSTANCE TcpChat

CONSTANTS Distance, TtlRange, MaxTimeouts, MaxLosses, MaxStrays
VARIABLES asks, tracer, ttl, count, rcv, flying, arrived, line, timeouts, losses, strays
trVars == <<asks, tracer, ttl, count, rcv, flying, arrived, line, timeouts, losses, strays>>
TR == INSTANCE Tracert

CONSTANTS Rounds
VARIABLES protocol, at, linked, inbox, rounds, reset
exVars == <<protocol, at, linked, inbox, rounds, reset>>
EX == INSTANCE Exchange

(* A client speaks one of the two protocols; nothing is forked for a        *)
(* connection that was not made; a ttl may be 1, and comes round to 0.      *)
ASSUME SocketConstants ==
    /\ TcpClients \cap UdpClients = {}
    /\ MaxTurns \in Nat \ {0} /\ MaxAsks \in Nat \ {0} /\ MaxKeys \in Nat
    /\ TC!NoCaller \notin Callers
    /\ MaxFds \in Nat /\ MaxProcs \in Nat /\ MaxLines \in Nat
    /\ Distance \in Nat /\ TtlRange \in Nat \ {0, 1}
    /\ Rounds \in Nat \ {0}

AtStart == lesson = "none" /\ MS!Init /\ TC!Init /\ TR!Init /\ EX!Init /\ Init

Choose == /\ lesson = "none"
          /\ lesson' \in {"les19", "les20", "les22", "les28", "checksum"}
          /\ UNCHANGED <<msVars, tcVars, trVars, exVars, cvars>>

Les19 == lesson = "les19" /\ UNCHANGED <<lesson, msVars, tcVars, trVars, cvars>>
Les20 == lesson = "les20" /\ UNCHANGED <<lesson, msVars, trVars, exVars, cvars>>
Les22 == lesson = "les22" /\ UNCHANGED <<lesson, tcVars, trVars, exVars, cvars>>
Les28 == lesson = "les28" /\ UNCHANGED <<lesson, msVars, tcVars, exVars, cvars>>
Sums == lesson = "checksum" /\ UNCHANGED <<lesson, msVars, tcVars, trVars, exVars>>

Step == \/ Choose
        \/ Les19 /\ EX!Next
        \/ Les20 /\ TC!Next
        \/ Les22 /\ MS!Next
        \/ Les28 /\ TR!Next
        \/ Sums /\ Next

(* The fairness of each module, under its lesson.                           *)
vars == <<lesson, msVars, tcVars, trVars, exVars, cvars>>

Fairness ==
    /\ \A s \in EX!Sides : WF_vars(Les19 /\ EX!Talk(s))
    /\ WF_vars(Les22 /\ MS!Serve)
    /\ WF_vars(Les20 /\ (TC!Accept \/ TC!Fork))
    /\ \A c \in Callers : WF_vars(Les20 /\ TC!Child(c)) /\ WF_vars(Les20 /\ TC!RecvLine(c))
    /\ WF_vars(Les28 /\ TR!Arrive) /\ WF_vars(Les28 /\ (TR!Start \/ TR!Round))

Lessons == AtStart /\ [][Step]_vars /\ Fairness

-----------------------------------------------------------------------------
(* What the modules say of their programs.                                  *)
TypesOK == MS!TypeOK /\ TC!TypeOK /\ TR!TypeOK /\ EX!TypeOK /\ TypeOK

TurnsAnswer == MS!TurnsAnswer
ImplementsAnswerService == MS!ImplementsAnswerService
EachServed == MS!EachServed

OneGreetingBehind == TC!OneGreetingBehind
ChatGoesOn == TC!ChatGoesOn

LinesTrue == TR!LinesTrue
ReachesDestination == TR!ReachesDestination

TalkProceeds == EX!TalkProceeds
===============================================================================
