------------------------------ MODULE Switchboard ------------------------------
(***************************************************************************)
(* What the server of les21 promises to those who call, without parent,    *)
(* queue and processes: calls are put through in the order they came, each *)
(* once, to a handler that talks to nobody.  While all is well no call is  *)
(* lost; trouble (Ctrl-C, a failed call of the system) may cost the last   *)
(* call at once and the first ones later.  FsmServer implements this.      *)
(***************************************************************************)
EXTENDS Integers, Sequences

CONSTANTS Clients, Handlers, QueueCapacity

VARIABLES calls,     \* calls of each client
          line,      \* calls that wait, the first one first
          greeted,   \* calls of each client that each handler was given
          talking,   \* handlers with a client
          sound      \* no trouble so far

svars == <<calls, line, greeted, talking, sound>>

SInit == /\ calls = [c \in Clients |-> 0] /\ line = <<>>
         /\ greeted = [h \in Handlers |-> [c \in Clients |-> 0]]
         /\ talking = {} /\ sound \in BOOLEAN

(* One more than the queue holds is taken; the others are not heard yet.    *)
Call(c) == /\ Len(line) <= QueueCapacity
           /\ calls' = [calls EXCEPT ![c] = @ + 1]
           /\ line' = Append(line, c)
           /\ UNCHANGED <<greeted, talking, sound>>

Greet(h) == /\ line # <<>> /\ h \notin talking
            /\ greeted' = [greeted EXCEPT ![h][Head(line)] = @ + 1]
            /\ line' = Tail(line) /\ talking' = talking \cup {h}
            /\ UNCHANGED <<calls, sound>>

GoodBye(h) == /\ h \in talking
              /\ talking' = talking \ {h}
              /\ UNCHANGED <<calls, line, greeted, sound>>

Trouble == /\ sound' = FALSE
           /\ \/ UNCHANGED line
              \/ line # <<>> /\ line' = SubSeq(line, 1, Len(line) - 1)
           /\ UNCHANGED <<calls, greeted, talking>>

GiveUp == /\ ~sound /\ line # <<>>
          /\ line' = Tail(line)
          /\ UNCHANGED <<calls, greeted, talking, sound>>

SNext == \/ Trouble \/ GiveUp
         \/ \E c \in Clients : Call(c)
         \/ \E h \in Handlers : Greet(h) \/ GoodBye(h)

SSpec == SInit /\ [][SNext]_svars
=============================================================================
