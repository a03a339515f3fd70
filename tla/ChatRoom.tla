------------------------------- MODULE ChatRoom -------------------------------
(***************************************************************************)
(* What the chat of les16 promises, without queues, threads, kills and     *)
(* restarts: the server writes the lines of each client in the order they  *)
(* were typed and leaves none out between them, and copies reach the       *)
(* screens, all screens together, in the order of what was written, none   *)
(* oftener than there are clients.  A line need not be written, nor shown. *)
(* MqChat implements this specification.  A line is <<author, number>>.    *)
(***************************************************************************)
EXTENDS Integers, FiniteSets, Sequences, Functions

CONSTANT Clients

VARIABLES said,     \* lines each client has typed
          log,      \* lines the server has written
          printed   \* lines on the screen of each client

RInit == /\ said = [c \in Clients |-> 0]
         /\ log = <<>>
         /\ printed = [c \in Clients |-> <<>>]

Say(c) == /\ said' = [said EXCEPT ![c] = @ + 1]
          /\ UNCHANGED <<log, printed>>

(* The next line of its author.                                             *)
Write(c, n) == /\ n <= said[c] /\ <<c, n>> \notin Range(log)
               /\ \A m \in 1..n - 1 : <<c, m>> \in Range(log)
               /\ log' = Append(log, <<c, n>>)
               /\ UNCHANGED <<said, printed>>

TimesShown(l) ==
    SumFunction([d \in Clients |-> Cardinality({k \in DOMAIN printed[d] : printed[d][k] = l})])

(* No screen shows a later line yet.                                        *)
Show(c) ==
    \E k \in DOMAIN log :
        /\ \A d \in Clients : \A p \in DOMAIN printed[d] :
               \E j \in 1..k : printed[d][p] = log[j]
        /\ TimesShown(log[k]) < Cardinality(Clients)
        /\ printed' = [printed EXCEPT ![c] = Append(@, log[k])]
        /\ UNCHANGED <<said, log>>

RNext == \E c \in Clients : \/ Say(c) \/ Show(c)
                            \/ \E n \in 1..said[c] : Write(c, n)

RSpec == RInit /\ [][RNext]_<<said, log, printed>>
=============================================================================
