------------------------------- MODULE KernelPing -------------------------------
(***************************************************************************)
(* les31: what users do with ping_ctl while the module is loaded: update   *)
(* the address, ping it, show it.  ip is written and read byte by byte, on *)
(* different processors and without a lock; a byte is named after the      *)
(* address it belongs to.  The text of the last response is left out.      *)
(***************************************************************************)
EXTENDS Naturals, Sequences

CONSTANTS Users,        \* processes that have ping_ctl open
          Addresses,    \* what they update it to
          Bytes,        \* 4 in the code
          MaxOpers      \* bound: operations of a user

Loopback == "127.0.0.1"   \* the initial value
Garbage == "garbage"      \* of variables sscanf did not reach

VARIABLES ip,
          oper,        \* of each user: what it does
          arg,         \* the address it writes
          read,        \* bytes it has read
          byte,        \* bytes it has written or read
          opers,
          disturbed,   \* history: users whose operation overlapped an update
          torn         \* history: updates overlapped, and none has run alone since

vars == <<ip, oper, arg, read, byte, opers, disturbed, torn>>

Init == /\ ip = [b \in 1..Bytes |-> Loopback]
        /\ oper = [u \in Users |-> "none"] /\ arg = [u \in Users |-> Loopback]
        /\ read = [u \in Users |-> <<>>] /\ byte = [u \in Users |-> 0]
        /\ opers = [u \in Users |-> 0] /\ disturbed = {} /\ torn = FALSE

Updating == {u \in Users : oper[u] = "update"}
Running == {u \in Users : oper[u] # "none"}

Begin(u, what, a) ==
    /\ oper[u] = "none" /\ opers[u] < MaxOpers
    /\ oper' = [oper EXCEPT ![u] = what]
    /\ arg' = [arg EXCEPT ![u] = a]
    /\ read' = [read EXCEPT ![u] = <<>>] /\ byte' = [byte EXCEPT ![u] = 0]
    /\ opers' = [opers EXCEPT ![u] = @ + 1]
    /\ disturbed' = (disturbed \ {u})
                    \cup (IF what = "update" THEN Running ELSE {})
                    \cup (IF Updating # {} \/ (what # "update" /\ torn) THEN {u} ELSE {})
    /\ torn' = (torn \/ (what = "update" /\ Updating # {}))
    /\ UNCHANGED ip

(* The switch of addr_oper.  What sscanf does not find keeps the value it   *)
(* had on the stack: then the operation is any of them, or none, and the    *)
(* address is garbage.                                                      *)
AddrOper(u) == \/ \E a \in Addresses \cup {Garbage} : Begin(u, "update", a)
               \/ Begin(u, "ping", arg[u])

AddrGet(u) == Begin(u, "show", arg[u])

End(u) == oper' = [oper EXCEPT ![u] = "none"]

StoreByte(u) == /\ oper[u] = "update"
                /\ ip' = [ip EXCEPT ![byte[u] + 1] = arg[u]]
                /\ byte' = [byte EXCEPT ![u] = @ + 1]
                /\ IF byte'[u] = Bytes
                   THEN End(u) /\ torn' = (torn /\ u \in disturbed)
                   ELSE UNCHANGED <<oper, torn>>
                /\ UNCHANGED <<arg, read, opers, disturbed>>

(* create_address, and the arguments of sprintf.                            *)
ReadByte(u) == /\ oper[u] \in {"ping", "show"} /\ byte[u] < Bytes
               /\ read' = [read EXCEPT ![u] = Append(@, ip[byte[u] + 1])]
               /\ byte' = [byte EXCEPT ![u] = @ + 1]
               /\ UNCHANGED <<ip, oper, arg, opers, disturbed, torn>>

(* The ping is sent, the text is shown.  Without a socket nothing is sent.  *)
Finish(u) == /\ oper[u] \in {"ping", "show"}
             /\ byte[u] = Bytes \/ (oper[u] = "ping" /\ byte[u] = 0)
             /\ End(u)
             /\ UNCHANGED <<ip, arg, read, byte, opers, disturbed, torn>>

Next == \E u \in Users : AddrOper(u) \/ AddrGet(u) \/ StoreByte(u) \/ ReadByte(u) \/ Finish(u)

Spec == Init /\ [][Next]_vars

-----------------------------------------------------------------------------
(* Properties *)

Whole(bytes) == \E a \in Addresses \cup {Loopback, Garbage} :
                    \A b \in DOMAIN bytes : bytes[b] = a

TypeOK == /\ ip \in [1..Bytes -> Addresses \cup {Loopback, Garbage}]
          /\ \A u \in Users : /\ oper[u] \in {"none", "update", "ping", "show"}
                              /\ byte[u] \in 0..Bytes /\ Len(read[u]) <= byte[u]

(* The address is of one update, unless two of them overlapped and no       *)
(* update has run alone since.                                              *)
UpdateRepairs == Updating = {} /\ ~torn => Whole(ip)

(* A ping goes to, and a user is shown, an address that someone wrote,      *)
(* unless an update ran beside it or before it two updates overlapped.      *)
PingedWhole == \A u \in Users : byte[u] = Bytes /\ u \notin disturbed => Whole(read[u])

(* Users see addresses that somebody wrote unless their calls overlap.      *)
AddressesWhole == UpdateRepairs /\ PingedWhole
=============================================================================
