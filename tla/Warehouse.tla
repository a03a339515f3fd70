------------------------------ MODULE Warehouse ------------------------------
(***************************************************************************)
(* What the les14 simulation promises, without threads or mutexes: goods   *)
(* reach a storage only as whole deliveries of PROV_AMOUNT, and leave it   *)
(* only as a sale that takes the same quantity off the stock and off the   *)
(* demand of one buyer.  LifeSimulator implements this specification.      *)
(***************************************************************************)
EXTENDS Integers

CONSTANTS Storages, Buyers, START_AMOUNT, START_DEMAND, PROV_AMOUNT, BUY_RESTRICT

VARIABLES stock, want

wvars == <<stock, want>>

WInit == /\ stock = [s \in Storages |-> START_AMOUNT]
         /\ want = [b \in Buyers |-> START_DEMAND]

Deliver(s) == /\ stock' = [stock EXCEPT ![s] = @ + PROV_AMOUNT]
              /\ UNCHANGED want

(* A buyer never takes more than it wants, than there is, or than allowed. *)
Sell(s, b) ==
    \E q \in 0..BUY_RESTRICT :
        /\ q <= stock[s] /\ q <= want[b]
        /\ q \in {stock[s], want[b], BUY_RESTRICT}
        /\ stock' = [stock EXCEPT ![s] = @ - q]
        /\ want' = [want EXCEPT ![b] = @ - q]

WNext == \E s \in Storages : Deliver(s) \/ \E b \in Buyers : Sell(s, b)

WSpec == WInit /\ [][WNext]_wvars
=============================================================================
