------------------------- MODULE LifeSimulatorProofs -------------------------
(***************************************************************************)
(* Proofs about LifeSimulator, for any number of storages, buyers and      *)
(* providers and any amounts.                                              *)
(*                                                                         *)
(* The inductive invariant is the conjunction of TypeOK, LockDiscipline,   *)
(* NoLostUpdate and NoOverselling.  NoOverselling alone is not inductive:  *)
(* Buy stores a difference computed from the loaded copy, so it needs      *)
(* NoLostUpdate, and NoLostUpdate survives another thread's store only     *)
(* because LockDiscipline keeps two threads off the same storage.          *)
(***************************************************************************)
EXTENDS LifeSimulator, TLAPS

IInv == TypeOK /\ LockDiscipline /\ NoLostUpdate /\ NoOverselling

(* What buy takes is one of the three limits and exceeds none of them.      *)
LEMMA QuantityBounds ==
    ASSUME NEW have \in Nat, NEW wanted \in Nat
    PROVE  LET q == Quantity(have, wanted)
           IN  /\ q \in 0..BUY_RESTRICT
               /\ q <= have /\ q <= wanted
               /\ q \in {have, wanted, BUY_RESTRICT}
BY SimulatorConstants DEF Quantity

(* The next index of a for loop is again a storage.                         *)
LEMMA NextIndex ==
    ASSUME NEW i \in Storages
    PROVE  /\ 0 \in Storages
           /\ i + 1 < N_STORAGES => i + 1 \in Storages
BY SimulatorConstants DEF Storages

LEMMA InitIInv == Init => IInv
<1> SUFFICES ASSUME Init PROVE IInv
  OBVIOUS
<1> USE SimulatorConstants
<1>1. 0 \in Storages /\ Storages \subseteq Nat
  BY DEF Storages
<1>2. TypeOK
  <2>1. pc \in [Threads -> {"while", "peek", "try", "done"} \cup Critical]
    BY DEF Init
  <2>2. /\ remains \in [Storages -> Int]
        /\ demands \in [Buyers -> Int]
        /\ loaded \in [Threads -> Int]
    BY DEF Init
  <2>3. /\ storage_mut \in [Storages -> Threads \cup {NoThread}]
        /\ index \in [Threads -> Storages]
        /\ exited \in BOOLEAN
    BY <1>1 DEF Init
  <2> QED
    BY <2>1, <2>2, <2>3 DEF TypeOK
<1>3. LockDiscipline
  BY DEF Init, LockDiscipline, Critical, Threads
<1>4. NoLostUpdate
  BY DEF Init, NoLostUpdate
<1>5. NoOverselling
  BY DEF Init, NoOverselling
<1> QED
  BY <1>2, <1>3, <1>4, <1>5 DEF IInv

(* A step that moves a thread which holds no mutex to a control point where *)
(* it holds none, and leaves stocks, demands and mutexes alone.             *)
LEMMA Wander ==
    ASSUME IInv, NEW t \in Threads, NEW to \in {"while", "peek", "try", "done"},
           NEW i \in Storages,
           pc[t] \notin Critical,
           pc' = [pc EXCEPT ![t] = to],
           index' = [index EXCEPT ![t] = i],
           UNCHANGED <<remains, storage_mut, demands, loaded, exited>>
    PROVE  IInv'
<1> USE DEF IInv
<1>1. TypeOK'
  BY DEF TypeOK
<1>2. LockDiscipline'
  BY DEF TypeOK, LockDiscipline, Critical
<1>3. NoLostUpdate'
  BY DEF TypeOK, NoLostUpdate, Critical
<1>4. NoOverselling'
  BY DEF TypeOK, NoOverselling
<1> QED
  BY <1>1, <1>2, <1>3, <1>4

(* Taking a free mutex.                                                     *)
LEMMA AcquireIInv ==
    ASSUME IInv, NEW t \in Threads, Acquire(t)
    PROVE  IInv'
<1> USE DEF IInv, Acquire, Go
<1>1. TypeOK'
  BY DEF TypeOK, Critical
<1>2. LockDiscipline'
  BY SimulatorConstants DEF TypeOK, LockDiscipline, Critical
<1>3. NoLostUpdate'
  BY DEF TypeOK, NoLostUpdate
<1>4. NoOverselling'
  BY DEF TypeOK, NoOverselling
<1> QED
  BY <1>1, <1>2, <1>3, <1>4

(* Loading the stock of the locked storage.                                 *)
LEMMA LoadIInv ==
    ASSUME IInv, NEW t \in Threads, Load(t)
    PROVE  IInv'
<1> USE DEF IInv, Load, Go
<1>1. TypeOK'
  BY DEF TypeOK, Critical
<1>2. LockDiscipline'
  BY DEF TypeOK, LockDiscipline, Critical
<1>3. NoLostUpdate'
  BY DEF TypeOK, NoLostUpdate
<1>4. NoOverselling'
  BY DEF TypeOK, NoOverselling
<1> QED
  BY <1>1, <1>2, <1>3, <1>4

(* The store: no other thread about to store has loaded this storage, since *)
(* it would hold the same mutex.                                            *)
LEMMA StoreIInv ==
    ASSUME IInv, NEW t \in Threads, NEW n \in Nat,
           Go(t, "store", "unlock"),
           remains' = [remains EXCEPT ![index[t]] = n],
           demands' \in [Buyers -> Nat],
           UNCHANGED <<storage_mut, index, loaded, exited>>
    PROVE  IInv'
<1> USE DEF IInv, Go
<1>1. TypeOK'
  BY DEF TypeOK, Critical
<1>2. LockDiscipline'
  BY DEF TypeOK, LockDiscipline, Critical
<1>3. NoLostUpdate'
  <2> SUFFICES ASSUME NEW u \in Threads, pc'[u] = "store"
               PROVE  loaded[u] = remains'[index[u]]
    BY DEF NoLostUpdate
  <2>1. u # t /\ pc[u] = "store"
    BY DEF TypeOK
  <2>2. index[u] # index[t]
    BY <2>1 DEF TypeOK, LockDiscipline, Critical
  <2> QED
    BY <2>1, <2>2 DEF TypeOK, NoLostUpdate
<1>4. NoOverselling'
  BY DEF TypeOK, NoOverselling
<1> QED
  BY <1>1, <1>2, <1>3, <1>4

(* The unlock, whatever storage and control point the thread goes on to.    *)
LEMMA ReleaseIInv ==
    ASSUME IInv, NEW t \in Threads, NEW to \in {"while", "peek", "try", "done"},
           NEW i \in Storages,
           Go(t, "unlock", to), Release(t),
           index' = [index EXCEPT ![t] = i],
           UNCHANGED <<remains, demands, loaded, exited>>
    PROVE  IInv'
<1> USE DEF IInv, Go, Release
<1>1. TypeOK'
  BY DEF TypeOK
<1>2. LockDiscipline'
  <2> SUFFICES ASSUME NEW u \in Threads, NEW s \in Storages
               PROVE  storage_mut'[s] = u <=> (pc'[u] \in Critical /\ index'[u] = s)
    BY DEF LockDiscipline
  <2>1. CASE u = t
    BY <2>1, SimulatorConstants DEF TypeOK, LockDiscipline, Critical
  <2>2. CASE u # t
    BY <2>2, SimulatorConstants DEF TypeOK, LockDiscipline, Critical
  <2> QED
    BY <2>1, <2>2
<1>3. NoLostUpdate'
  BY DEF TypeOK, NoLostUpdate
<1>4. NoOverselling'
  BY DEF TypeOK, NoOverselling
<1> QED
  BY <1>1, <1>2, <1>3, <1>4

(* The copy a thread stores from is a natural number.                       *)
LEMMA LoadedNat ==
    ASSUME IInv, NEW t \in Threads, pc[t] = "store"
    PROVE  loaded[t] \in Nat
BY DEF IInv, TypeOK, NoLostUpdate, NoOverselling

LEMMA ProviderIInv ==
    ASSUME IInv, NEW p \in Providers, Provider(p)
    PROVE  IInv'
<1>0. p \in Threads /\ index[p] \in Storages
  BY DEF Threads, IInv, TypeOK
<1>1. CASE ProviderAcquire(p)
  BY <1>0, <1>1, AcquireIInv DEF ProviderAcquire
<1>2. CASE ProviderBusy(p)
  <2> DEFINE i == IF index[p] + 1 < N_STORAGES THEN index[p] + 1 ELSE 0
  <2>1. i \in Storages
    BY <1>0, NextIndex
  <2>2. /\ pc[p] = "try" /\ pc' = [pc EXCEPT ![p] = "try"]
        /\ index' = [index EXCEPT ![p] = i]
        /\ UNCHANGED <<remains, storage_mut, demands, loaded, exited>>
    BY <1>0, <1>2 DEF ProviderBusy, NextStorage, Go, IInv, TypeOK
  <2> QED
    BY <1>0, <2>1, <2>2, Wander DEF Critical
<1>3. CASE Load(p)
  BY <1>0, <1>3, LoadIInv
<1>4. CASE Provide(p)
  <2>1. loaded[p] + PROV_AMOUNT \in Nat
    BY <1>0, <1>4, LoadedNat, SimulatorConstants DEF Provide, Go
  <2>2. demands' \in [Buyers -> Nat]
    BY <1>4 DEF Provide, IInv, TypeOK, NoOverselling
  <2> QED
    BY <1>0, <1>4, <2>1, <2>2, StoreIInv DEF Provide
<1>5. CASE ProviderRelease(p)
  BY <1>0, <1>5, NextIndex, ReleaseIInv DEF ProviderRelease
<1> QED
  BY <1>1, <1>2, <1>3, <1>4, <1>5 DEF Provider

(* What Buy writes: natural numbers, and the same quantity off both sides.  *)
LEMMA BuyEffect ==
    ASSUME IInv, NEW b \in Buyers, Buy(b)
    PROVE  LET q == Quantity(loaded[b], demands[b])
           IN  /\ q \in 0..BUY_RESTRICT
               /\ q <= remains[index[b]] /\ q <= demands[b]
               /\ q \in {remains[index[b]], demands[b], BUY_RESTRICT}
               /\ loaded[b] = remains[index[b]]
               /\ loaded[b] - q \in Nat
               /\ demands[b] - q \in Nat
<1>1. b \in Threads /\ pc[b] = "store"
  BY DEF Buy, Go, Threads
<1>2. loaded[b] \in Nat /\ loaded[b] = remains[index[b]]
  BY <1>1, LoadedNat DEF IInv, NoLostUpdate
<1>3. demands[b] \in Nat
  BY DEF IInv, TypeOK, NoOverselling
<1> DEFINE q == Quantity(loaded[b], demands[b])
<1>4. /\ q \in 0..BUY_RESTRICT
      /\ q <= loaded[b] /\ q <= demands[b]
      /\ q \in {loaded[b], demands[b], BUY_RESTRICT}
  BY <1>2, <1>3, QuantityBounds
<1> HIDE DEF q
<1>5. loaded[b] - q \in Nat /\ demands[b] - q \in Nat
  BY <1>2, <1>3, <1>4, SimulatorConstants
<1> QED
  BY <1>2, <1>4, <1>5 DEF q

LEMMA BuyerIInv ==
    ASSUME IInv, NEW b \in Buyers, Buyer(b)
    PROVE  IInv'
<1>0. b \in Threads /\ index[b] \in Storages
  BY DEF Threads, IInv, TypeOK
<1> DEFINE i == IF index[b] + 1 < N_STORAGES THEN index[b] + 1 ELSE 0
           after == IF index[b] + 1 < N_STORAGES THEN "peek" ELSE "while"
<1>a. i \in Storages
  BY <1>0, NextIndex
<1>b. after \in {"while", "peek", "try", "done"}
  OBVIOUS
<1>1. CASE BuyerWhile(b)
  <2> DEFINE to == IF demands[b] > 0 THEN "peek" ELSE "done"
  <2>1. pc[b] = "while" /\ pc' = [pc EXCEPT ![b] = to]
    BY <1>1 DEF BuyerWhile, Go
  <2>2. index' = [index EXCEPT ![b] = index[b]]
    BY <1>0, <1>1 DEF BuyerWhile, IInv, TypeOK
  <2>3. to \in {"while", "peek", "try", "done"}
    OBVIOUS
  <2>4. UNCHANGED <<remains, storage_mut, demands, loaded, exited>>
    BY <1>1 DEF BuyerWhile
  <2> QED
    BY <1>0, <2>1, <2>2, <2>3, <2>4, Wander DEF Critical
<1>2. CASE BuyerPeek(b)
  <2>1. CASE pc' = [pc EXCEPT ![b] = "try"] /\ UNCHANGED index
    <3>1. index' = [index EXCEPT ![b] = index[b]]
      BY <1>0, <2>1 DEF IInv, TypeOK
    <3>2. /\ pc[b] = "peek"
          /\ UNCHANGED <<remains, storage_mut, demands, loaded, exited>>
      BY <1>2 DEF BuyerPeek, Go, NextStorage
    <3> QED
      BY <1>0, <2>1, <3>1, <3>2, Wander DEF Critical
  <2>2. CASE NextStorage(b, "peek", "peek", "while")
    <3>1. /\ pc[b] = "peek" /\ pc' = [pc EXCEPT ![b] = after]
          /\ index' = [index EXCEPT ![b] = i]
      BY <1>0, <2>2 DEF NextStorage, Go, IInv, TypeOK
    <3>2. UNCHANGED <<remains, storage_mut, demands, loaded, exited>>
      BY <1>2 DEF BuyerPeek
    <3> QED
      BY <1>0, <1>a, <1>b, <3>1, <3>2, Wander DEF Critical
  <2> QED
    BY <1>2, <2>1, <2>2 DEF BuyerPeek, Go
<1>3. CASE Acquire(b)
  BY <1>0, <1>3, AcquireIInv
<1>4. CASE BuyerBusy(b)
  <2>1. /\ pc[b] = "try" /\ pc' = [pc EXCEPT ![b] = after]
        /\ index' = [index EXCEPT ![b] = i]
        /\ UNCHANGED <<remains, storage_mut, demands, loaded, exited>>
    BY <1>0, <1>4 DEF BuyerBusy, NextStorage, Go, IInv, TypeOK
  <2> QED
    BY <1>0, <1>a, <1>b, <2>1, Wander DEF Critical
<1>5. CASE Load(b)
  BY <1>0, <1>5, LoadIInv
<1>6. CASE Buy(b)
  <2> DEFINE q == Quantity(loaded[b], demands[b])
  <2>1. loaded[b] - q \in Nat /\ demands[b] - q \in Nat
    BY <1>6, BuyEffect
  <2>2. demands' = [demands EXCEPT ![b] = demands[b] - q]
    BY <1>6 DEF Buy, IInv, TypeOK
  <2> HIDE DEF q
  <2>3. demands' \in [Buyers -> Nat]
    BY <2>1, <2>2 DEF IInv, TypeOK, NoOverselling
  <2>4. /\ Go(b, "store", "unlock")
        /\ remains' = [remains EXCEPT ![index[b]] = loaded[b] - q]
        /\ UNCHANGED <<storage_mut, index, loaded, exited>>
    BY <1>6 DEF Buy, q
  <2> QED
    BY <1>0, <2>1, <2>3, <2>4, StoreIInv
<1>7. CASE BuyerRelease(b)
  <2>1. /\ Go(b, "unlock", after) /\ Release(b)
        /\ index' = [index EXCEPT ![b] = i]
        /\ UNCHANGED <<remains, demands, loaded, exited>>
    BY <1>0, <1>7 DEF BuyerRelease, NextStorage, IInv, TypeOK
  <2> QED
    BY <1>0, <1>a, <1>b, <2>1, ReleaseIInv
<1> QED
  BY <1>1, <1>2, <1>3, <1>4, <1>5, <1>6, <1>7 DEF Buyer

LEMMA NextIInv == IInv /\ [Next]_vars => IInv'
<1> SUFFICES ASSUME IInv, [Next]_vars PROVE IInv'
  OBVIOUS
<1>1. CASE \E p \in Providers : Provider(p)
  BY <1>1, ProviderIInv
<1>2. CASE \E b \in Buyers : Buyer(b)
  BY <1>2, BuyerIInv
<1>3. CASE Exit
  BY <1>3 DEF Exit, IInv, TypeOK, LockDiscipline, NoLostUpdate, NoOverselling
<1>4. CASE UNCHANGED vars
  BY <1>4 DEF vars, IInv, TypeOK, LockDiscipline, NoLostUpdate, NoOverselling
<1> QED
  BY <1>1, <1>2, <1>3, <1>4 DEF Next, Exited

-----------------------------------------------------------------------------
(* In every execution of lifeSimulator.c the four invariants hold together. *)
THEOREM Inductive == Spec => []IInv
BY InitIInv, NextIInv, PTL DEF Spec

(* The variables keep their types.                                          *)
THEOREM TypeCorrect == Spec => []TypeOK
BY Inductive, PTL DEF IInv

(* A mutex names exactly the thread working on its storage.                 *)
THEOREM Mutex == Spec => []LockDiscipline
BY Inductive, PTL DEF IInv

(* No read-modify-write of remains is interleaved with another.             *)
THEOREM UpdatesNotLost == Spec => []NoLostUpdate
BY Inductive, PTL DEF IInv

(* No storage is oversold and no buyer is given more than it wants.         *)
THEOREM NeverOversold == Spec => []NoOverselling
BY Inductive, PTL DEF IInv

-----------------------------------------------------------------------------
(* Every step of the threads is a delivery, a sale or a stutter of the      *)
(* warehouse.                                                               *)
LEMMA StepRefines ==
    ASSUME IInv, [Next]_vars
    PROVE  [W!WNext]_<<remains, demands>>
<1>1. ASSUME NEW p \in Providers, Provide(p)
      PROVE  W!WNext
  <2>1. p \in Threads /\ pc[p] = "store"
    BY <1>1 DEF Provide, Go, Threads
  <2>2. loaded[p] = remains[index[p]] /\ index[p] \in Storages
    BY <2>1 DEF IInv, TypeOK, NoLostUpdate
  <2>3. W!Deliver(index[p])
    BY <1>1, <2>2 DEF Provide, W!Deliver
  <2> QED
    BY <2>2, <2>3 DEF W!WNext
<1>2. ASSUME NEW b \in Buyers, Buy(b)
      PROVE  W!WNext
  <2> DEFINE q == Quantity(loaded[b], demands[b])
  <2>1. index[b] \in Storages
    BY DEF IInv, TypeOK, Threads
  <2>2. /\ q \in 0..BUY_RESTRICT
        /\ q <= remains[index[b]] /\ q <= demands[b]
        /\ q \in {remains[index[b]], demands[b], BUY_RESTRICT}
        /\ loaded[b] = remains[index[b]]
    BY <1>2, BuyEffect
  <2>3. /\ remains' = [remains EXCEPT ![index[b]] = @ - q]
        /\ demands' = [demands EXCEPT ![b] = @ - q]
    BY <1>2, <2>2 DEF Buy
  <2> HIDE DEF q
  <2>4. W!Sell(index[b], b)
    BY <2>2, <2>3 DEF W!Sell
  <2> QED
    BY <2>1, <2>4 DEF W!WNext
<1>3. ASSUME NEW p \in Providers, Provider(p), ~Provide(p)
      PROVE  UNCHANGED <<remains, demands>>
  BY <1>3 DEF Provider, ProviderAcquire, Acquire, ProviderBusy, Load, ProviderRelease
<1>4. ASSUME NEW b \in Buyers, Buyer(b), ~Buy(b)
      PROVE  UNCHANGED <<remains, demands>>
  BY <1>4 DEF Buyer, BuyerWhile, BuyerPeek, Acquire, BuyerBusy, Load, BuyerRelease
<1>5. ASSUME Exit \/ Exited \/ UNCHANGED vars
      PROVE  UNCHANGED <<remains, demands>>
  BY <1>5 DEF Exit, Exited, vars
<1> QED
  BY <1>1, <1>2, <1>3, <1>4, <1>5 DEF Next

(* The threaded simulation implements the abstract warehouse: stocks and    *)
(* demands change only by whole deliveries and by balanced sales.           *)
THEOREM Refinement == Spec => ImplementsWarehouse
<1>1. Init => W!WInit
  BY DEF Init, W!WInit
<1>2. IInv /\ [Next]_vars => [W!WNext]_<<remains, demands>>
  BY StepRefines
<1> QED
  BY <1>1, <1>2, Inductive, PTL DEF Spec, ImplementsWarehouse, W!WSpec, W!wvars

(* All of it together, for any number of threads and storages: the mutexes  *)
(* guard the stocks, and no update is lost and nothing sold twice.          *)
THEOREM Safe == Spec => []StocksSafe
BY Inductive, PTL DEF IInv, StocksSafe
=============================================================================
