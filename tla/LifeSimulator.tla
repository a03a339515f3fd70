---------------------------- MODULE LifeSimulator ----------------------------
(***************************************************************************)
(* les14_threads/src/lifeSimulator.c: provider threads fill storages and   *)
(* buyer threads empty them; each storage has a mutex that is only ever    *)
(* taken with pthread_mutex_trylock.                                       *)
(*                                                                         *)
(* A control point stands between any two accesses to shared memory: the   *)
(* unlocked test of remains (peek), the trylock (try), the load and the    *)
(* store of a read-modify-write on remains, the unlock.  demands[b] is     *)
(* touched by buyer b alone, so its update is part of the store.  Sleeps   *)
(* and printing change no state.  A thread not created yet is one that has *)
(* not been scheduled yet, so every thread exists initially.               *)
(***************************************************************************)
EXTENDS Integers

CONSTANTS N_STORAGES, Buyers, Providers, NoThread,
          START_DEMAND, START_AMOUNT, PROV_AMOUNT, BUY_RESTRICT,
          MaxStock   \* bound: a provider waits rather than exceed it

Threads == Buyers \cup Providers
Storages == 0..(N_STORAGES - 1)

ASSUME SimulatorConstants ==
    /\ N_STORAGES \in Nat \ {0}
    /\ Buyers \cap Providers = {}
    /\ NoThread \notin Threads
    /\ START_DEMAND \in Nat /\ START_AMOUNT \in Nat
    /\ PROV_AMOUNT \in Nat /\ BUY_RESTRICT \in Nat
    /\ MaxStock \in Nat

VARIABLES remains,      \* stock of each storage
          storage_mut,  \* thread holding each mutex, or NoThread
          demands,      \* what each buyer still wants
          pc,           \* control point of each thread
          index,        \* storage_index of each thread's for loop
          loaded,       \* value of remains a thread loaded under the mutex
          exited        \* main has joined the buyers and returned

vars == <<remains, storage_mut, demands, pc, index, loaded, exited>>

Init == /\ remains = [s \in Storages |-> START_AMOUNT]
        /\ storage_mut = [s \in Storages |-> NoThread]
        /\ demands = [b \in Buyers |-> START_DEMAND]
        /\ pc = [t \in Threads |-> IF t \in Buyers THEN "while" ELSE "try"]
        /\ index = [t \in Threads |-> 0]
        /\ loaded = [t \in Threads |-> 0]
        /\ exited = FALSE

-----------------------------------------------------------------------------
Go(t, from, to) == /\ ~exited /\ pc[t] = from
                   /\ pc' = [pc EXCEPT ![t] = to]

(* One turn of a thread's for loop ends; after the last storage the loop   *)
(* ends and the thread is back at the control point `outer`.               *)
NextStorage(t, from, inner, outer) ==
    /\ Go(t, from, IF index[t] + 1 < N_STORAGES THEN inner ELSE outer)
    /\ index' = [index EXCEPT ![t] =
                    IF index[t] + 1 < N_STORAGES THEN @ + 1 ELSE 0]

(* Mutant: the result of the trylock is not looked at.                      *)
AcquireUnchecked(t) == /\ Go(t, "try", "load")
                       /\ storage_mut' = [storage_mut EXCEPT ![index[t]] = t]
                       /\ UNCHANGED <<remains, demands, index, loaded, exited>>

(* pthread_mutex_trylock returned 0. *)
Acquire(t) == /\ storage_mut[index[t]] = NoThread
              /\ Go(t, "try", "load")
              /\ storage_mut' = [storage_mut EXCEPT ![index[t]] = t]
              /\ UNCHANGED <<remains, demands, index, loaded, exited>>

(* pthread_mutex_trylock returned EBUSY. *)
Busy(t) == storage_mut[index[t]] # NoThread

Load(t) == /\ Go(t, "load", "store")
           /\ loaded' = [loaded EXCEPT ![t] = remains[index[t]]]
           /\ UNCHANGED <<remains, storage_mut, demands, index, exited>>

Release(t) == storage_mut' = [storage_mut EXCEPT ![index[t]] = NoThread]

-----------------------------------------------------------------------------
(* provider_logic *)

Fits(p) == remains[index[p]] + PROV_AMOUNT <= MaxStock

ProviderAcquire(p) == Fits(p) /\ Acquire(p)

ProviderBusy(p) == /\ Busy(p)
                   /\ NextStorage(p, "try", "try", "try")
                   /\ UNCHANGED <<remains, storage_mut, demands, loaded, exited>>

Provide(p) == /\ Go(p, "store", "unlock")
              /\ remains' = [remains EXCEPT ![index[p]] = loaded[p] + PROV_AMOUNT]
              /\ UNCHANGED <<storage_mut, demands, index, loaded, exited>>

(* The unlock is followed by the break out of the for loop. *)
ProviderRelease(p) == /\ Go(p, "unlock", "try")
                      /\ Release(p)
                      /\ index' = [index EXCEPT ![p] = 0]
                      /\ UNCHANGED <<remains, demands, loaded, exited>>

-----------------------------------------------------------------------------
(* buyer_logic *)

(* Mutant: >= 0 instead of > 0.                                             *)
BuyerWhileForever(b) ==
    /\ Go(b, "while", IF demands[b] >= 0 THEN "peek" ELSE "done")
    /\ UNCHANGED <<remains, storage_mut, demands, index, loaded, exited>>

BuyerWhile(b) == /\ Go(b, "while", IF demands[b] > 0 THEN "peek" ELSE "done")
                 /\ UNCHANGED <<remains, storage_mut, demands, index, loaded, exited>>

(* The left operand of the && reads remains without the mutex. *)
BuyerPeek(b) ==
    \/ /\ remains[index[b]] > 0
       /\ Go(b, "peek", "try")
       /\ UNCHANGED <<remains, storage_mut, demands, index, loaded, exited>>
    \/ /\ remains[index[b]] <= 0
       /\ NextStorage(b, "peek", "peek", "while")
       /\ UNCHANGED <<remains, storage_mut, demands, loaded, exited>>

BuyerBusy(b) == /\ Busy(b)
                /\ NextStorage(b, "try", "peek", "while")
                /\ UNCHANGED <<remains, storage_mut, demands, loaded, exited>>

(* The quantity buy takes when the storage holds `have`. *)
Quantity(have, wanted) ==
    CASE have <= 0 -> 0
      [] have > 0 /\ have <= BUY_RESTRICT /\ wanted >= have -> have
      [] have > 0 /\ have <= BUY_RESTRICT /\ wanted < have -> wanted
      [] have > BUY_RESTRICT /\ wanted >= BUY_RESTRICT -> BUY_RESTRICT
      [] have > BUY_RESTRICT /\ wanted < BUY_RESTRICT -> wanted

(* Mutant: a branch that forgets to lower the demand.                       *)
BuyUnaccounted(b) ==
    /\ Go(b, "store", "unlock")
    /\ remains' = [remains EXCEPT ![index[b]] = loaded[b] - Quantity(loaded[b], demands[b])]
    /\ UNCHANGED <<storage_mut, demands, index, loaded, exited>>

Buy(b) == LET q == Quantity(loaded[b], demands[b])
          IN  /\ Go(b, "store", "unlock")
              /\ remains' = [remains EXCEPT ![index[b]] = loaded[b] - q]
              /\ demands' = [demands EXCEPT ![b] = @ - q]
              /\ UNCHANGED <<storage_mut, index, loaded, exited>>

(* Mutant: the loop goes on without the unlock.                             *)
BuyerKeepsMutex(b) == /\ NextStorage(b, "unlock", "peek", "while")
                      /\ UNCHANGED <<remains, storage_mut, demands, loaded, exited>>

BuyerRelease(b) == /\ NextStorage(b, "unlock", "peek", "while")
                   /\ Release(b)
                   /\ UNCHANGED <<remains, demands, loaded, exited>>

-----------------------------------------------------------------------------
(* main joins every buyer; returning from it ends the provider threads.    *)
Exit == /\ ~exited
        /\ \A b \in Buyers : pc[b] = "done"
        /\ exited' = TRUE
        /\ UNCHANGED <<remains, storage_mut, demands, pc, index, loaded>>

Exited == exited /\ UNCHANGED vars

Provider(p) == \/ ProviderAcquire(p) \/ ProviderBusy(p) \/ Load(p)
               \/ Provide(p) \/ ProviderRelease(p)

Buyer(b) == \/ BuyerWhile(b) \/ BuyerPeek(b) \/ Acquire(b) \/ BuyerBusy(b)
            \/ Load(b) \/ Buy(b) \/ BuyerRelease(b)

Next == \/ \E p \in Providers : Provider(p)
        \/ \E b \in Buyers : Buyer(b)
        \/ Exit
        \/ Exited

Spec == Init /\ [][Next]_vars

(* The kernel schedules every runnable thread; nothing orders them.        *)
FairSpec == /\ Spec
            /\ \A p \in Providers : WF_vars(Provider(p))
            /\ \A b \in Buyers : WF_vars(Buyer(b))
            /\ WF_vars(Exit)

-----------------------------------------------------------------------------
(* Properties *)

Critical == {"load", "store", "unlock"}   \* between the trylock and the unlock

TypeOK ==
    /\ remains \in [Storages -> Int]
    /\ storage_mut \in [Storages -> Threads \cup {NoThread}]
    /\ demands \in [Buyers -> Int]
    /\ pc \in [Threads -> {"while", "peek", "try", "done"} \cup Critical]
    /\ index \in [Threads -> Storages]
    /\ loaded \in [Threads -> Int]
    /\ exited \in BOOLEAN

(* A mutex names a thread exactly while that thread works on that storage:  *)
(* no unlock hits a mutex of somebody else, no path leaves one locked.      *)
LockDiscipline ==
    \A t \in Threads, s \in Storages :
        storage_mut[s] = t <=> (pc[t] \in Critical /\ index[t] = s)

(* Nobody changes a stock between a thread's load and its store of it, so   *)
(* no `remains[storage_index] += / -=` loses another thread's update.       *)
NoLostUpdate == \A t \in Threads : pc[t] = "store" => loaded[t] = remains[index[t]]

(* buy never takes more than there is nor more than is wanted, although the *)
(* test that let the buyer in read remains without the mutex.               *)
NoOverselling == /\ \A s \in Storages : remains[s] >= 0
                 /\ \A b \in Buyers : demands[b] >= 0

W == INSTANCE Warehouse WITH stock <- remains, want <- demands

(* Whatever the interleaving, stocks and demands move only by whole         *)
(* deliveries and by sales that take the same quantity off both sides.      *)
ImplementsWarehouse == W!WSpec

(* A storage that is locked is unlocked again, unless main has returned.    *)
LockReleased ==
    \A s \in Storages :
        storage_mut[s] # NoThread ~> (storage_mut[s] = NoThread \/ exited)

(* A buyer whose demand is met leaves buyer_logic, however busy the mutexes *)
(* of the storages it still walks over are, so that main can join it.       *)
SatisfiedBuyerStops == \A b \in Buyers : demands[b] = 0 ~> pc[b] = "done"

(* What the mutexes are for: each storage is worked on by one thread that   *)
(* holds its mutex, no update is lost, and nothing is sold twice.           *)
StocksSafe == TypeOK /\ LockDiscipline /\ NoLostUpdate /\ NoOverselling
=============================================================================
