-------------------------------- MODULE Allocator --------------------------------
(***************************************************************************)
(* les12: good_malloc and good_free, a table of chunks on top of sbrk.     *)
(* good_malloc gives out the first free chunk that is NOT LARGER than the  *)
(* request; good_free compares no chunk with its argument and marks the    *)
(* last one.  The callers use them in any order, as main does in one.      *)
(***************************************************************************)
EXTENDS Naturals, Sequences

CONSTANTS Sizes,      \* requests
          MaxCalls    \* bound

VARIABLES chunk,     \* the table: where each chunk is, its size, whether it is free
          brk,       \* the break, and so the address of the next chunk
          live,      \* blocks the callers hold, the latest last
          calls, tidy

avars == <<chunk, brk, live, calls, tidy>>

Init == /\ chunk = <<>> /\ brk = 0 /\ live = <<>> /\ calls = 0 /\ tidy = TRUE

Block(p, n) == [ptr |-> p, size |-> n]

Fitting(size) == {i \in DOMAIN chunk : chunk[i].isFree /\ chunk[i].size <= size}

(* Callers are tidy while they ask for one size and free what they got last.*)
GoodMalloc(size) ==
    /\ calls < MaxCalls
    /\ IF Fitting(size) # {}
       THEN LET i == CHOOSE i \in Fitting(size) : \A j \in Fitting(size) : i <= j IN
              /\ chunk' = [chunk EXCEPT ![i].isFree = FALSE, ![i].size = size]
              /\ live' = Append(live, Block(chunk[i].ptr, size))
              /\ UNCHANGED brk
       ELSE /\ chunk' = Append(chunk, [ptr |-> brk, size |-> size, isFree |-> FALSE])
            /\ live' = Append(live, Block(brk, size))
            /\ brk' = brk + size
    /\ calls' = calls + 1
    /\ tidy' = (tidy /\ \A i \in DOMAIN chunk : chunk[i].size = size)

Without(k) == [i \in 1..(Len(live) - 1) |-> IF i < k THEN live[i] ELSE live[i + 1]]

(* Mutant: it looks at the table from its first chunk, and marks that.      *)
GoodFreeFirst(k) == /\ calls < MaxCalls
                    /\ chunk' = [chunk EXCEPT ![1].isFree = TRUE]
                    /\ live' = Without(k)
                    /\ calls' = calls + 1 /\ tidy' = (tidy /\ k = Len(live))
                    /\ UNCHANGED brk

(* The break is never lowered: the index it is compared with is one more.   *)
GoodFree(k) == /\ calls < MaxCalls
               /\ chunk' = [chunk EXCEPT ![Len(chunk)].isFree = TRUE]
               /\ live' = Without(k)
               /\ calls' = calls + 1 /\ tidy' = (tidy /\ k = Len(live))
               /\ UNCHANGED brk

Next == \/ \E size \in Sizes : GoodMalloc(size)
        \/ \E k \in DOMAIN live : GoodFree(k)

Spec == Init /\ [][Next]_avars

-----------------------------------------------------------------------------
(* Properties *)

TypeOK == /\ brk \in Nat /\ calls \in 0..MaxCalls /\ tidy \in BOOLEAN
          /\ \A i \in DOMAIN chunk : chunk[i].size \in Sizes /\ chunk[i].isFree \in BOOLEAN
          /\ Len(live) <= Len(chunk)

(* Callers that ask for blocks of one size and free the latest first never  *)
(* get memory that somebody holds, though a chunk may never be found again. *)
(* main is not such a caller: it frees its second block and gets its third. *)
TidyCallersApart ==
    tidy => \A i, j \in DOMAIN live :
                i # j => \/ live[i].ptr + live[i].size <= live[j].ptr
                         \/ live[j].ptr + live[j].size <= live[i].ptr
=============================================================================
