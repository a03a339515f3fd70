-------------------------------- MODULE Checksum --------------------------------
(***************************************************************************)
(* The Internet checksum of les28 and les31: words are added, and a sum    *)
(* that does not fit has its carry added back.  les28 runs until a pointer *)
(* meets the end of the header, les31 counts half of the bytes.            *)
(***************************************************************************)
EXTENDS Integers

CONSTANTS Word,       \* 2^16 in the code
          MaxWords    \* bound

ASSUME WordAssumption == Word \in Nat /\ Word > 1 /\ MaxWords \in Nat

VARIABLES stops,       \* how the loop ends: "?", "pointer", "count" or "returned"
          bytes,       \* length of the header
          added,       \* i
          result,
          sum,         \* history: the sum of the words, as a number
          checksum     \* what was returned

cvars == <<stops, bytes, added, result, sum, checksum>>

Init == /\ stops = "?" /\ bytes = 0 /\ added = 0 /\ result = 0 /\ sum = 0 /\ checksum = 0

Call == /\ stops = "?"
        /\ stops' \in {"pointer", "count"} /\ bytes' \in 0..(2 * MaxWords)
        /\ UNCHANGED <<added, result, sum, checksum>>

(* Mutant: the carry is dropped.                                            *)
DropCarry(total) == IF total > Word - 1 THEN total - Word ELSE total

AddCarry(total) == IF total > Word - 1 THEN total - Word + 1 ELSE total

Add(w) == /\ result' = AddCarry(result + w)
          /\ sum' = sum + w
          /\ added' = added + 1
          /\ UNCHANGED <<stops, bytes, checksum>>

(* A pointer to words never meets the end of an odd number of bytes.        *)
PointerAdd(w) == stops = "pointer" /\ 2 * added # bytes /\ added < MaxWords /\ Add(w)

CountAdd(w) == stops = "count" /\ added < bytes \div 2 /\ Add(w)

Return(done) == /\ done
                /\ checksum' = Word - 1 - result   \* ~result
                /\ stops' = "returned"
                /\ UNCHANGED <<bytes, added, result, sum>>

PointerReturn == Return(stops = "pointer" /\ 2 * added = bytes)
CountReturn == Return(stops = "count" /\ added = bytes \div 2)

Next == \/ Call \/ PointerReturn \/ CountReturn
        \/ \E w \in 0..(Word - 1) : PointerAdd(w) \/ CountAdd(w)

Spec == Init /\ [][Next]_cvars

-----------------------------------------------------------------------------
(* Properties *)

TypeOK == /\ stops \in {"?", "pointer", "count", "returned"} /\ bytes \in Nat /\ added \in Nat
          /\ result \in 0..(Word - 1) /\ checksum \in 0..(Word - 1) /\ sum \in Nat

(* Whoever adds up the words and the checksum gets a multiple of Word - 1,  *)
(* all ones, and a header of zeros is the only one whose checksum is that   *)
(* by itself.                                                               *)
Verifies == stops = "returned" =>
               /\ \E c \in 1..(sum + 1) : sum + checksum = c * (Word - 1)
               /\ sum = 0 <=> checksum = Word - 1
=============================================================================
