------------------------------- MODULE ThreadErrno -------------------------------
(***************************************************************************)
(* les14 my_errno: threads call errno(0), errno(1), ... and print what it  *)
(* returned, a buffer of their own that they find under a key made by      *)
(* whoever comes first.  main creates the threads and joins them in order. *)
(***************************************************************************)
EXTENDS Naturals

CONSTANTS Threads, Calls   \* 3 and 5 in the code

NoBuffer == 0

VARIABLES once,        \* pthread_once: "new", "running" or "done"
          keys,        \* keys created
          mainAt,      \* main: the thread it creates, or joins
          thread,      \* control point of each thread
          specific,    \* its value under the key, forgotten with the key
          buff, called,  \* its variables: buff, and i
          allocated,   \* buffers allocated so far
          text         \* what they hold: the argument of errno

tvars == <<once, keys, mainAt, thread, specific, buff, called, allocated, text>>

Init == /\ once = "new" /\ keys = 0 /\ mainAt = <<"create", 1>>
        /\ thread = [t \in 1..Threads |-> "none"]
        /\ specific = [t \in 1..Threads |-> NoBuffer]
        /\ buff = [t \in 1..Threads |-> NoBuffer] /\ called = [t \in 1..Threads |-> 0]
        /\ allocated = 0 /\ text = [b \in 1..(Threads * Calls) |-> Calls]

Step(t, from, to) == thread[t] = from /\ thread' = [thread EXCEPT ![t] = to]

-----------------------------------------------------------------------------
(* main *)

MainStep(what, condition) ==
    /\ mainAt[1] = what /\ condition
    /\ mainAt' = IF mainAt[2] < Threads THEN <<what, mainAt[2] + 1>>
                 ELSE <<IF what = "create" THEN "join" ELSE "returned", 1>>
    /\ UNCHANGED <<once, keys, specific, buff, called, allocated, text>>

Create == MainStep("create", TRUE) /\ Step(mainAt[2], "none", "once")

(* Mutant: pthread_join does not wait.                                      *)
JoinNothing == MainStep("join", TRUE) /\ UNCHANGED thread

Join == MainStep("join", thread[mainAt[2]] = "ended") /\ UNCHANGED thread

-----------------------------------------------------------------------------
(* A thread *)

(* pthread_once: the first comer runs init_key, the others wait for it.     *)
Once(t) == /\ once = "new" /\ Step(t, "once", "init_key") /\ once' = "running"
           /\ UNCHANGED <<keys, mainAt, specific, buff, called, allocated, text>>

InitKey(t) == /\ Step(t, "init_key", "getspecific")
              /\ keys' = keys + 1 /\ specific' = [u \in 1..Threads |-> NoBuffer]
              /\ once' = "done"
              /\ UNCHANGED <<mainAt, buff, called, allocated, text>>

OnceDone(t) == /\ once = "done" /\ Step(t, "once", "getspecific")
               /\ UNCHANGED <<once, keys, mainAt, specific, buff, called, allocated, text>>

GetSpecific(t) == /\ Step(t, "getspecific", IF specific[t] = NoBuffer THEN "malloc" ELSE "fill")
                  /\ buff' = [buff EXCEPT ![t] = specific[t]]
                  /\ UNCHANGED <<once, keys, mainAt, specific, called, allocated, text>>

Malloc(t) == /\ Step(t, "malloc", "fill")
             /\ allocated' = allocated + 1
             /\ buff' = [buff EXCEPT ![t] = allocated'] /\ specific' = [specific EXCEPT ![t] = allocated']
             /\ UNCHANGED <<once, keys, mainAt, called, text>>

(* The switch; errno returns.                                               *)
Fill(t) == /\ Step(t, "fill", "printf")
           /\ text' = [text EXCEPT ![buff[t]] = called[t]]
           /\ UNCHANGED <<once, keys, mainAt, specific, buff, called, allocated>>

Printf(t) == /\ Step(t, "printf", IF called[t] = Calls - 1 THEN "ended" ELSE "once")
             /\ called' = [called EXCEPT ![t] = @ + 1]
             /\ UNCHANGED <<once, keys, mainAt, specific, buff, allocated, text>>

(* When main returns the process ends.                                      *)
Run(t) ==
    /\ mainAt[1] # "returned"
    /\ \/ Once(t) \/ InitKey(t) \/ OnceDone(t) \/ GetSpecific(t) \/ Malloc(t) \/ Fill(t)
       \/ Printf(t)

Next == Create \/ Join \/ \E t \in 1..Threads : Run(t)

Fairness == WF_tvars(Create \/ Join) /\ \A t \in 1..Threads : WF_tvars(Run(t))

Spec == Init /\ [][Next]_tvars /\ Fairness

-----------------------------------------------------------------------------
(* Properties *)

TypeOK == /\ once \in {"new", "running", "done"} /\ keys \in Nat /\ allocated \in Nat
          /\ thread \in [1..Threads -> {"none", "once", "init_key", "getspecific", "malloc",
                                        "fill", "printf", "ended"}]
          /\ called \in [1..Threads -> 0..Calls]

(* What a thread prints is the answer to its own call, however many other   *)
(* threads call errno between its call and its printf.                      *)
PrintsOwn == \A t \in 1..Threads : thread[t] = "printf" => text[buff[t]] = called[t]

(* Threads that race for the first call make one key, and a thread          *)
(* allocates one buffer for all of its calls.                               *)
OneBufferEach == keys <= 1 /\ allocated <= Threads

(* main returns, with every thread's calls done.                            *)
MainReturns == mainAt[1] = "join" ~>
                   mainAt[1] = "returned" /\ \A t \in 1..Threads : called[t] = Calls

(* Each thread has its own errno for as long as it calls it, and main sees  *)
(* them all to their end.                                                   *)
ThreadsServed == [](PrintsOwn /\ OneBufferEach) /\ MainReturns
=============================================================================
