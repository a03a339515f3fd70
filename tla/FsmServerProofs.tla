--------------------------- MODULE FsmServerProofs ---------------------------
(***************************************************************************)
(* Proofs about FsmServer for any number of handlers, clients, calls,      *)
(* datagrams and interrupts.                                               *)
(*                                                                         *)
(* None of the safety properties is inductive.  A handler stays only as    *)
(* long as every reason to leave that a process can have (its isExit, its  *)
(* errno, an interrupted call) can be traced to the outside: Reasons.  A   *)
(* handler answers only clients it greeted because the datagrams that wait *)
(* at its socket come from such clients: Senders.  The parent leaves no    *)
(* handler behind because each wait returns another ended child, or there  *)
(* is none alive: Reaping.  Positions ties control points to states.  The  *)
(* accounts of calls balance on top of these: a client is dropped only by  *)
(* a process with a reason to give up.                                     *)
(***************************************************************************)
EXTENDS FsmServer, Counting

NoneAlive == \A h \in Handlers : ~Alive(h)

Reasons == /\ isExit => ~Sound
           /\ state = "CREATE_QUEUE" => ~errno
           /\ state = "ERROR" => errno
           /\ \A h \in Handlers : hExit[h] \/ hErrno[h] \/ pc[h] \in {"EINTR", "ended"} => ~Sound

Senders == \A h \in Handlers : \A k \in DOMAIN inbox[h] : greeted[h][inbox[h][k].from] > 0

Reaping == /\ \A h \in reaped : pc[h] = "ended"
           /\ state \notin {"main_handler", "exit"} => waits = 0 /\ reaped = {}
           /\ state = "main_handler" => waits = Cardinality(reaped) \/ NoneAlive
           /\ state = "exit" => NoneAlive

Positions == /\ state = "QUEUE_CLIENT" => client \in Clients
             /\ \A h \in Handlers : pc[h] \in {"call", "msgrcv", "EINTR"}
                                       => hstate[h] = "WAIT_FOR_CLIENT"

IInv == TypeOK /\ Positions /\ Reasons /\ Senders /\ AnswersOnlyGreeted /\ Reaping

-----------------------------------------------------------------------------
(* Facts about the constants and about sequences *)

LEMMA HandlersFinite == /\ IsFiniteSet(Handlers)
                        /\ Cardinality(Handlers) \in Nat
                        /\ 0 \in 0..Cardinality(Handlers)
BY ServerConstants, FS_CardinalityType

(* As many ended children as there are handlers: all of them.               *)
LEMMA AllReaped == ASSUME NEW S \in SUBSET Handlers, Cardinality(S) = Cardinality(Handlers)
                   PROVE  S = Handlers
BY HandlersFinite, FS_Subset

LEMMA OneMore == ASSUME NEW S \in SUBSET Handlers, NEW h \in Handlers, h \notin S
                 PROVE  /\ Cardinality(S) \in Nat
                        /\ Cardinality(S \cup {h}) = Cardinality(S) + 1
BY HandlersFinite, FS_Subset, FS_CardinalityType, FS_AddElement

(* Taking the first element off a sequence, or adding one at its end.       *)
LEMMA TailRest == ASSUME NEW S, NEW s \in Seq(S), s # <<>>
                  PROVE  /\ Tail(s) \in Seq(S) /\ Head(s) \in S /\ Head(s) = s[1] /\ 1 \in DOMAIN s
                         /\ \A k \in DOMAIN Tail(s) : k + 1 \in DOMAIN s /\ Tail(s)[k] = s[k + 1]
OBVIOUS

LEMMA Element == ASSUME NEW S, NEW s \in Seq(S), NEW k \in DOMAIN s
                 PROVE  s[k] \in S
OBVIOUS

LEMMA AppendLast == ASSUME NEW S, NEW s \in Seq(S), NEW e \in S
                    PROVE  /\ Append(s, e) \in Seq(S)
                           /\ \A k \in DOMAIN Append(s, e) :
                                 \/ k \in DOMAIN s /\ Append(s, e)[k] = s[k]
                                 \/ Append(s, e)[k] = e
OBVIOUS

-----------------------------------------------------------------------------
LEMMA InitIInv == Init => IInv
<1> SUFFICES ASSUME Init PROVE IInv
  OBVIOUS
<1>1. TypeOK
  <2>1. /\ pc \in [Handlers -> {"unborn", "while", "call", "msgrcv", "EINTR", "recvfrom",
                             "sorry", "ended"}]
        /\ hstate \in [Handlers -> {"WAIT_FOR_CLIENT", "TALKING", "ERROR"}]
        /\ hExit \in [Handlers -> BOOLEAN] /\ hErrno \in [Handlers -> BOOLEAN]
    BY DEF Init
  <2>2. /\ peer \in [Handlers -> Clients \cup {NoClient}]
        /\ inbox \in [Handlers -> Seq([from : Clients, short : BOOLEAN])]
        /\ calls \in [Clients -> Nat] /\ greeted \in [Handlers -> [Clients -> Nat]]
    BY DEF Init
  <2>3. sent \in 0..MaxSent /\ interrupts \in 0..MaxInterrupts
    BY ServerConstants DEF Init
  <2>4. queue \in Seq(Clients) /\ client \in Clients \cup {NoClient}
    BY DEF Init
  <2>5. /\ state = "CREATE_QUEUE" /\ isExit \in BOOLEAN /\ errno \in BOOLEAN /\ fd \in BOOLEAN
        /\ i \in 0..Cardinality(Handlers) /\ waits \in 0..Cardinality(Handlers)
        /\ reaped \subseteq Handlers
    BY HandlersFinite DEF Init
  <2> QED
    BY <2>1, <2>2, <2>3, <2>4, <2>5 DEF TypeOK
<1>2. Positions /\ Reasons /\ Senders /\ AnswersOnlyGreeted
  BY DEF Init, Positions, Reasons, Sound, Senders, AnswersOnlyGreeted
<1>3. Reaping
  BY DEF Init, Reaping
<1> QED
  BY <1>1, <1>2, <1>3 DEF IInv

(* What is true of handlers and sockets stays true if they stay as they are. *)
LEMMA SameTalk == ASSUME IInv, UNCHANGED <<hstate, peer, greeted, inbox>>
                  PROVE  Senders' /\ AnswersOnlyGreeted'
BY DEF IInv, Senders, AnswersOnlyGreeted

(* The parent's steps until main_handler runs leave handlers and sockets    *)
(* alone, except that a fork starts one.                                    *)
LEMMA ParentIInv == ASSUME IInv, Parent PROVE IInv'
<1> USE HandlersFinite DEF IInv
<1>1. CASE Return
  BY <1>1, SameTalk DEF Return, handlerVars, TypeOK, Positions, Reasons, Sound, Reaping, NoneAlive, Alive
<1>2. CASE CreateQueue
  BY <1>2, SameTalk DEF CreateQueue, In, handlerVars, TypeOK, Positions, Reasons, Sound, Reaping,
      NoneAlive, Alive
<1>3. CASE CreateHandlers
  BY <1>3, SameTalk DEF CreateHandlers, In, handlerVars, TypeOK, Positions, Reasons, Sound, Reaping,
      NoneAlive, Alive
<1>4. CASE ForkFails
  <2>1. i' \in 0..Cardinality(Handlers)
    BY <1>4 DEF ForkFails, TypeOK
  <2>2. TypeOK'
    BY <1>4, <2>1 DEF ForkFails, handlerVars, TypeOK
  <2> QED
    BY <1>4, <2>2, SameTalk DEF ForkFails, handlerVars, Positions, Reasons, Sound, Reaping, NoneAlive, Alive
<1>5. ASSUME NEW h \in Handlers, Fork(h) PROVE IInv'
  <2>1. i' \in 0..Cardinality(Handlers)
    BY <1>5 DEF Fork, TypeOK
  <2>2. TypeOK'
    BY <1>5, <2>1 DEF Fork, TypeOK
  <2>3. Positions' /\ Reasons'
    BY <1>5 DEF Fork, TypeOK, Positions, Reasons, Sound
  <2>4. Reaping'
    BY <1>5 DEF Fork, TypeOK, Reaping, NoneAlive, Alive
  <2> QED
    BY <1>5, <2>2, <2>3, <2>4, SameTalk DEF Fork
<1>6. CASE Forked
  BY <1>6, SameTalk DEF Forked, handlerVars, TypeOK, Positions, Reasons, Sound, Reaping, NoneAlive, Alive
<1>7. CASE QueueClient
  <2>1. queue' \in Seq(Clients)
    BY <1>7, AppendLast DEF QueueClient, In, Positions, TypeOK
  <2>2. TypeOK'
    BY <1>7, <2>1 DEF QueueClient, In, handlerVars, TypeOK
  <2> QED
    BY <1>7, <2>2, SameTalk DEF QueueClient, In, handlerVars, Positions, Reasons, Sound, Reaping,
        NoneAlive, Alive
<1>8. CASE Default
  BY <1>8, SameTalk DEF Default, In, handlerVars, TypeOK, Positions, Reasons, Sound, Reaping, NoneAlive, Alive
<1>9. CASE Wait
  <2>1. waits' \in 0..Cardinality(Handlers)
    BY <1>9 DEF Wait, TypeOK
  <2>2. CASE \E h \in {g \in Handlers : pc[g] = "ended"} \ reaped : reaped' = reaped \cup {h}
    <3>1. PICK h \in Handlers : pc[h] = "ended" /\ h \notin reaped /\ reaped' = reaped \cup {h}
      BY <2>2
    <3>2. Cardinality(reaped') = Cardinality(reaped) + 1
      BY <3>1, OneMore DEF TypeOK
    <3>3. TypeOK'
      BY <1>9, <2>1, <3>1 DEF Wait, handlerVars, TypeOK
    <3>4. Reaping'
      BY <1>9, <3>1, <3>2 DEF Wait, handlerVars, Reaping, NoneAlive, Alive
    <3> QED
      BY <1>9, <3>3, <3>4, SameTalk DEF Wait, handlerVars, Positions, Reasons, Sound
  <2>3. CASE NoneAlive /\ UNCHANGED reaped
    <3>1. TypeOK'
      BY <1>9, <2>1, <2>3 DEF Wait, handlerVars, TypeOK
    <3>2. Reaping'
      BY <1>9, <2>3 DEF Wait, handlerVars, Reaping, NoneAlive, Alive
    <3> QED
      BY <1>9, <3>1, <3>2, SameTalk DEF Wait, handlerVars, Positions, Reasons, Sound
  <2> QED
    BY <1>9, <2>2, <2>3 DEF Wait, NoneAlive
<1>10. CASE Exit
  <2>1. waits = Cardinality(reaped) => reaped = Handlers
    BY <1>10, AllReaped DEF Exit, TypeOK
  <2>2. NoneAlive
    BY <1>10, <2>1 DEF Exit, Reaping, NoneAlive, Alive
  <2>3. Reaping'
    BY <1>10, <2>2 DEF Exit, handlerVars, Reaping, NoneAlive, Alive
  <2> QED
    BY <1>10, <2>3, SameTalk DEF Exit, handlerVars, TypeOK, Positions, Reasons, Sound
<1> QED
  BY <1>1, <1>2, <1>3, <1>4, <1>5, <1>6, <1>7, <1>8, <1>9, <1>10 DEF Parent

(* A handler's step disturbs neither the parent nor the other handlers.     *)
LEMMA HandlerIInv == ASSUME IInv, NEW h \in Handlers, Handler(h) PROVE IInv'
<1> USE DEF IInv
<1>1. CASE While(h)
  <2>1. TypeOK' /\ Positions'
    BY <1>1 DEF While, At, Goto, parentVars, TypeOK, Positions
  <2>2. Reasons'
    BY <1>1 DEF While, At, Goto, parentVars, TypeOK, Reasons, Sound
  <2>3. Reaping'
    BY <1>1 DEF While, At, Goto, parentVars, TypeOK, Reaping, NoneAlive, Alive
  <2> QED
    BY <1>1, <2>1, <2>2, <2>3, SameTalk DEF While
<1>2. CASE Call(h)
  <2>1. TypeOK' /\ Positions'
    BY <1>2 DEF Call, At, Goto, parentVars, TypeOK, Positions
  <2>2. Reasons' /\ Reaping'
    BY <1>2 DEF Call, At, Goto, parentVars, TypeOK, Reasons, Sound, Reaping, NoneAlive, Alive
  <2> QED
    BY <1>2, <2>1, <2>2, SameTalk DEF Call
<1>3. CASE Take(h)
  <2>1. Head(queue) \in Clients /\ Tail(queue) \in Seq(Clients)
    BY <1>3, TailRest DEF Take, TypeOK
  <2> DEFINE c == Head(queue)
             more == [greeted EXCEPT ![h][c] = @ + 1]
  <2>a. greeted[h] \in [Clients -> Nat] /\ greeted[h][c] \in Nat
    BY <2>1 DEF TypeOK
  <2>b. /\ more \in [Handlers -> [Clients -> Nat]]
        /\ more[h][c] = greeted[h][c] + 1
        /\ \A g \in Handlers, d \in Clients : more[g][d] >= greeted[g][d]
    <3> DEFINE one == [greeted[h] EXCEPT ![c] = @ + 1]
    <3>1. /\ one \in [Clients -> Nat] /\ one[c] = greeted[h][c] + 1
          /\ \A d \in Clients : one[d] >= greeted[h][d]
      BY <2>1, <2>a
    <3>2. more = [greeted EXCEPT ![h] = one]
      BY DEF TypeOK
    <3> HIDE DEF one, more, c
    <3>3. /\ more \in [Handlers -> [Clients -> Nat]] /\ more[h] = one
          /\ \A g \in Handlers \ {h} : more[g] = greeted[g]
      BY <3>1, <3>2 DEF TypeOK
    <3>4. \A g \in Handlers, d \in Clients : greeted[g][d] \in Nat
      BY DEF TypeOK
    <3> QED
      BY <3>1, <3>3, <3>4
  <2>c. greeted' = greeted \/ greeted' = more
    BY <1>3 DEF Take
  <2>2. /\ greeted' \in [Handlers -> [Clients -> Nat]]
        /\ \A g \in Handlers, d \in Clients : greeted[g][d] > 0 => greeted'[g][d] > 0
    <3> HIDE DEF more
    <3>1. \A g \in Handlers, d \in Clients : greeted[g][d] \in Nat /\ more[g][d] \in Nat
      BY <2>b DEF TypeOK
    <3>2. CASE greeted' = greeted
      BY <3>2 DEF TypeOK
    <3>3. CASE greeted' = more
      <4>1. more \in [Handlers -> [Clients -> Nat]]
        BY <2>b
      <4>2. \A g \in Handlers, d \in Clients : greeted[g][d] > 0 => more[g][d] > 0
        BY <3>1, <2>b
      <4> QED
        BY <3>3, <4>1, <4>2
    <3> QED
      BY <2>c, <3>2, <3>3
  <2>d. /\ hstate[h] = "WAIT_FOR_CLIENT"
        /\ hstate'[h] # "WAIT_FOR_CLIENT" => greeted' = more
        /\ peer'[h] = c
        /\ \A g \in Handlers \ {h} : hstate'[g] = hstate[g] /\ peer'[g] = peer[g]
    BY <1>3 DEF Take, At, TypeOK, Positions
  <2>3. TypeOK' /\ Positions'
    BY <1>3, <2>1, <2>2 DEF Take, At, Goto, parentVars, TypeOK, Positions
  <2>4. Reasons'
    BY <1>3 DEF Take, At, Goto, parentVars, TypeOK, Reasons, Sound
  <2>5. Reaping'
    BY <1>3 DEF Take, At, Goto, parentVars, TypeOK, Reaping, NoneAlive, Alive
  <2>6. Senders'
    <3>1. ASSUME NEW g \in Handlers, NEW k \in DOMAIN inbox[g]
          PROVE  greeted'[g][inbox[g][k].from] > 0
      <4>1. inbox[g][k].from \in Clients
        <5>1. inbox[g] \in Seq([from : Clients, short : BOOLEAN])
          BY DEF TypeOK
        <5>2. inbox[g][k] \in [from : Clients, short : BOOLEAN]
          BY <5>1, Element
        <5> QED
          BY <5>2
      <4>2. greeted[g][inbox[g][k].from] > 0
        BY DEF Senders
      <4> QED
        BY <2>2, <4>1, <4>2
    <3> QED
      BY <1>3, <3>1 DEF Take, Senders
  <2>7. AnswersOnlyGreeted'
    <3>1. ASSUME NEW g \in Handlers, hstate'[g] \in {"TALKING", "ERROR"}
          PROVE  peer'[g] \in Clients /\ greeted'[g][peer'[g]] > 0
      <4>1. CASE g = h
        BY <3>1, <4>1, <2>1, <2>a, <2>b, <2>d
      <4>2. CASE g # h
        <5> HIDE DEF more
        <5> QED
          BY <3>1, <4>2, <2>2, <2>d DEF AnswersOnlyGreeted
      <4> QED
        BY <4>1, <4>2
    <3> QED
      BY <3>1 DEF AnswersOnlyGreeted
  <2> QED
    BY <2>3, <2>4, <2>5, <2>6, <2>7
<1>4. CASE Interrupted(h)
  <2>1. TypeOK' /\ Positions'
    BY <1>4 DEF Interrupted, At, Goto, parentVars, TypeOK, Positions
  <2>2. Reasons'
    BY <1>4 DEF Interrupted, At, Goto, parentVars, TypeOK, Reasons, Sound
  <2>3. Reaping'
    BY <1>4 DEF Interrupted, At, Goto, parentVars, TypeOK, Reaping, NoneAlive, Alive
  <2> QED
    BY <1>4, <2>1, <2>2, <2>3, SameTalk DEF Interrupted
<1>5. CASE Talk(h)
  <2> DEFINE Datagrams == [from : Clients, short : BOOLEAN]
  <2>1. inbox[h] \in Seq(Datagrams) /\ inbox[h] # <<>>
    BY <1>5 DEF Talk, TypeOK
  <2>2. /\ Tail(inbox[h]) \in Seq(Datagrams) /\ Head(inbox[h]) \in Datagrams
        /\ Head(inbox[h]) = inbox[h][1] /\ 1 \in DOMAIN inbox[h]
        /\ \A k \in DOMAIN Tail(inbox[h]) :
              k + 1 \in DOMAIN inbox[h] /\ Tail(inbox[h])[k] = inbox[h][k + 1]
    BY <2>1, TailRest
  <2>3. TypeOK' /\ Positions'
    BY <1>5, <2>2 DEF Talk, At, Goto, parentVars, TypeOK, Positions
  <2>4. Reasons' /\ Reaping'
    BY <1>5 DEF Talk, At, Goto, parentVars, TypeOK, Reasons, Sound, Reaping, NoneAlive, Alive
  <2>5. Senders'
    <3>1. greeted' = greeted /\ inbox' = [inbox EXCEPT ![h] = Tail(@)]
          /\ inbox \in [Handlers -> Seq(Datagrams)]
      BY <1>5 DEF Talk, TypeOK
    <3>2. \A g \in Handlers \ {h} : inbox'[g] = inbox[g]
      BY <3>1
    <3>3. inbox'[h] = Tail(inbox[h])
      BY <3>1
    <3>4. \A k \in DOMAIN Tail(inbox[h]) : greeted[h][Tail(inbox[h])[k].from] > 0
      BY <2>2 DEF Senders
    <3> QED
      BY <3>1, <3>2, <3>3, <3>4 DEF Senders
  <2>6. AnswersOnlyGreeted'
    BY <1>5, <2>2 DEF Talk, TypeOK, Senders, AnswersOnlyGreeted
  <2> QED
    BY <2>3, <2>4, <2>5, <2>6
<1>6. CASE Sorry(h)
  <2>1. TypeOK' /\ Positions'
    BY <1>6 DEF Sorry, At, Goto, parentVars, TypeOK, Positions
  <2>2. Reasons' /\ Reaping'
    BY <1>6 DEF Sorry, At, Goto, parentVars, TypeOK, Reasons, Sound, Reaping, NoneAlive, Alive
  <2>3. Senders' /\ AnswersOnlyGreeted'
    BY <1>6 DEF Sorry, TypeOK, Senders, AnswersOnlyGreeted
  <2> QED
    BY <2>1, <2>2, <2>3
<1> QED
  BY <1>1, <1>2, <1>3, <1>4, <1>5, <1>6 DEF Handler

LEMMA ClientIInv == ASSUME IInv, NEW c \in Clients,
                           WaitForClient(c) \/ \E h \in Handlers : Say(c, h)
                    PROVE  IInv'
<1> USE DEF IInv
<1>1. CASE WaitForClient(c)
  BY <1>1, SameTalk DEF WaitForClient, In, handlerVars, TypeOK, Positions, Reasons, Sound,
      Reaping, NoneAlive, Alive
<1>2. ASSUME NEW h \in Handlers, Say(c, h) PROVE IInv'
  <2> DEFINE Datagrams == [from : Clients, short : BOOLEAN]
  <2>1. PICK short \in BOOLEAN :
          inbox' = [inbox EXCEPT ![h] = Append(@, [from |-> c, short |-> short])]
    BY <1>2 DEF Say
  <2> DEFINE d == [from |-> c, short |-> short]
  <2>2. inbox[h] \in Seq(Datagrams) /\ d \in Datagrams /\ d.from = c
    BY DEF TypeOK
  <2> HIDE DEF d
  <2>3. /\ Append(inbox[h], d) \in Seq(Datagrams)
        /\ \A k \in DOMAIN Append(inbox[h], d) :
              \/ k \in DOMAIN inbox[h] /\ Append(inbox[h], d)[k] = inbox[h][k]
              \/ Append(inbox[h], d)[k] = d
    BY <2>2, AppendLast
  <2>4. inbox' = [inbox EXCEPT ![h] = Append(inbox[h], d)]
    BY <2>1 DEF d, TypeOK
  <2>5. sent' \in 0..MaxSent
    BY <1>2, ServerConstants DEF Say, TypeOK
  <2>6. TypeOK' /\ Positions'
    BY <1>2, <2>3, <2>4, <2>5 DEF Say, parentVars, handlerVars, TypeOK, Positions
  <2>7. Senders'
    BY <1>2, <2>2, <2>3, <2>4 DEF Say, handlerVars, TypeOK, Senders
  <2> QED
    BY <1>2, <2>6, <2>7 DEF Say, parentVars, handlerVars, Reasons, Sound, AnswersOnlyGreeted,
        Reaping, NoneAlive, Alive
<1> QED
  BY <1>1, <1>2

LEMMA InterruptIInv == ASSUME IInv, Interrupt PROVE IInv'
<1> USE DEF IInv
<1>1. interrupts' \in 0..MaxInterrupts /\ interrupts' > 0
  BY ServerConstants DEF Interrupt, TypeOK
<1>2. TypeOK' /\ Positions'
  BY <1>1 DEF Interrupt, At, TypeOK, Positions
<1>3. Reasons'
  BY <1>1 DEF Interrupt, Installed, Reasons, Sound
<1>4. \A h \in Handlers : Alive(h)' <=> Alive(h)
  BY DEF Interrupt, At, Alive, TypeOK
<1>5. Reaping'
  BY <1>4, HandlersFinite, FS_EmptySet DEF Interrupt, At, TypeOK, Reaping, NoneAlive
<1> QED
  BY <1>2, <1>3, <1>5, SameTalk DEF Interrupt

LEMMA NextIInv == IInv /\ [Next]_vars => IInv'
<1> SUFFICES ASSUME IInv, [Next]_vars PROVE IInv'
  OBVIOUS
<1>1. CASE UNCHANGED vars
  <2> USE <1>1 DEF vars, parentVars, handlerVars, IInv
  <2>1. TypeOK'
    BY DEF TypeOK
  <2>2. Positions' /\ Reasons'
    BY DEF Positions, Reasons, Sound
  <2>3. Reaping'
    BY DEF Reaping, NoneAlive, Alive
  <2> QED
    BY <2>1, <2>2, <2>3, SameTalk
<1> QED
  BY <1>1, ParentIInv, HandlerIInv, ClientIInv, InterruptIInv DEF Next

LEMMA Inductive == Spec => []IInv
BY InitIInv, NextIInv, PTL DEF Spec

-----------------------------------------------------------------------------
(* The accounts of the calls: each is held by the parent, queued or greeted *)

(* The hellos of all handlers to one client, for any table of greetings.    *)
LEMMA RowSum ==
    ASSUME NEW G \in [Handlers -> [Clients -> Nat]], NEW c \in Clients
    PROVE  /\ SumFunction([h \in Handlers |-> G[h][c]])
                 = SumFunctionOnSet([h \in Handlers |-> G[h][c]], Handlers)
           /\ SumFunction([h \in Handlers |-> G[h][c]]) \in Nat
<1>1. SumFunction([h \in Handlers |-> G[h][c]])
         = SumFunctionOnSet([h \in Handlers |-> G[h][c]], Handlers)
  BY DEF SumFunction
<1>2. \A h \in Handlers : [g \in Handlers |-> G[g][c]][h] \in Nat
  OBVIOUS
<1> QED
  BY <1>1, <1>2, HandlersFinite, SumNat

LEMMA AccountTypes ==
    ASSUME TypeOK, NEW c \in Clients
    PROVE  /\ Hellos(c) \in Nat /\ Queued(c) \in Nat /\ Held(c) \in {0, 1} /\ calls[c] \in Nat
           /\ Hellos(c) = SumFunctionOnSet([h \in Handlers |-> greeted[h][c]], Handlers)
           /\ Queued(c) = Cardinality(Places(queue, c))
<1>1. Hellos(c) = SumFunctionOnSet([h \in Handlers |-> greeted[h][c]], Handlers)
      /\ Hellos(c) \in Nat
  BY RowSum DEF TypeOK, Hellos
<1>4. Queued(c) = Cardinality(Places(queue, c))
  BY DEF Queued, Places
<1>5. queue \in Seq(Clients) /\ calls[c] \in Nat
  BY DEF TypeOK
<1>6. Cardinality(Places(queue, c)) \in Nat
  BY <1>5, PlacesFinite
<1>7. Held(c) \in {0, 1}
  BY DEF Held
<1> QED
  BY <1>1, <1>4, <1>5, <1>6, <1>7

LEMMA InitCalls == Init => EveryCallGreetedOnce
<1> SUFFICES ASSUME Init, NEW c \in Clients
             PROVE  Hellos(c) + Queued(c) + Held(c) = 0 /\ calls[c] = 0
  BY DEF EveryCallGreetedOnce
<1>1. TypeOK
  BY InitIInv DEF IInv
<1>2. \A h \in Handlers : [g \in Handlers |-> greeted[g][c]][h] = 0
  BY DEF Init
<1>3. Hellos(c) = 0
  BY <1>1, <1>2, AccountTypes, HandlersFinite, SumZero
<1>4. Places(queue, c) = {}
  BY DEF Init, Places
<1>5. Queued(c) = 0 /\ Held(c) = 0 /\ calls[c] = 0
  BY <1>1, <1>4, AccountTypes, FS_EmptySet DEF Init, Held
<1> QED
  BY <1>3, <1>5

(* Nobody has a reason to give up a client who had one before.              *)
LEMMA SoundBefore == ASSUME IInv, [Next]_vars PROVE Sound' => Sound
<1>1. fd' = fd
  BY DEF Next, Parent, Handler, vars, Return, CreateQueue, CreateHandlers, ForkFails, Fork, Forked,
     QueueClient, Default, Wait, Exit, Interrupt, While, Call, Take, Interrupted, Talk, Sorry,
     WaitForClient, Say
<1>2. errno' = errno \/ errno' = TRUE \/ state = "CREATE_QUEUE"
  BY DEF Next, Parent, Handler, vars, parentVars, Return, CreateQueue, In, CreateHandlers, ForkFails,
     Fork, Forked, QueueClient, Default, Wait, Exit, Interrupt, While, Call, Take, Interrupted,
     Talk, Sorry, WaitForClient, Say
<1>3. interrupts' = interrupts \/ interrupts' > 0
  BY DEF Next, Parent, Handler, vars, Return, CreateQueue, CreateHandlers, ForkFails, Fork, Forked,
     QueueClient, Default, Wait, Exit, Interrupt, While, Call, Take, Interrupted, Talk, Sorry,
     WaitForClient, Say, IInv, TypeOK
<1> QED
  BY <1>1, <1>2, <1>3 DEF Sound, IInv, Reasons

(* Most steps leave the accounts alone.                                     *)
LEMMA SameAccounts ==
    ASSUME IInv, EveryCallGreetedOnce, [Next]_vars,
           UNCHANGED <<greeted, queue, calls>>,
           state' = "QUEUE_CLIENT" <=> state = "QUEUE_CLIENT", client' = client
    PROVE  EveryCallGreetedOnce'
<1> SUFFICES ASSUME NEW c \in Clients
             PROVE  Hellos(c)' = Hellos(c) /\ Queued(c)' = Queued(c) /\ Held(c)' = Held(c)
  BY SoundBefore DEF EveryCallGreetedOnce
<1>1. Held(c)' = Held(c)
  BY DEF Held
<1> QED
  BY <1>1 DEF Hellos, Queued

LEMMA WaitForClientCalls ==
    ASSUME IInv, EveryCallGreetedOnce, NEW c \in Clients, WaitForClient(c)
    PROVE  EveryCallGreetedOnce'
<1>1. state = "WAIT_FOR_CLIENT" /\ state' = "QUEUE_CLIENT" /\ client' = c
      /\ calls' = [calls EXCEPT ![c] = @ + 1] /\ UNCHANGED <<greeted, queue, errno, fd, interrupts>>
  BY DEF WaitForClient, In, handlerVars
<1> SUFFICES ASSUME NEW d \in Clients
             PROVE  /\ Hellos(d)' + Queued(d)' + Held(d)' <= calls'[d]
                    /\ Sound' => Hellos(d)' + Queued(d)' + Held(d)' = calls'[d]
  BY DEF EveryCallGreetedOnce
<1>2. Hellos(d)' = Hellos(d) /\ Queued(d)' = Queued(d) /\ Sound' = Sound
  BY <1>1 DEF Hellos, Queued, Sound
<1>3. Held(d) = 0 /\ Held(d)' = IF c = d THEN 1 ELSE 0
  BY <1>1 DEF Held
<1>4. Hellos(d) \in Nat /\ Queued(d) \in Nat /\ calls[d] \in Nat /\ calls \in [Clients -> Nat]
  BY AccountTypes DEF IInv, TypeOK
<1>5. /\ Hellos(d) + Queued(d) + 0 <= calls[d]
      /\ Sound => Hellos(d) + Queued(d) + 0 = calls[d]
  BY <1>3 DEF EveryCallGreetedOnce
<1>6. CASE c = d
  <2>1. Held(d)' = 1 /\ calls'[d] = calls[d] + 1
    BY <1>1, <1>3, <1>4, <1>6
  <2> QED
    BY <1>2, <1>4, <1>5, <2>1
<1>7. CASE c # d
  <2>1. Held(d)' = 0 /\ calls'[d] = calls[d]
    BY <1>1, <1>3, <1>4, <1>7
  <2> QED
    BY <1>2, <1>4, <1>5, <2>1
<1> QED
  BY <1>6, <1>7

LEMMA QueueClientCalls ==
    ASSUME IInv, EveryCallGreetedOnce, QueueClient PROVE EveryCallGreetedOnce'
<1>1. state = "QUEUE_CLIENT" /\ state' = "WAIT_FOR_CLIENT" /\ queue' = Append(queue, client)
      /\ UNCHANGED <<client, greeted, calls, errno, fd, interrupts>>
  BY DEF QueueClient, In, handlerVars
<1>2. queue \in Seq(Clients) /\ client \in Clients
  BY <1>1 DEF IInv, TypeOK, Positions
<1> SUFFICES ASSUME NEW d \in Clients
             PROVE  /\ Hellos(d)' + Queued(d)' + Held(d)' = Hellos(d) + Queued(d) + Held(d)
                    /\ calls'[d] = calls[d] /\ Sound' = Sound
  BY DEF EveryCallGreetedOnce
<1>3. Hellos(d)' = Hellos(d) /\ calls'[d] = calls[d] /\ Sound' = Sound
  BY <1>1 DEF Hellos, Sound
<1>4. Held(d)' = 0 /\ Held(d) = IF client = d THEN 1 ELSE 0
  BY <1>1 DEF Held
<1>5. Hellos(d) \in Nat /\ Queued(d) \in Nat /\ Queued(d) = Cardinality(Places(queue, d))
  BY AccountTypes DEF IInv
<1>6. Queued(d)' = Cardinality(Places(Append(queue, client), d))
  BY <1>1 DEF Queued, Places
<1>7. CASE client = d
  <2>1. Queued(d)' = Queued(d) + 1
    BY <1>2, <1>5, <1>6, <1>7, PlacesAppend
  <2> QED
    BY <1>3, <1>4, <1>5, <1>7, <2>1
<1>8. CASE client # d
  <2>1. Queued(d)' = Queued(d)
    BY <1>2, <1>5, <1>6, <1>8, PlacesAppend
  <2> QED
    BY <1>3, <1>4, <1>5, <1>8, <2>1
<1> QED
  BY <1>7, <1>8

(* A client leaves the queue for its hello, or for nothing when the handler *)
(* has a reason to give up.                                                 *)
LEMMA TakeCalls ==
    ASSUME IInv, EveryCallGreetedOnce, NEW h \in Handlers, Take(h) PROVE EveryCallGreetedOnce'
<1> DEFINE c == Head(queue)
           row(d) == [g \in Handlers |-> greeted[g][d]]
           more(d) == [g \in Handlers |-> greeted'[g][d]]
<1>1. queue # <<>> /\ queue' = Tail(queue)
      /\ UNCHANGED <<state, client, calls, errno, fd, interrupts>>
  BY DEF Take, parentVars
<1>2. queue \in Seq(Clients) /\ c \in Clients /\ TypeOK /\ TypeOK'
  <2>1. IInv'
    BY HandlerIInv DEF Handler
  <2> QED
    BY <1>1, <2>1, TailRest DEF IInv, TypeOK
<1> SUFFICES ASSUME NEW d \in Clients
             PROVE  /\ Hellos(d)' + Queued(d)' + Held(d)' <= calls'[d]
                    /\ Sound' => Hellos(d)' + Queued(d)' + Held(d)' = calls'[d]
  BY DEF EveryCallGreetedOnce
<1>3. /\ Queued(d) = Cardinality(Places(queue, d)) /\ Queued(d)' = Cardinality(Places(queue', d))
      /\ Cardinality(Places(queue, d)) \in Nat /\ Cardinality(Places(queue', d)) \in Nat
      /\ Cardinality(Places(queue, d)) =
            Cardinality(Places(queue', d)) + (IF c = d THEN 1 ELSE 0)
  <2>1. Queued(d) = Cardinality(Places(queue, d)) /\ Queued(d)' = Cardinality(Places(queue', d))
    BY DEF Queued, Places
  <2>2. queue' \in Seq(Clients)
    BY <1>2 DEF TypeOK
  <2> QED
    BY <1>1, <1>2, <2>1, <2>2, PlacesFinite, PlacesTail
<1>4. /\ Hellos(d) = SumFunctionOnSet(row(d), Handlers) /\ Hellos(d) \in Nat
      /\ Hellos(d)' = SumFunctionOnSet(more(d), Handlers) /\ Hellos(d)' \in Nat
  BY <1>2, RowSum DEF TypeOK, Hellos
<1>5. ASSUME fd \/ hErrno[h]
      PROVE  ~Sound /\ Hellos(d)' + Queued(d)' <= Hellos(d) + Queued(d)
  <2>1. ~Sound /\ greeted' = greeted
    BY <1>5 DEF Take, IInv, Reasons, Sound
  <2>2. Hellos(d)' = Hellos(d)
    BY <2>1 DEF Hellos
  <2> QED
    BY <1>3, <1>4, <2>1, <2>2
<1>6. ASSUME ~(fd \/ hErrno[h])
      PROVE  Hellos(d)' + Queued(d)' = Hellos(d) + Queued(d)
  <2>1. greeted' = [greeted EXCEPT ![h][c] = @ + 1]
    BY <1>6 DEF Take
  <2>2. \A g \in Handlers : row(d)[g] \in Nat /\ more(d)[g] \in Nat
    BY <1>2 DEF TypeOK
  <2>3. \A g \in Handlers \ {h} : more(d)[g] = row(d)[g]
    BY <1>2, <2>1 DEF TypeOK
  <2>4. more(d)[h] = row(d)[h] + (IF c = d THEN 1 ELSE 0)
    <3>1. greeted[h] \in [Clients -> Nat] /\ greeted'[h] = [greeted[h] EXCEPT ![c] = @ + 1]
      BY <1>2, <2>1 DEF TypeOK
    <3>2. c = d => greeted'[h][d] = greeted[h][d] + 1
      BY <1>2, <3>1
    <3>3. c # d => greeted'[h][d] = greeted[h][d]
      BY <1>2, <3>1
    <3>4. greeted[h][d] \in Nat
      BY <3>1
    <3> HIDE DEF c
    <3> QED
      BY <3>2, <3>3, <3>4
  <2> HIDE DEF row, more, c
  <2>5. SumFunctionOnSet(more(d), Handlers) + row(d)[h] = SumFunctionOnSet(row(d), Handlers) + more(d)[h]
    BY <2>2, <2>3, HandlersFinite, SumChange
  <2>6. row(d)[h] \in Nat
    BY <2>2
  <2>7. CASE c = d
    BY <1>3, <1>4, <2>4, <2>5, <2>6, <2>7
  <2>8. CASE c # d
    BY <1>3, <1>4, <2>4, <2>5, <2>6, <2>8
  <2> QED
    BY <2>7, <2>8
<1>7. /\ Hellos(d)' + Queued(d)' <= Hellos(d) + Queued(d)
      /\ Sound => Hellos(d)' + Queued(d)' = Hellos(d) + Queued(d)
  <2>1. CASE fd \/ hErrno[h]
    BY <1>5, <2>1
  <2>2. CASE ~(fd \/ hErrno[h])
    BY <1>3, <1>4, <1>6, <2>2
  <2> QED
    BY <2>1, <2>2
<1>8. Held(d)' = Held(d) /\ calls'[d] = calls[d] /\ Sound' = Sound
  BY <1>1 DEF Held, Sound
<1>9. Held(d) \in {0, 1} /\ calls[d] \in Nat
  <2>1. TypeOK
    BY DEF IInv
  <2> QED
    BY <2>1, AccountTypes
<1> QED
  BY <1>3, <1>4, <1>7, <1>8, <1>9 DEF EveryCallGreetedOnce

(* Ctrl-C may leave a client with the parent for good.                      *)
LEMMA InterruptCalls ==
    ASSUME IInv, EveryCallGreetedOnce, Interrupt PROVE EveryCallGreetedOnce'
<1>1. ~Sound' /\ UNCHANGED <<greeted, queue, calls, client>>
      /\ (state' = state \/ state' = "main_handler")
  BY DEF Interrupt, Sound, IInv, TypeOK
<1> SUFFICES ASSUME NEW d \in Clients
             PROVE  Hellos(d)' + Queued(d)' + Held(d)' <= calls'[d]
  BY <1>1 DEF EveryCallGreetedOnce
<1>2. Hellos(d)' = Hellos(d) /\ Queued(d)' = Queued(d) /\ calls'[d] = calls[d]
  BY <1>1 DEF Hellos, Queued
<1>3. Held(d)' \in {0, 1} /\ Held(d)' <= Held(d)
  BY <1>1 DEF Held
<1>4. TypeOK
  BY DEF IInv
<1>5. Hellos(d) \in Nat /\ Queued(d) \in Nat /\ Held(d) \in {0, 1} /\ calls[d] \in Nat
  BY <1>4, AccountTypes
<1>6. Hellos(d) + Queued(d) + Held(d) <= calls[d]
  BY DEF EveryCallGreetedOnce
<1> QED
  BY <1>2, <1>3, <1>5, <1>6

LEMMA NextCalls ==
    ASSUME IInv, EveryCallGreetedOnce, [Next]_vars PROVE EveryCallGreetedOnce'
<1>1. CASE \E c \in Clients : WaitForClient(c)
  BY <1>1, WaitForClientCalls
<1>2. CASE QueueClient
  BY <1>2, QueueClientCalls
<1>3. CASE \E h \in Handlers : Take(h)
  BY <1>3, TakeCalls
<1>4. CASE Interrupt
  BY <1>4, InterruptCalls
<1>5. CASE \/ Return \/ CreateQueue \/ CreateHandlers \/ ForkFails
           \/ (\E h \in Handlers : Fork(h))
           \/ Forked \/ Default \/ Wait \/ Exit \/ UNCHANGED vars
  <2>1. UNCHANGED <<greeted, queue, calls, client>>
        /\ (state' = "QUEUE_CLIENT" <=> state = "QUEUE_CLIENT")
    BY <1>5 DEF Return, CreateQueue, CreateHandlers, ForkFails, Fork, Forked, Default, Wait, Exit,
       In, vars, parentVars, handlerVars
  <2> QED
    BY <2>1, SameAccounts
<1>6. ASSUME NEW h \in Handlers, While(h) \/ Call(h) \/ Interrupted(h) \/ Talk(h) \/ Sorry(h)
      PROVE  EveryCallGreetedOnce'
  <2>1. UNCHANGED <<greeted, queue, calls, client, state>>
    BY <1>6 DEF While, Call, Interrupted, Talk, Sorry, parentVars
  <2> QED
    BY <2>1, SameAccounts
<1>7. ASSUME NEW c \in Clients, NEW h \in Handlers, Say(c, h) PROVE EveryCallGreetedOnce'
  <2>1. UNCHANGED <<greeted, queue, calls, client, state>>
    BY <1>7 DEF Say, parentVars, handlerVars
  <2> QED
    BY <2>1, SameAccounts
<1> QED
  BY <1>1, <1>2, <1>3, <1>4, <1>5, <1>6, <1>7 DEF Next, Parent, Handler

-----------------------------------------------------------------------------
(* Every variable keeps its type; in particular main_handler never waits    *)
(* more often than main forked.                                             *)
THEOREM TypeCorrect == Spec => []TypeOK
BY Inductive, PTL DEF IInv

(* The sender of every datagram a handler answers has had its hello.        *)
THEOREM NoStrangers == Spec => []AnswersOnlyGreeted
BY Inductive, PTL DEF IInv

(* No traffic of clients, in any order and number, ends a handler.          *)
THEOREM PoolIntact == Spec => []HandlerStays
<1>1. IInv => HandlerStays
  BY DEF IInv, Reasons, HandlerStays, At
<1> QED
  BY <1>1, Inductive, PTL

(* When the parent's exit in main_handler is reached all children have      *)
(* ended, however many forks failed and whatever order they end in.         *)
THEOREM NobodyLeftBehind == Spec => []NoOrphansAfterExit
<1>1. IInv => NoOrphansAfterExit
  BY DEF IInv, Reaping, NoneAlive, NoOrphansAfterExit
<1> QED
  BY <1>1, Inductive, PTL

(* Every call of a client is in the parent's hands, in the queue or greeted *)
(* exactly once, as long as no process has a reason to give up; and never   *)
(* more than once, whatever happens.                                        *)
THEOREM CallsGreetedOnce == Spec => []EveryCallGreetedOnce
<1>1. IInv /\ EveryCallGreetedOnce /\ [Next]_vars => EveryCallGreetedOnce'
  BY NextCalls
<1> QED
  BY <1>1, InitCalls, Inductive, PTL DEF Spec

(* All of it together: the pool answers only its clients, loses no handler  *)
(* without a cause, leaves none behind and greets every call once.          *)
THEOREM PoolIsSound == Spec => []PoolSound
BY TypeCorrect, NoStrangers, PoolIntact, NobodyLeftBehind, CallsGreetedOnce, PTL DEF PoolSound

-----------------------------------------------------------------------------
(* FsmServer implements Switchboard *)

(* The queue is no longer than it may be; who waits for a datagram has a    *)
(* client.                                                                  *)
Seated == /\ Len(queue) <= QueueCapacity
          /\ \A h \in Handlers : pc[h] = "recvfrom" => hstate[h] # "WAIT_FOR_CLIENT"

LEMMA NextSeated == ASSUME IInv, Seated, [Next]_vars PROVE Seated'
<1>1. queue \in Seq(Clients) /\ Len(queue) \in Nat /\ QueueCapacity \in Nat
  BY ServerConstants DEF IInv, TypeOK
<1>2. Len(queue') <= QueueCapacity
  <2>1. CASE QueueClient
    <3>1. client \in Clients /\ queue' = Append(queue, client) /\ Len(queue) < QueueCapacity
      BY <2>1 DEF QueueClient, In, IInv, Positions
    <3> QED
      BY <1>1, <3>1
  <2>2. ASSUME NEW h \in Handlers, Take(h) PROVE Len(queue') <= QueueCapacity
    <3>1. queue # <<>> /\ queue' = Tail(queue)
      BY <2>2 DEF Take
    <3>2. Len(queue') <= Len(queue) /\ Len(queue') \in Nat
      BY <1>1, <3>1
    <3> QED
      BY <1>1, <3>2 DEF Seated
  <2>3. CASE ~QueueClient /\ \A h \in Handlers : ~Take(h)
    <3>1. queue' = queue
      BY <2>3 DEF Next, Parent, Handler, vars, Return, CreateQueue, CreateHandlers, ForkFails, Fork,
         Forked, Default, Wait, Exit, Interrupt, While, Call, Interrupted, Talk, Sorry,
         WaitForClient, Say
    <3> QED
      BY <3>1 DEF Seated
  <2> QED
    BY <2>1, <2>2, <2>3
<1>3. ASSUME NEW h \in Handlers, pc'[h] = "recvfrom" PROVE hstate'[h] # "WAIT_FOR_CLIENT"
  <2>1. pc \in [Handlers -> {"unborn", "while", "call", "msgrcv", "EINTR", "recvfrom", "sorry", "ended"}]
    BY DEF IInv, TypeOK
  <2>2. CASE Parent \/ UNCHANGED vars \/ \E c \in Clients : WaitForClient(c) \/ \E g \in Handlers : Say(c, g)
    <3>1. hstate' = hstate
      BY <2>2 DEF Parent, Return, CreateQueue, CreateHandlers, ForkFails, Fork, Forked, QueueClient,
         Default, Wait, Exit, WaitForClient, Say, vars, handlerVars
    <3>2. pc' = pc \/ \E g \in Handlers : pc' = [pc EXCEPT ![g] = "while"]
      BY <2>2 DEF Parent, Return, CreateQueue, CreateHandlers, ForkFails, Fork, Forked, QueueClient,
         Default, Wait, Exit, WaitForClient, Say, vars, handlerVars
    <3> QED
      BY <1>3, <2>1, <3>1, <3>2 DEF Seated
  <2>3. CASE Interrupt
    BY <1>3, <2>1, <2>3 DEF Interrupt, At, Seated
  <2>4. ASSUME NEW g \in Handlers, Handler(g) PROVE hstate'[h] # "WAIT_FOR_CLIENT"
    <3>1. CASE g = h
      BY <1>3, <2>1, <2>4, <3>1 DEF Handler, While, Call, Take, Interrupted, Talk, Sorry, Goto
    <3>2. CASE g # h
      <4>1. pc'[h] = pc[h] /\ hstate'[h] = hstate[h]
        BY <2>1, <2>4, <3>2 DEF Handler, While, Call, Take, Interrupted, Talk, Sorry, Goto, IInv, TypeOK
      <4> QED
        BY <1>3, <4>1 DEF Seated
    <3> QED
      BY <3>1, <3>2
  <2> QED
    BY <2>2, <2>3, <2>4 DEF Next
<1> QED
  BY <1>2, <1>3 DEF Seated

(* The calls that wait: in the queue, and in the hands of the parent.       *)
Callers == queue \o (IF state = "QUEUE_CLIENT" THEN <<client>> ELSE <<>>)
Busy == {h \in Handlers : hstate[h] # "WAIT_FOR_CLIENT"}

LEMMA CallersAre ==
    ASSUME IInv
    PROVE  /\ queue \in Seq(Clients) /\ Callers \in Seq(Clients)
           /\ state # "QUEUE_CLIENT" => Callers = queue
           /\ state = "QUEUE_CLIENT" => client \in Clients /\ Callers = Append(queue, client)
<1>1. queue \in Seq(Clients) /\ (state = "QUEUE_CLIENT" => client \in Clients)
  BY DEF IInv, TypeOK, Positions
<1> QED
  BY <1>1 DEF Callers

(* The first caller is the first one in the queue, and the others stay.     *)
LEMMA CallersTail ==
    ASSUME IInv, queue # <<>>, queue' = Tail(queue), UNCHANGED <<state, client>>
    PROVE  Callers # <<>> /\ Head(Callers) = Head(queue) /\ Callers' = Tail(Callers)
<1> DEFINE r == IF state = "QUEUE_CLIENT" THEN <<client>> ELSE <<>>
<1>1. queue \in Seq(Clients) /\ r \in Seq(Clients)
  BY DEF IInv, TypeOK, Positions
<1>2. Callers = queue \o r /\ Callers' = Tail(queue) \o r
  BY DEF Callers
<1> HIDE DEF r
<1>3. queue \o r # <<>> /\ Head(queue \o r) = Head(queue) /\ Tail(queue \o r) = Tail(queue) \o r
  BY <1>1
<1> QED
  BY <1>2, <1>3

LEMMA BoardStep ==
    ASSUME IInv, Seated, [Next]_vars
    PROVE  [Board!SNext]_<<calls, Callers, greeted, Busy, Sound>>
<1>1. ASSUME NEW c \in Clients, WaitForClient(c)
      PROVE  Board!Call(c)
  <2>1. /\ state = "WAIT_FOR_CLIENT" /\ state' = "QUEUE_CLIENT" /\ client' = c
        /\ calls' = [calls EXCEPT ![c] = @ + 1]
        /\ UNCHANGED <<queue, greeted, hstate, fd, errno, interrupts>>
    BY <1>1 DEF WaitForClient, In, handlerVars
  <2>2. Callers = queue /\ Callers' = Append(queue, c)
    BY <2>1, CallersAre DEF Callers
  <2>3. Busy' = Busy /\ Sound' = Sound
    BY <2>1 DEF Busy, Sound
  <2>4. Len(Callers) <= QueueCapacity /\ Callers' = Append(Callers, c)
    BY <2>2 DEF Seated
  <2> QED
    BY <2>1, <2>3, <2>4 DEF Board!Call, Callers, Busy
<1>2. CASE QueueClient
  <2>1. /\ state = "QUEUE_CLIENT" /\ state' = "WAIT_FOR_CLIENT" /\ queue' = Append(queue, client)
        /\ UNCHANGED <<calls, greeted, hstate, fd, errno, interrupts>>
    BY <1>2 DEF QueueClient, In, handlerVars
  <2>2. queue' \in Seq(Clients) /\ Callers = Append(queue, client)
    BY <2>1, CallersAre
  <2>3. Callers' = queue'
    BY <2>1, <2>2 DEF Callers
  <2> QED
    BY <2>1, <2>2, <2>3 DEF Busy, Sound
<1>3. ASSUME NEW h \in Handlers, Take(h)
      PROVE  Board!Greet(h) \/ Board!GiveUp
  <2>1. /\ queue # <<>> /\ queue' = Tail(queue) /\ hstate[h] = "WAIT_FOR_CLIENT"
        /\ UNCHANGED <<state, client, calls, fd, errno, interrupts>>
    BY <1>3 DEF Take, At, parentVars, IInv, Positions
  <2>2. Callers # <<>> /\ Head(Callers) = Head(queue) /\ Callers' = Tail(Callers) /\ Sound' = Sound
    BY <2>1, CallersTail DEF Sound
  <2>3. CASE fd \/ hErrno[h]
    <3>1. ~Sound /\ UNCHANGED <<greeted, hstate>>
      BY <1>3, <2>3 DEF Take, IInv, Reasons, Sound
    <3>2. Busy' = Busy
      BY <3>1 DEF Busy
    <3> QED
      BY <2>1, <2>2, <3>1, <3>2 DEF Board!GiveUp, Callers, Busy
  <2>4. CASE ~(fd \/ hErrno[h])
    <3>1. hstate' = [hstate EXCEPT ![h] = "TALKING"]
          /\ greeted' = [greeted EXCEPT ![h][Head(Callers)] = @ + 1]
      BY <1>3, <2>2, <2>4 DEF Take
    <3>2. h \notin Busy /\ Busy' = Busy \cup {h}
      BY <2>1, <3>1 DEF Busy, IInv, TypeOK
    <3> QED
      BY <2>1, <2>2, <3>1, <3>2 DEF Board!Greet, Callers, Busy
  <2> QED
    BY <2>3, <2>4
<1>4. ASSUME NEW h \in Handlers, Sorry(h)
      PROVE  Board!GoodBye(h) \/ UNCHANGED <<calls, Callers, greeted, Busy, Sound>>
  <2>1. /\ hstate' = [hstate EXCEPT ![h] = "WAIT_FOR_CLIENT"]
        /\ UNCHANGED <<calls, queue, state, client, greeted, fd, errno, interrupts>>
    BY <1>4 DEF Sorry, parentVars
  <2>2. Busy' = Busy \ {h} /\ Callers' = Callers /\ Sound' = Sound
    BY <2>1 DEF Busy, Callers, Sound, IInv, TypeOK
  <2>3. CASE h \in Busy
    BY <2>1, <2>2, <2>3 DEF Board!GoodBye, Callers, Busy
  <2>4. CASE h \notin Busy
    BY <2>1, <2>2, <2>4
  <2> QED
    BY <2>3, <2>4
<1>5. CASE Interrupt \/ CreateQueue \/ ForkFails
  <2>1. /\ UNCHANGED <<calls, queue, client, greeted, hstate>>
        /\ \/ state' = state \/ (state # "QUEUE_CLIENT" /\ state' # "QUEUE_CLIENT")
           \/ Interrupt /\ state' = "main_handler"
    BY <1>5 DEF Interrupt, CreateQueue, In, ForkFails, handlerVars
  <2>2. (UNCHANGED <<fd, errno, interrupts>> /\ ~Interrupt) \/ ~Sound'
    <3>1. CASE Interrupt
      BY <3>1 DEF Interrupt, Sound, IInv, TypeOK
    <3>2. CASE CreateQueue /\ ~Interrupt
      BY <3>2 DEF CreateQueue, In, Sound, IInv, TypeOK, Reasons
    <3>3. CASE ForkFails
      BY <3>3 DEF ForkFails, Sound
    <3> QED
      BY <1>5, <3>1, <3>2, <3>3
  <2>3. \/ Callers' = Callers
        \/ Callers # <<>> /\ Callers' = SubSeq(Callers, 1, Len(Callers) - 1)
    <3>1. CASE state' = state
      BY <2>1, <3>1 DEF Callers
    <3>2. CASE state # "QUEUE_CLIENT" /\ state' # "QUEUE_CLIENT"
      BY <2>1, <3>2 DEF Callers
    <3>3. CASE state = "QUEUE_CLIENT" /\ state' # "QUEUE_CLIENT"
      <4>1. queue \in Seq(Clients) /\ client \in Clients /\ Callers = Append(queue, client)
        BY <3>3, CallersAre
      <4>2. Callers' = queue
        BY <2>1, <3>3, <4>1 DEF Callers
      <4>3. Append(queue, client) # <<>> /\ Len(Append(queue, client)) - 1 = Len(queue)
            /\ SubSeq(Append(queue, client), 1, Len(queue)) = queue
        BY <4>1
      <4> QED
        BY <4>1, <4>2, <4>3
    <3> QED
      BY <2>1, <3>1, <3>2, <3>3
  <2>4. Busy' = Busy
    BY <2>1 DEF Busy
  <2>5. CASE ~Sound'
    BY <2>1, <2>3, <2>4, <2>5 DEF Board!Trouble, Board!SNext, Callers, Busy
  <2>6. CASE Sound'
    <3>1. Sound' = Sound
      BY <2>2, <2>6 DEF Sound
    <3>2. Callers' = Callers
      BY <2>1, <2>2, <2>6 DEF Callers
    <3> QED
      BY <2>1, <2>4, <3>1, <3>2
  <2> QED
    BY <2>5, <2>6
<1>6. ASSUME NEW h \in Handlers, While(h) \/ Call(h) \/ Interrupted(h) \/ Talk(h)
      PROVE  UNCHANGED <<calls, Callers, greeted, Busy, Sound>>
  <2>1. UNCHANGED <<calls, queue, state, client, greeted, fd, errno, interrupts>>
    BY <1>6 DEF While, Call, Interrupted, Talk, parentVars
  <2>2. hstate' = hstate \/ (hstate[h] # "WAIT_FOR_CLIENT" /\ \E s \in {"TALKING", "ERROR"} :
                                hstate' = [hstate EXCEPT ![h] = s])
    <3>1. CASE Talk(h)
      <4>1. hstate[h] \in {"TALKING", "ERROR"} /\ hstate \in [Handlers -> {"WAIT_FOR_CLIENT", "TALKING", "ERROR"}]
        BY <3>1 DEF Talk, At, Seated, IInv, TypeOK
      <4>2. hstate' = [hstate EXCEPT ![h] = IF Head(inbox[h]).short THEN "ERROR" ELSE hstate[h]]
        BY <3>1 DEF Talk
      <4> QED
        BY <4>1, <4>2
    <3>2. CASE While(h) \/ Call(h) \/ Interrupted(h)
      BY <3>2 DEF While, Call, Interrupted
    <3> QED
      BY <1>6, <3>1, <3>2
  <2>3. Busy' = Busy
    BY <2>2 DEF Busy, IInv, TypeOK
  <2> QED
    BY <2>1, <2>3 DEF Callers, Sound
<1>7. CASE \/ Return \/ CreateHandlers \/ (\E h \in Handlers : Fork(h)) \/ Forked \/ Default
           \/ Wait \/ Exit \/ (\E c \in Clients, h \in Handlers : Say(c, h)) \/ UNCHANGED vars
  <2>1. /\ UNCHANGED <<calls, queue, client, greeted, hstate, fd, errno, interrupts>>
        /\ state' = state \/ (state # "QUEUE_CLIENT" /\ state' # "QUEUE_CLIENT")
    BY <1>7 DEF Return, CreateHandlers, Fork, Forked, Default, In, Wait, Exit, Say, vars, parentVars,
       handlerVars
  <2>2. Callers' = Callers
    BY <2>1 DEF Callers
  <2> QED
    BY <2>1, <2>2 DEF Busy, Sound
<1> QED
  <2>1. UNCHANGED <<calls, Callers, greeted, Busy, Sound>>
            => [Board!SNext]_<<calls, Callers, greeted, Busy, Sound>>
    OBVIOUS
  <2>2. Board!SNext => [Board!SNext]_<<calls, Callers, greeted, Busy, Sound>>
    OBVIOUS
  <2>3. ASSUME NEW h \in Handlers, Handler(h)
        PROVE  [Board!SNext]_<<calls, Callers, greeted, Busy, Sound>>
    BY <1>3, <1>4, <1>6, <2>1, <2>2, <2>3 DEF Handler, Board!SNext
  <2>4. ASSUME NEW c \in Clients, WaitForClient(c) PROVE Board!SNext
    BY <1>1, <2>4 DEF Board!SNext
  <2> QED
    BY <1>2, <1>5, <1>7, <2>1, <2>2, <2>3, <2>4 DEF Next, Parent

(* The server and its handlers implement the switchboard: a call waits from *)
(* the moment the parent has it, a handler that takes it from the queue is  *)
(* given it, and whatever else the processes do moves no call.              *)
THEOREM Refinement == Spec => ImplementsSwitchboard
<1>1. Init => Board!SInit /\ Seated
  <2>1. ASSUME Init PROVE Callers = <<>> /\ Busy = {} /\ Sound \in BOOLEAN
    BY <2>1 DEF Init, Callers, Busy, Sound
  <2>2. ASSUME Init PROVE Board!SInit
    BY <2>1, <2>2 DEF Init, Board!SInit, Callers, Busy
  <2>3. ASSUME Init PROVE Seated
    <3>1. Len(queue) = 0 /\ QueueCapacity \in Nat
      BY <2>3, ServerConstants DEF Init
    <3> QED
      BY <2>3, <3>1 DEF Init, Seated
  <2> QED
    BY <2>2, <2>3
<1>2. IInv /\ Seated /\ [Next]_vars => Seated'
  BY NextSeated
<1>3. IInv /\ Seated /\ [Next]_vars => [Board!SNext]_(Board!svars)
  BY BoardStep DEF Board!svars, Callers, Busy
<1> QED
  BY <1>1, <1>2, <1>3, Inductive, PTL DEF Spec, ImplementsSwitchboard, Board!SSpec
=============================================================================
