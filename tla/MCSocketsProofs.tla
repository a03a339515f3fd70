---------------------------- MODULE MCSocketsProofs -----------------------------
(* What the socket programs keep, whichever of them is chosen.              *)
EXTENDS MCSockets, TLAPS

(* A step is one of the chosen program, and the others stand still.         *)
LEMMA OneProgram ==
    ASSUME [Step]_vars
    PROVE  [MS!Next]_msVars /\ [TC!Next]_tcVars /\ [TR!Next]_trVars /\ [EX!Next]_exVars
           /\ [Next]_cvars
BY DEF Step, vars, Choose, Les19, Les20, Les22, Les28, Sums

-----------------------------------------------------------------------------
(* The checksum of les28 and les31 *)

(* The result is the sum of the words less the carries, each of which took  *)
(* Word - 1 away, and only words of 0 make a result of 0.                   *)
Carried == \E c \in 0..sum : sum = result + c * (Word - 1)

Returned == stops = "returned" => checksum = Word - 1 - result

ChecksumIInv == TypeOK /\ Carried /\ (result = 0 <=> sum = 0) /\ Returned

(* Adding a word keeps all that: it makes one carry or none.                *)
LEMMA AddSteps ==
    ASSUME ChecksumIInv, NEW w \in 0..(Word - 1), Add(w), stops # "returned"
    PROVE  ChecksumIInv'
  <1> USE WordAssumption
  <1>1. TypeOK'
    BY DEF ChecksumIInv, TypeOK, Add, AddCarry
  <1>2. (result = 0 <=> sum = 0)'
    BY DEF ChecksumIInv, TypeOK, Add, AddCarry
  <1>3. Carried'
    <2>1. PICK c \in 0..sum : sum = result + c * (Word - 1)
      BY DEF ChecksumIInv, Carried
    <2>2. CASE result + w > Word - 1
      <3>1. w >= 1
        BY <2>2 DEF ChecksumIInv, TypeOK
      <3>2. c + 1 \in 0..sum'
        BY <3>1, <2>1 DEF ChecksumIInv, TypeOK, Add
      <3>3. (c + 1) * (Word - 1) = c * (Word - 1) + Word - 1
        BY <2>1 DEF ChecksumIInv, TypeOK
      <3>4. c * (Word - 1) \in Int
        BY <2>1 DEF ChecksumIInv, TypeOK
      <3>5. sum' = result' + (c + 1) * (Word - 1)
        BY <2>1, <2>2, <3>3, <3>4 DEF ChecksumIInv, TypeOK, Add, AddCarry
      <3> QED BY <3>2, <3>5 DEF Carried
    <2>3. CASE ~(result + w > Word - 1)
      <3>1. c \in 0..sum'
        BY <2>1 DEF ChecksumIInv, TypeOK, Add
      <3>2. c * (Word - 1) \in Int
        BY <2>1 DEF ChecksumIInv, TypeOK
      <3>3. sum' = result' + c * (Word - 1)
        BY <2>1, <2>3, <3>2 DEF ChecksumIInv, TypeOK, Add, AddCarry
      <3> QED BY <3>1, <3>3 DEF Carried
    <2> QED BY <2>2, <2>3
  <1>4. Returned'
    BY DEF Returned, Add
  <1> QED BY <1>1, <1>2, <1>3, <1>4 DEF ChecksumIInv

LEMMA ChecksumStarts == Init => ChecksumIInv
<1> SUFFICES ASSUME Init PROVE ChecksumIInv
  OBVIOUS
<1>1. Carried
  <2>1. 0 \in 0..sum /\ sum = result + 0 * (Word - 1)
    BY WordAssumption DEF Init
  <2> QED
    BY <2>1 DEF Carried
<1> QED
  BY <1>1, WordAssumption DEF Init, ChecksumIInv, TypeOK, Returned

LEMMA ChecksumSteps == ChecksumIInv /\ [Next]_cvars => ChecksumIInv'
<1> SUFFICES ASSUME ChecksumIInv, [Next]_cvars PROVE ChecksumIInv'
  OBVIOUS
<1> USE WordAssumption
<1>1. CASE Call
  BY <1>1 DEF Call, ChecksumIInv, TypeOK, Carried, Returned
<1>2. CASE PointerReturn
  BY <1>2 DEF PointerReturn, Return, ChecksumIInv, TypeOK, Carried, Returned
<1>3. CASE CountReturn
  BY <1>3 DEF CountReturn, Return, ChecksumIInv, TypeOK, Carried, Returned
<1>4. ASSUME NEW w \in 0..(Word - 1), PointerAdd(w) \/ CountAdd(w) PROVE ChecksumIInv'
  <2>1. Add(w) /\ stops # "returned"
    BY <1>4 DEF PointerAdd, CountAdd
  <2> QED
    BY <2>1, AddSteps
<1>5. CASE UNCHANGED cvars
  BY <1>5 DEF cvars, ChecksumIInv, TypeOK, Carried, Returned
<1> QED
  BY <1>1, <1>2, <1>3, <1>4, <1>5 DEF Next

(* The words and the checksum together add up to all ones, whatever the     *)
(* width and the number of the words.                                       *)
THEOREM ChecksumVerifies == Lessons => []Verifies
<1>1. ChecksumIInv => Verifies
  <2> USE WordAssumption
  <2> SUFFICES ASSUME ChecksumIInv, stops = "returned"
               PROVE  /\ \E c \in 1..(sum + 1) : sum + checksum = c * (Word - 1)
                      /\ sum = 0 <=> checksum = Word - 1
    BY DEF Verifies
  <2>1. PICK c \in 0..sum : sum = result + c * (Word - 1)
    BY DEF ChecksumIInv, Carried
  <2>2. (c + 1) * (Word - 1) = c * (Word - 1) + Word - 1 /\ c * (Word - 1) \in Int
    BY <2>1 DEF ChecksumIInv, TypeOK
  <2>3. sum + checksum = (c + 1) * (Word - 1)
    BY <2>1, <2>2 DEF ChecksumIInv, TypeOK, Returned
  <2>4. c + 1 \in 1..(sum + 1)
    BY <2>1 DEF ChecksumIInv, TypeOK
  <2>5. sum = 0 <=> checksum = Word - 1
    BY DEF ChecksumIInv, TypeOK, Returned
  <2> QED
    BY <2>3, <2>4, <2>5
<1>2. AtStart => ChecksumIInv
  BY ChecksumStarts DEF AtStart
<1>3. ChecksumIInv /\ [Step]_vars => ChecksumIInv'
  BY OneProgram, ChecksumSteps
<1> QED
  BY <1>1, <1>2, <1>3, PTL DEF Lessons

-----------------------------------------------------------------------------
(* The traceroute of les28 *)

(* An answer comes from no farther than the round of its probe, and that    *)
(* round is not to come.                                                    *)
RoundCovers(m) ==
    /\ m.round <= count /\ m.hop <= m.round
    /\ \/ strays > 0 \/ m.type = TR!TimeExceeded
       \/ m.type = TR!Reached /\ m.hop = Distance /\ Distance <= m.round

LastTaken ==
    /\ tracer = "ended" <=> rcv.type # TR!TimeExceeded
    /\ strays > 0 \/ rcv.type = TR!TimeExceeded \/ (rcv.hop = Distance /\ Distance < count)

TracerTypes == TR!TypeOK /\ ttl <= count /\ strays \in Nat

TracerIInv == /\ TracerTypes /\ LastTaken /\ TR!NoHopTooEarly
              /\ \A m \in flying \cup arrived : RoundCovers(m)

LEMMA TracerStarts == TR!Init => TracerIInv
BY SocketConstants DEF TR!Init, TracerIInv, TracerTypes, TR!TypeOK, TR!Message, LastTaken,
   TR!NoHopTooEarly, RoundCovers, TR!Stray, TR!Reached, TR!Unreachable, TR!TimeExceeded

(* The next ttl is one more, or comes round to 0.                           *)
LEMMA NextTtl ==
    ASSUME NEW t \in 0..(TtlRange - 1)
    PROVE  (t + 1) % TtlRange \in 0..(TtlRange - 1) /\ (t + 1) % TtlRange <= t + 1
<1>1. TtlRange \in Nat /\ TtlRange > 1
  BY SocketConstants
<1>2. CASE t + 1 = TtlRange
  <2>1. (t + 1) % TtlRange = 0
    BY <1>1, <1>2
  <2> QED
    BY <1>1, <2>1
<1>3. CASE t + 1 < TtlRange
  <2>1. (t + 1) % TtlRange = t + 1
    BY <1>1, <1>3
  <2> QED
    BY <1>1, <1>3, <2>1
<1> QED
  BY <1>1, <1>2, <1>3

(* A probe of ttl t is answered from hop t at the most.                     *)
LEMMA AnswerCovered ==
    ASSUME TracerIInv
    PROVE  TR!Answer(ttl) \in TR!Message /\ RoundCovers(TR!Answer(ttl))
<1> DEFINE m == TR!Answer(ttl)
<1>1. ttl \in Nat /\ Distance \in Nat /\ count \in Nat \ {0} /\ ttl <= count
  BY SocketConstants DEF TracerIInv, TracerTypes, TR!TypeOK
<1>2. /\ m.round = count
      /\ m.hop = IF ttl >= Distance THEN Distance ELSE IF ttl = 0 THEN 1 ELSE ttl
      /\ m.type = IF ttl < Distance THEN TR!TimeExceeded ELSE TR!Reached
  BY DEF TR!Answer
<1>3. m \in TR!Message
  BY <1>1 DEF TR!Answer, TR!Message
<1>4. CASE ttl >= Distance
  <2>1. m.hop = Distance /\ m.type = TR!Reached
    BY <1>1, <1>2, <1>4
  <2> QED
    BY <1>1, <1>2, <1>3, <1>4, <2>1 DEF RoundCovers
<1>5. CASE ttl < Distance
  <2>1. m.hop <= count /\ m.type = TR!TimeExceeded
    BY <1>1, <1>2, <1>5
  <2> QED
    BY <1>1, <1>2, <1>3, <2>1 DEF RoundCovers
<1> QED
  BY <1>1, <1>4, <1>5

(* The end of a round, with the last message or one that arrived.           *)
LEMMA RoundEnds ==
    ASSUME TracerIInv, NEW m \in TR!Message, TR!EndRound(m),
           (m = rcv /\ rcv.type = TR!TimeExceeded) \/ RoundCovers(m),
           UNCHANGED <<asks, flying, strays>>, arrived' \subseteq arrived,
           line'[2] <= line'[1]
    PROVE  TracerIInv'
<1>1. /\ ttl \in 0..(TtlRange - 1) /\ count \in Nat \ {0} /\ ttl <= count
      /\ Distance \in Nat /\ strays \in Nat /\ TtlRange \in Nat
  BY SocketConstants DEF TracerIInv, TracerTypes, TR!TypeOK
<1>2. rcv' = m /\ ttl' = (ttl + 1) % TtlRange /\ count' = count + 1
      /\ tracer' = IF m.type = TR!TimeExceeded THEN "sendto" ELSE "ended"
  BY DEF TR!EndRound
<1>3. ttl' \in 0..(TtlRange - 1) /\ ttl' <= ttl + 1
  BY <1>1, <1>2, NextTtl
<1>4. count' \in Nat \ {0} /\ ttl' <= count'
  BY <1>1, <1>2, <1>3
<1>5. TracerTypes'
  BY <1>1, <1>2, <1>3, <1>4 DEF TracerIInv, TracerTypes, TR!TypeOK
<1>6. TR!NoHopTooEarly'
  BY DEF TR!NoHopTooEarly
<1>7. LastTaken'
  <2>1. strays > 0 \/ m.type = TR!TimeExceeded \/ (m.hop = Distance /\ Distance < count')
    <3>1. ASSUME RoundCovers(m), strays <= 0, m.type # TR!TimeExceeded
          PROVE  m.hop = Distance /\ Distance < count'
      <4>1. m.hop = Distance /\ Distance <= m.round /\ m.round <= count
        BY <1>1, <3>1 DEF RoundCovers
      <4>2. m.round \in Nat
        BY DEF TR!Message
      <4> QED
        BY <1>1, <1>2, <4>1, <4>2
    <3> QED
      BY <1>1, <3>1
  <2> QED
    BY <1>2, <2>1 DEF LastTaken
<1>8. ASSUME NEW n \in flying' \cup arrived' PROVE RoundCovers(n)'
  <2>1. n \in TR!Message /\ RoundCovers(n)
    BY DEF TracerIInv, TracerTypes, TR!TypeOK
  <2>2. n.round <= count'
    BY <1>1, <1>2, <2>1 DEF RoundCovers, TR!Message
  <2> QED
    BY <2>1, <2>2 DEF RoundCovers
<1> QED
  BY <1>5, <1>6, <1>7, <1>8 DEF TracerIInv

LEMMA TracerSteps == TracerIInv /\ [TR!Next]_trVars => TracerIInv'
<1> SUFFICES ASSUME TracerIInv, [TR!Next]_trVars PROVE TracerIInv'
  OBVIOUS
<1> USE DEF TracerIInv, TracerTypes, TR!TypeOK, LastTaken, TR!NoHopTooEarly, RoundCovers
<1>1. CASE UNCHANGED trVars
  BY <1>1 DEF trVars
<1>2. CASE TR!Start
  BY <1>2 DEF TR!Start
<1>3. CASE TR!Arrive
  BY <1>3 DEF TR!Arrive
<1>4. CASE TR!StrayError
  <2> DEFINE m == [hop |-> TR!Stray, type |-> TR!Unreachable, round |-> 0]
  <2>1. m \in TR!Message /\ m.round = 0 /\ m.hop = -1
    BY DEF TR!Message, TR!Stray
  <2>2. strays' \in Nat /\ strays' > 0 /\ arrived' = arrived \cup {m}
    BY <1>4 DEF TR!StrayError
  <2>3. UNCHANGED <<asks, tracer, ttl, count, rcv, flying, line>> /\ tracer # "main"
    BY <1>4 DEF TR!StrayError
  <2> HIDE DEF m
  <2>4. \A n \in flying' \cup arrived' : RoundCovers(n)'
    <3> SUFFICES ASSUME NEW n \in flying' \cup arrived' PROVE RoundCovers(n)'
      OBVIOUS
    <3>1. CASE n = m
      BY <2>1, <2>2, <2>3, <3>1
    <3>2. CASE n \in flying \cup arrived
      BY <2>2, <2>3, <3>2
    <3> QED
      BY <2>2, <2>3, <3>1, <3>2
  <2> QED
    BY <2>1, <2>2, <2>3, <2>4
<1>5. CASE TR!Sendto
  <2>1. TR!Answer(ttl) \in TR!Message /\ RoundCovers(TR!Answer(ttl))
    BY AnswerCovered
  <2>2. flying' \subseteq flying \cup {TR!Answer(ttl)} /\ tracer = "sendto" /\ tracer' = "poll"
        /\ UNCHANGED <<asks, ttl, count, rcv, arrived, line, strays>>
    BY <1>5 DEF TR!Sendto
  <2> QED
    BY <2>1, <2>2
<1>6. CASE TR!PollReady
  BY <1>6 DEF TR!PollReady
<1>7. CASE TR!PollTimeout
  <2>1. /\ tracer = "poll" /\ TR!EndRound(rcv) /\ line' = <<count, TR!Stray>>
        /\ UNCHANGED <<asks, flying, arrived, strays>>
    BY <1>7 DEF TR!PollTimeout
  <2>2. line'[2] <= line'[1]
    BY <2>1 DEF TR!Stray
  <2>3. rcv \in TR!Message /\ rcv.type = TR!TimeExceeded
    BY <2>1
  <2> QED
    BY <2>1, <2>2, <2>3, RoundEnds
<1>8. CASE TR!Recvfrom
  <2>1. PICK m \in arrived : TR!EndRound(m) /\ arrived' = arrived \ {m} /\ line' = <<count, m.hop>>
    BY <1>8 DEF TR!Recvfrom
  <2>2. m \in TR!Message /\ RoundCovers(m)
    OBVIOUS
  <2>3. line'[2] <= line'[1]
    BY <2>1, <2>2, SocketConstants DEF TR!Message, TR!Stray
  <2>4. UNCHANGED <<asks, flying, strays>>
    BY <1>8 DEF TR!Recvfrom
  <2> QED
    BY <2>1, <2>2, <2>3, <2>4, RoundEnds
<1> QED
  BY <1>1, <1>2, <1>3, <1>4, <1>5, <1>6, <1>7, <1>8 DEF TR!Next, TR!Round

(* Whatever the network loses, delays and reorders, no line names a hop     *)
(* farther than its number, and only the destination or someone else's      *)
(* error ends the program: for every distance and every width of the ttl.   *)
THEOREM Lines == Lessons => []LinesTrue
<1>1. TracerIInv => LinesTrue
  BY SocketConstants DEF TracerIInv, TracerTypes, LastTaken, LinesTrue, TR!LinesTrue,
     TR!EndsAtDestination, TR!TypeOK
<1>2. AtStart => TracerIInv
  BY TracerStarts DEF AtStart
<1>3. TracerIInv /\ [Step]_vars => TracerIInv'
  BY OneProgram, TracerSteps
<1> QED
  BY <1>1, <1>2, <1>3, PTL DEF Lessons

-----------------------------------------------------------------------------
(* The chat over TCP of les20 *)

Counts == [Callers -> Nat]

ChatTypes ==
    /\ parent \in {"start", "scanf", "accept", "fork"}
    /\ conn \in Callers \cup {TC!NoCaller}
    /\ accepted \in 0..MaxFds /\ forked \in 0..MaxProcs /\ waiting \in Seq(Callers)
    /\ child \in [Callers -> {"none", "greet", "recv", "send", "dead"}]
    /\ caller \in [Callers -> {"new", "scanf", "recv", "gone"}]
    /\ broken \in [Callers -> 0..2]
    /\ up \in Counts /\ down \in Counts /\ lines \in Counts /\ units \in Counts

(* The stream to a client that is there carries nothing before the greeting *)
(* and an odd number of units from then on, some of them read.              *)
Stream(c) ==
    caller[c] # "gone" =>
        /\ broken[c] = 0
        /\ child[c] \in {"none", "greet"} => units[c] = 0 /\ down[c] = 0
        /\ child[c] \notin {"none", "greet"} => (units[c] + down[c]) % 2 = 1

(* What a client has read after so many lines.                              *)
HasRead(c) ==
    /\ lines[c] <= MaxLines /\ up[c] <= lines[c] /\ units[c] <= 2 * lines[c]
    /\ caller[c] = "new" => child[c] = "none" /\ lines[c] = 0
    /\ caller[c] = "scanf" => units[c] \in {2 * lines[c] - 1, 2 * lines[c]}
    /\ caller[c] = "recv" => lines[c] > 0 /\ units[c] \in {2 * lines[c] - 3, 2 * lines[c] - 2}

(* A connection gets its child once.                                        *)
Unserved(c) == child[c] = "none" /\ caller[c] # "new"

Queue ==
    /\ \A k \in 1..Len(waiting) : Unserved(waiting[k])
    /\ \A j, k \in 1..Len(waiting) : waiting[j] = waiting[k] => j = k
    /\ parent = "fork" /\ conn # TC!NoCaller =>
           Unserved(conn) /\ \A k \in 1..Len(waiting) : waiting[k] # conn

ChatIInv == ChatTypes /\ Queue /\ \A c \in Callers : Stream(c) /\ HasRead(c)

LEMMA ChatStarts == TC!Init => ChatIInv
BY SocketConstants DEF TC!Init, ChatIInv, ChatTypes, Counts, Queue, Stream, HasRead, Unserved

(* The queue is as it was when nobody in it gets a child.                   *)
LEMMA QueueStays ==
    ASSUME ChatTypes, Queue, UNCHANGED <<conn, waiting>>, parent' = "fork" => parent = "fork",
           \A d \in Callers : Unserved(d) => Unserved(d)'
    PROVE  Queue'
BY DEF Queue, ChatTypes

LEMMA ClientSteps ==
    ASSUME ChatIInv, NEW c \in Callers,
           TC!Connect(c) \/ TC!Line(c) \/ TC!RecvLine(c) \/ TC!Quit(c)
    PROVE  ChatIInv'
<1> USE DEF ChatIInv, TC!UNCHANGED_Server
<1>1. UNCHANGED <<parent, conn, accepted, forked, child>>
  BY DEF TC!Connect, TC!Line, TC!RecvLine, TC!Take, TC!Quit
<1>2. \A d \in Callers \ {c} : /\ caller'[d] = caller[d] /\ up'[d] = up[d] /\ down'[d] = down[d]
                               /\ broken'[d] = broken[d] /\ lines'[d] = lines[d]
                               /\ units'[d] = units[d]
  BY DEF TC!Connect, TC!Line, TC!RecvLine, TC!Take, TC!Quit, ChatTypes, Counts
<1>3. \A d \in Callers \ {c} : Stream(d)' /\ HasRead(d)'
  BY <1>1, <1>2 DEF Stream, HasRead
<1>4. /\ child[c] \in {"none", "greet", "recv", "send", "dead"}
      /\ up[c] \in Nat /\ down[c] \in Nat /\ lines[c] \in Nat /\ units[c] \in Nat
      /\ broken[c] \in 0..2 /\ MaxLines \in Nat
  BY SocketConstants DEF ChatTypes, Counts
<1>9. \A d \in Callers : Unserved(d) => Unserved(d)'
  <2>1. caller'[c] # "new"
    BY DEF TC!Connect, TC!Line, TC!RecvLine, TC!Take, TC!Quit, ChatTypes
  <2> QED
    BY <1>1, <1>2, <2>1 DEF Unserved
<1>5. CASE TC!Connect(c)
  <2>1. caller[c] = "new" /\ caller'[c] \in {"scanf", "gone"} /\ caller'[c] # "new"
        /\ UNCHANGED <<up, down, broken, lines, units>>
    BY <1>5 DEF TC!Connect, ChatTypes
  <2>2. Stream(c)' /\ HasRead(c)'
    BY <1>1, <1>4, <2>1 DEF Stream, HasRead
  <2>3. ChatTypes'
    BY <1>1, <1>5, <2>1 DEF TC!Connect, ChatTypes
  <2>4. Queue'
    <3>1. CASE waiting' = waiting
      BY <1>1, <1>9, <3>1, QueueStays
    <3>2. CASE waiting' = Append(waiting, c)
      <4>1. \A k \in 1..Len(waiting) : waiting[k] # c
        BY <2>1 DEF Queue, Unserved
      <4>2. Len(waiting') = Len(waiting) + 1 /\ waiting'[Len(waiting) + 1] = c
            /\ \A k \in 1..Len(waiting) : waiting'[k] = waiting[k]
        BY <3>2 DEF ChatTypes
      <4>3. Len(waiting) \in Nat
        BY DEF ChatTypes
      <4>4. parent = "fork" => conn # c
        BY <2>1, SocketConstants DEF Queue, Unserved
      <4>6. Unserved(c)'
        BY <1>1, <2>1 DEF Unserved, HasRead
      <4>7. \A k \in 1..Len(waiting) : waiting[k] \in Callers
        BY DEF ChatTypes
      <4> QED
        BY <1>1, <4>1, <4>2, <4>3, <4>4, <1>9, <4>6, <4>7 DEF Queue, ChatTypes
    <3> QED
      BY <1>5, <3>1, <3>2 DEF TC!Connect
  <2> QED
    BY <1>3, <2>2, <2>3, <2>4
<1>6. CASE TC!Line(c)
  <2>1. /\ caller[c] = "scanf" /\ caller'[c] = "recv" /\ lines[c] < MaxLines
        /\ lines'[c] = lines[c] + 1 /\ up'[c] = up[c] + 1
        /\ UNCHANGED <<waiting, down, broken, units>>
    BY <1>6 DEF TC!Line, ChatTypes, Counts
  <2>2. Stream(c)' /\ HasRead(c)'
    BY <1>1, <1>4, <2>1 DEF Stream, HasRead
  <2>3. ChatTypes'
    <3>1. /\ caller' = [caller EXCEPT ![c] = "recv"]
          /\ lines' = [lines EXCEPT ![c] = @ + 1] /\ up' = [up EXCEPT ![c] = @ + 1]
      BY <1>6 DEF TC!Line
    <3>2. caller' \in [Callers -> {"new", "scanf", "recv", "gone"}]
      BY <3>1 DEF ChatTypes
    <3>3. lines' \in Counts /\ up' \in Counts
      BY <3>1 DEF ChatTypes, Counts
    <3> QED
      BY <1>1, <2>1, <3>2, <3>3 DEF ChatTypes
  <2>4. Queue'
    BY <1>1, <1>9, <2>1, QueueStays
  <2> QED
    BY <1>3, <2>2, <2>3, <2>4
<1>7. CASE TC!RecvLine(c)
  <2> DEFINE n == TC!Least(2, down[c])
  <2>1. /\ caller[c] = "recv" /\ caller'[c] = "scanf" /\ down[c] > 0
        /\ units'[c] = units[c] + n /\ down'[c] = down[c] - n
        /\ UNCHANGED <<waiting, up, broken, lines>>
    BY <1>7 DEF TC!RecvLine, TC!Take, ChatTypes, Counts
  <2>2. n \in 1..2 /\ n <= down[c] /\ (n = 1 => down[c] = 1)
    BY <1>4, <2>1 DEF TC!Least
  <2> HIDE DEF n
  <2>3. Stream(c)' /\ HasRead(c)'
    BY <1>1, <1>4, <2>1, <2>2 DEF Stream, HasRead
  <2>4. ChatTypes'
    <3>1. units[c] + n \in Nat /\ down[c] - n \in Nat
      BY <1>4, <2>2
    <3>2. /\ units' = [units EXCEPT ![c] = @ + n] /\ down' = [down EXCEPT ![c] = @ - n]
          /\ caller' = [caller EXCEPT ![c] = "scanf"]
      BY <1>7 DEF TC!RecvLine, TC!Take, n
    <3> QED
      BY <1>1, <2>1, <3>1, <3>2 DEF ChatTypes, Counts
  <2>5. Queue'
    BY <1>1, <1>9, <2>1, QueueStays
  <2> QED
    BY <1>3, <2>3, <2>4, <2>5
<1>8. CASE TC!Quit(c)
  <2>1. /\ caller[c] \in {"scanf", "recv"} /\ caller'[c] = "gone"
        /\ UNCHANGED <<waiting, up, down, lines, units>>
    BY <1>8 DEF TC!Quit, ChatTypes
  <2>2. Stream(c)' /\ HasRead(c)'
    BY <1>1, <1>4, <2>1 DEF Stream, HasRead
  <2>3. ChatTypes'
    BY <1>1, <1>8 DEF TC!Quit, ChatTypes
  <2>4. Queue'
    BY <1>1, <1>9, <2>1, QueueStays
  <2> QED
    BY <1>3, <2>2, <2>3, <2>4
<1> QED
  BY <1>5, <1>6, <1>7, <1>8

LEMMA ParentSteps ==
    ASSUME ChatIInv, TC!Listen \/ TC!Scanf \/ TC!Accept \/ TC!Fork
    PROVE  ChatIInv'
<1> USE DEF ChatIInv, TC!UNCHANGED_Callers
<1>1. UNCHANGED <<caller, lines, units, up, down, broken>>
  BY DEF TC!Listen, TC!Scanf, TC!Accept, TC!Fork, TC!ForkThen
<1>2. CASE TC!Listen \/ TC!Scanf
  <2>1. /\ parent' \in {"scanf", "accept"}
        /\ UNCHANGED <<conn, accepted, forked, waiting, child>>
    BY <1>2 DEF TC!Listen, TC!Scanf
  <2>2. Queue'
    BY <1>1, <2>1, QueueStays DEF Unserved
  <2> QED
    BY <1>1, <2>1, <2>2 DEF ChatTypes, Stream, HasRead
<1>3. CASE TC!Accept
  <2>1. parent = "accept" /\ parent' = "fork" /\ UNCHANGED <<forked, child>>
    BY <1>3 DEF TC!Accept
  <2>2. \A c \in Callers : Stream(c)' /\ HasRead(c)'
    BY <1>1, <2>1 DEF Stream, HasRead
  <2>3. CASE conn' = TC!NoCaller /\ UNCHANGED <<waiting, accepted>>
    BY <1>1, <2>1, <2>2, <2>3 DEF ChatTypes, Queue, Unserved
  <2>4. CASE /\ accepted < MaxFds /\ waiting # <<>>
             /\ conn' = Head(waiting) /\ waiting' = Tail(waiting)
             /\ accepted' = accepted + 1
    <3>1. waiting \in Seq(Callers) /\ Len(waiting) \in Nat /\ Len(waiting) > 0
      BY <2>4 DEF ChatTypes
    <3>2. conn' = waiting[1] /\ conn' \in Callers /\ waiting' \in Seq(Callers)
      BY <2>4, <3>1
    <3>3. Len(waiting') = Len(waiting) - 1
          /\ \A k \in 1..Len(waiting') : waiting'[k] = waiting[k + 1]
      BY <2>4, <3>1
    <3>4. accepted' \in 0..MaxFds
      BY <2>4, SocketConstants DEF ChatTypes
    <3>5. ChatTypes'
      BY <1>1, <2>1, <3>2, <3>4 DEF ChatTypes
    <3>6. \A c \in Callers : Unserved(c) => Unserved(c)'
      BY <1>1, <2>1 DEF Unserved
    <3>7. \A k \in 1..Len(waiting) : waiting[k] \in Callers
      BY <3>1
    <3>8. \A k \in 1..Len(waiting') : k + 1 \in 1..Len(waiting) /\ k + 1 # 1
      BY <3>1, <3>3
    <3>9. 1 \in 1..Len(waiting)
      BY <3>1
    <3>10. ASSUME NEW k \in 1..Len(waiting')
           PROVE  /\ child'[waiting'[k]] = "none" /\ caller'[waiting'[k]] # "new"
                  /\ waiting'[k] # conn'
      <4>1. waiting'[k] = waiting[k + 1] /\ Unserved(waiting[k + 1]) /\ waiting[k + 1] # conn'
        BY <3>2, <3>3, <3>8, <3>9 DEF Queue
      <4> QED
        BY <1>1, <2>1, <4>1 DEF Unserved
    <3>11. \A j, k \in 1..Len(waiting') : waiting'[j] = waiting'[k] => j = k
      <4> SUFFICES ASSUME NEW j \in 1..Len(waiting'), NEW k \in 1..Len(waiting'),
                          waiting'[j] = waiting'[k]
                   PROVE  j = k
        OBVIOUS
      <4>1. j + 1 = k + 1
        BY <3>3, <3>8 DEF Queue
      <4> QED
        BY <4>1
    <3>12. child'[conn'] = "none" /\ caller'[conn'] # "new"
      <4>1. Unserved(waiting[1])
        BY <3>9 DEF Queue
      <4> QED
        BY <1>1, <2>1, <3>2, <4>1 DEF Unserved
    <3>13. Queue'
      BY <3>10, <3>11, <3>12 DEF Queue, Unserved
    <3> QED
      BY <2>2, <3>5, <3>13
  <2> QED
    BY <1>3, <2>3, <2>4 DEF TC!Accept
<1>4. CASE TC!Fork
  <2>1. parent = "fork" /\ parent' = "accept" /\ UNCHANGED <<conn, accepted, waiting>>
    BY <1>4 DEF TC!Fork, TC!ForkThen
  <2>2. CASE UNCHANGED <<forked, child>>
    BY <1>1, <2>1, <2>2 DEF ChatTypes, Queue, Stream, HasRead, Unserved
  <2>3. CASE /\ forked < MaxProcs /\ forked' = forked + 1
             /\ child' = [c \in Callers |-> IF c = conn THEN "greet" ELSE child[c]]
    <3>1. ChatTypes'
      <4>1. forked' \in 0..MaxProcs
        BY <2>3, SocketConstants DEF ChatTypes
      <4>2. child' \in [Callers -> {"none", "greet", "recv", "send", "dead"}]
        BY <2>3 DEF ChatTypes
      <4> QED
        BY <1>1, <2>1, <4>1, <4>2 DEF ChatTypes
    <3>2. \A c \in Callers : child'[c] = IF c = conn THEN "greet" ELSE child[c]
      BY <2>3
    <3>3. conn \in Callers => Unserved(conn) /\ \A k \in 1..Len(waiting) : waiting[k] # conn
      BY <2>1, SocketConstants DEF Queue
    <3>4. \A c \in Callers : Stream(c)' /\ HasRead(c)'
      BY <1>1, <3>2, <3>3 DEF Stream, HasRead, Unserved
    <3>5. \A k \in 1..Len(waiting) : waiting[k] \in Callers /\ waiting[k] # conn
      BY <3>3 DEF ChatTypes
    <3>6. Queue'
      BY <1>1, <2>1, <3>2, <3>5 DEF Queue, Unserved
    <3> QED
      BY <3>1, <3>4, <3>6
  <2> QED
    BY <1>4, <2>2, <2>3 DEF TC!Fork, TC!ForkThen
<1> QED
  BY <1>2, <1>3, <1>4

LEMMA ChildSteps ==
    ASSUME ChatIInv, NEW c \in Callers, TC!Child(c)
    PROVE  ChatIInv'
<1> USE DEF ChatIInv, TC!UNCHANGED_Callers
<1>1. UNCHANGED <<parent, conn, accepted, forked, waiting, caller, lines, units>>
  BY DEF TC!Child, TC!Greet, TC!Recv, TC!Reply, TC!Put
<1>2. \A d \in Callers \ {c} : /\ child'[d] = child[d] /\ up'[d] = up[d]
                               /\ down'[d] = down[d] /\ broken'[d] = broken[d]
  BY DEF TC!Child, TC!Greet, TC!Recv, TC!Reply, TC!Put, ChatTypes, Counts
<1>3. \A d \in Callers \ {c} : Stream(d)' /\ HasRead(d)'
  BY <1>1, <1>2 DEF Stream, HasRead
<1>4. child[c] # "none" /\ child'[c] # "none"
  BY DEF TC!Child, TC!Greet, TC!Recv, TC!Reply, TC!Put, ChatTypes
<1>5. Queue'
  <2>1. \A d \in Callers : Unserved(d) => Unserved(d)'
    BY <1>1, <1>2, <1>4 DEF Unserved
  <2> QED
    BY <1>1, <2>1 DEF Queue, ChatTypes
<1>6. /\ up[c] \in Nat /\ down[c] \in Nat /\ lines[c] \in Nat /\ units[c] \in Nat
      /\ broken[c] \in 0..2
  BY DEF ChatTypes, Counts
<1>7. ASSUME NEW n \in 1..2, TC!Put(c, n), child[c] = IF n = 1 THEN "greet" ELSE "send"
      PROVE  ChatTypes' /\ Stream(c)' /\ HasRead(c)'
  <2>1. UNCHANGED up /\ child'[c] \in {"recv", "dead"}
    BY <1>7 DEF TC!Put, ChatTypes
  <2>2. HasRead(c)'
    BY <1>1, <1>4, <2>1 DEF HasRead
  <2>3. Stream(c)'
    BY <1>1, <1>6, <1>7, <2>1 DEF Stream, TC!Put, ChatTypes, Counts
  <2>4. ChatTypes'
    <3>1. TC!Least(broken[c] + 1, 2) \in 0..2 /\ down[c] + n \in Nat
      BY <1>6 DEF TC!Least
    <3>2. /\ down' = down \/ down' = [down EXCEPT ![c] = @ + n]
          /\ broken' = broken \/ broken' = [broken EXCEPT ![c] = TC!Least(@ + 1, 2)]
      BY <1>7 DEF TC!Put
    <3>4. down' \in Counts
      BY <3>1, <3>2 DEF ChatTypes, Counts
    <3>5. broken' \in [Callers -> 0..2]
      BY <3>1, <3>2 DEF ChatTypes
    <3>3. child' \in [Callers -> {"none", "greet", "recv", "send", "dead"}]
      BY <1>7 DEF TC!Put, ChatTypes
    <3> QED
      BY <1>1, <2>1, <3>3, <3>4, <3>5 DEF ChatTypes
  <2> QED
    BY <2>2, <2>3, <2>4
<1>8. CASE TC!Greet(c) \/ TC!Reply(c)
  <2>1. ChatTypes' /\ Stream(c)' /\ HasRead(c)'
    BY <1>7, <1>8 DEF TC!Greet, TC!Reply
  <2> QED
    BY <1>3, <1>5, <2>1
<1>9. CASE TC!Recv(c)
  <2>1. /\ child[c] = "recv" /\ child'[c] = "send" /\ UNCHANGED down
        /\ up'[c] \in Nat /\ up'[c] <= up[c]
        /\ broken'[c] = IF broken[c] > 0 THEN 2 ELSE 0
    BY <1>6, <1>9 DEF TC!Recv, ChatTypes, Counts
  <2>2. Stream(c)' /\ HasRead(c)'
    BY <1>1, <1>6, <2>1, SocketConstants DEF Stream, HasRead
  <2>3. ChatTypes'
    <3>1. up' \in Counts
      BY <1>6, <1>9 DEF TC!Recv, ChatTypes, Counts
    <3>2. child' \in [Callers -> {"none", "greet", "recv", "send", "dead"}]
          /\ broken' \in [Callers -> 0..2]
      BY <1>9 DEF TC!Recv, ChatTypes
    <3> QED
      BY <1>1, <2>1, <3>1, <3>2 DEF ChatTypes
  <2> QED
    BY <1>3, <1>5, <2>2, <2>3
<1> QED
  BY <1>8, <1>9 DEF TC!Child

LEMMA ChatSteps == ChatIInv /\ [TC!Next]_tcVars => ChatIInv'
<1>1. CASE UNCHANGED tcVars
  BY <1>1 DEF tcVars, ChatIInv, ChatTypes, Queue, Stream, HasRead, Unserved
<1> QED
  BY <1>1, ClientSteps, ParentSteps, ChildSteps DEF TC!Next

(* A client reads its greeting and its answers one behind or level, never   *)
(* ahead, however many clients there are and lines they type.               *)
THEOREM GreetingBehind == Lessons => []OneGreetingBehind
<1>1. ChatIInv => OneGreetingBehind
  BY DEF ChatIInv, HasRead, OneGreetingBehind, TC!OneGreetingBehind
<1>2. AtStart => ChatIInv
  BY ChatStarts DEF AtStart
<1>3. ChatIInv /\ [Step]_vars => ChatIInv'
  BY OneProgram, ChatSteps
<1> QED
  BY <1>1, <1>2, <1>3, PTL DEF Lessons

-----------------------------------------------------------------------------
(* The multiprotocol server of les22 *)

ServerTypes ==
    /\ loop \in {"none", "epoll", "poll", "select"}
    /\ server \in {"main", "wait", "udp", "tcp", "recv", "stdin", "ended"}
    /\ bound \subseteq {"tcp", "udp"} /\ reported \subseteq {"tcp", "udp", "stdin"}
    /\ turn \in 0..MaxTurns /\ keys \in 0..MaxKeys /\ served \in Nat
    /\ backlog \in Seq(TcpClients) /\ datagrams \in Seq(UdpClients \X Nat)
    /\ peer \in MS!Clients \cup {MS!Nobody}
    /\ buffer \in (MS!Clients \cup {MS!Nobody}) \X Nat

ClientTypes ==
    /\ cstate \in [MS!Clients -> {"new", "connected", "sent", "answered", "hungup"}]
    /\ asked \in [MS!Clients -> 0..MaxAsks]
    /\ got \in [MS!Clients -> (MS!Clients \cup {MS!Nobody}) \X Nat]

(* A datagram under way is the last one of a client that waits for its      *)
(* answer.                                                                  *)
Outstanding ==
    /\ \A k \in 1..Len(datagrams) : /\ cstate[datagrams[k][1]] = "sent"
                                    /\ datagrams[k][2] = asked[datagrams[k][1]]
    /\ \A j, k \in 1..Len(datagrams) : datagrams[j][1] = datagrams[k][1] => j = k

Asking == /\ \A c \in MS!Clients : cstate[c] = "sent" => asked[c] > 0
          /\ \A c \in TcpClients : cstate[c] \in {"new", "connected"} => asked[c] = 0

(* What was reported is still there when the server comes to it.            *)
StillThere ==
    /\ server = "udp" /\ "udp" \in reported => Len(datagrams) > 0
    /\ server \in {"udp", "tcp"} /\ "tcp" \in reported => Len(backlog) > 0
    /\ server \in {"udp", "tcp", "recv", "stdin"} /\ "stdin" \in reported => keys > 0
    /\ server = "recv" => peer \in TcpClients /\ "tcp" \in reported

(* What the turn that runs has served.                                      *)
TurnsServed ==
    /\ turn <= served
    /\ server \in {"udp", "tcp", "recv", "stdin"} => reported # {} /\ turn < MaxTurns
    /\ server = "wait" => turn < MaxTurns
    /\ server = "main" => turn = 0
    /\ server \in {"tcp", "recv", "stdin"} /\ "udp" \in reported => turn < served
    /\ server = "stdin" /\ "tcp" \in reported => turn < served

ServerIInv == /\ ServerTypes /\ ClientTypes /\ Outstanding /\ Asking /\ MS!AnswersOwn
              /\ StillThere /\ TurnsServed

LEMMA ServerStarts == MS!Init => ServerIInv
<1> SUFFICES ASSUME MS!Init PROVE ServerIInv
  OBVIOUS
<1>1. ServerTypes
  BY SocketConstants DEF MS!Init, ServerTypes
<1>2. ClientTypes
  BY SocketConstants DEF MS!Init, ClientTypes
<1>3. Outstanding /\ Asking /\ MS!AnswersOwn
  BY DEF MS!Init, Outstanding, Asking, MS!AnswersOwn, MS!Clients
<1>4. StillThere /\ TurnsServed
  BY SocketConstants DEF MS!Init, StillThere, TurnsServed
<1> QED
  BY <1>1, <1>2, <1>3, <1>4 DEF ServerIInv

(* Outstanding datagrams are those of UDP clients, which a step of another  *)
(* client leaves alone.                                                     *)
LEMMA OthersOutstanding ==
    ASSUME ServerTypes, Outstanding, UNCHANGED datagrams,
           \A d \in UdpClients : cstate[d] = "sent" => cstate'[d] = cstate[d] /\ asked'[d] = asked[d]
    PROVE  Outstanding'
<1>1. \A k \in 1..Len(datagrams) : datagrams[k][1] \in UdpClients
  BY DEF ServerTypes
<1> QED
  BY <1>1 DEF Outstanding

LEMMA EnvironmentSteps == ServerIInv /\ MS!Environment => ServerIInv'
<1> SUFFICES ASSUME ServerIInv, MS!Environment PROVE ServerIInv'
  OBVIOUS
<1> USE DEF ServerIInv
<1>1. UNCHANGED <<loop, server, bound, turn, reported, buffer, peer, served, got>>
  BY DEF MS!Environment, MS!Connect, MS!Say, MS!HangUp, MS!Send, MS!Type, MS!UNCHANGED_Server
<1>2. TurnsServed'
  BY <1>1 DEF TurnsServed
<1>3. Len(backlog) \in Nat /\ Len(datagrams) \in Nat /\ keys \in Nat
  BY DEF ServerTypes
<1>4. ASSUME NEW c \in TcpClients, MS!Connect(c) \/ MS!Say(c) \/ MS!HangUp(c) PROVE ServerIInv'
  <2>1. c \in MS!Clients /\ c \notin UdpClients /\ 1 \in 0..MaxAsks
    BY SocketConstants DEF MS!Clients
  <2>2. UNCHANGED <<datagrams, keys>>
    BY <1>4 DEF MS!Connect, MS!Say, MS!HangUp
  <2>3. \A d \in MS!Clients \ {c} : cstate'[d] = cstate[d] /\ asked'[d] = asked[d]
    BY <1>4, <2>1 DEF MS!Connect, MS!Say, MS!HangUp, ClientTypes
  <2>4. cstate'[c] # "answered" /\ cstate'[c] # "new"
    BY <1>4, <2>1 DEF MS!Connect, MS!Say, MS!HangUp, ClientTypes
  <2>5. MS!AnswersOwn'
    BY <1>1, <2>3, <2>4 DEF MS!AnswersOwn
  <2>6. Outstanding'
    BY <2>1, <2>2, <2>3, OthersOutstanding DEF MS!Clients
  <2>7. Asking'
    <3>1. asked[c] \in Nat
      BY <2>1, SocketConstants DEF ClientTypes
    <3>2. (cstate'[c] = "sent" => asked'[c] > 0) /\ (cstate'[c] = "connected" => asked'[c] = 0)
      BY <1>4, <2>1, <3>1 DEF MS!Connect, MS!Say, MS!HangUp, ClientTypes, Asking
    <3> QED
      BY <2>1, <2>3, <2>4, <3>2 DEF Asking, MS!Clients
  <2>8. ClientTypes'
    <3>1. asked' = asked \/ asked' = [asked EXCEPT ![c] = 1]
      BY <1>4, <2>1 DEF MS!Connect, MS!Say, MS!HangUp, ClientTypes, Asking
    <3>2. cstate' \in [MS!Clients -> {"new", "connected", "sent", "answered", "hungup"}]
      BY <1>4 DEF MS!Connect, MS!Say, MS!HangUp, ClientTypes
    <3> QED
      BY <1>1, <2>1, <3>1, <3>2 DEF ClientTypes
  <2>9. backlog' = backlog \/ backlog' = Append(backlog, c)
    BY <1>4 DEF MS!Connect, MS!Say, MS!HangUp
  <2>10. backlog' \in Seq(TcpClients) /\ (Len(backlog) > 0 => Len(backlog') > 0)
    <3>1. backlog \in Seq(TcpClients)
      BY DEF ServerTypes
    <3>2. CASE backlog' = Append(backlog, c)
      <4>1. backlog' \in Seq(TcpClients) /\ Len(backlog') = Len(backlog) + 1
        BY <3>1, <3>2
      <4> QED
        BY <1>3, <4>1
    <3> QED
      BY <2>9, <3>1, <3>2
  <2>11. ServerTypes' /\ StillThere'
    BY <1>1, <2>2, <2>10 DEF ServerTypes, StillThere
  <2> QED
    BY <1>2, <2>5, <2>6, <2>7, <2>8, <2>11
<1>5. ASSUME NEW c \in UdpClients, MS!Send(c) PROVE ServerIInv'
  <2>1. c \in MS!Clients /\ c \notin TcpClients /\ asked[c] \in Nat /\ MaxAsks \in Nat
    BY SocketConstants DEF MS!Clients, ClientTypes
  <2>2. /\ cstate[c] # "sent" /\ cstate'[c] = "sent" /\ asked'[c] = asked[c] + 1
        /\ asked[c] < MaxAsks /\ datagrams' = Append(datagrams, <<c, asked[c] + 1>>)
        /\ UNCHANGED <<backlog, keys>>
    BY <1>5, <2>1 DEF MS!Send, ClientTypes
  <2>3. \A d \in MS!Clients \ {c} : cstate'[d] = cstate[d] /\ asked'[d] = asked[d]
    BY <1>5, <2>1 DEF MS!Send, ClientTypes
  <2>4. MS!AnswersOwn'
    BY <1>1, <2>2, <2>3 DEF MS!AnswersOwn
  <2>5. <<c, asked[c] + 1>> \in UdpClients \X Nat
    BY <2>1
  <2>6. /\ datagrams' \in Seq(UdpClients \X Nat) /\ Len(datagrams') = Len(datagrams) + 1
        /\ datagrams'[Len(datagrams) + 1] = <<c, asked[c] + 1>>
        /\ \A k \in 1..Len(datagrams) : datagrams'[k] = datagrams[k]
    BY <2>2, <2>5 DEF ServerTypes
  <2>7. \A k \in 1..Len(datagrams) : /\ datagrams[k][1] # c /\ datagrams[k][1] \in MS!Clients
    BY <2>2 DEF Outstanding, ServerTypes, MS!Clients
  <2>8. Outstanding'
    <3>1. \A k \in 1..Len(datagrams') : k \in 1..Len(datagrams) \/ k = Len(datagrams) + 1
      BY <1>3, <2>6
    <3>2. datagrams'[Len(datagrams) + 1][1] = c /\ datagrams'[Len(datagrams) + 1][2] = asked'[c]
      BY <2>2, <2>6
    <3>3. ASSUME NEW k \in 1..Len(datagrams')
          PROVE  /\ cstate'[datagrams'[k][1]] = "sent"
                 /\ datagrams'[k][2] = asked'[datagrams'[k][1]]
      BY <2>2, <2>3, <2>6, <2>7, <3>1, <3>2 DEF Outstanding
    <3>4. \A j, k \in 1..Len(datagrams') : datagrams'[j][1] = datagrams'[k][1] => j = k
      BY <2>6, <2>7, <3>1, <3>2 DEF Outstanding
    <3> QED
      BY <3>3, <3>4 DEF Outstanding
  <2>9. Asking'
    <3>1. asked'[c] > 0
      BY <2>1, <2>2
    <3> QED
      BY <2>1, <2>3, <3>1 DEF Asking, MS!Clients
  <2>10. ClientTypes'
    <3>1. asked[c] + 1 \in 0..MaxAsks
      BY <2>1, <2>2
    <3>2. asked' = [asked EXCEPT ![c] = @ + 1] /\ cstate' = [cstate EXCEPT ![c] = "sent"]
      BY <1>5 DEF MS!Send
    <3> QED
      BY <1>1, <3>1, <3>2 DEF ClientTypes
  <2>11. ServerTypes' /\ StillThere'
    BY <1>1, <1>3, <2>2, <2>6 DEF ServerTypes, StillThere
  <2> QED
    BY <1>2, <2>4, <2>8, <2>9, <2>10, <2>11
<1>6. CASE MS!Type
  <2>1. keys' = keys + 1 /\ keys < MaxKeys /\ UNCHANGED <<backlog, datagrams, cstate, asked>>
    BY <1>6 DEF MS!Type
  <2>2. keys' \in 0..MaxKeys /\ keys' > 0
    BY <2>1, SocketConstants DEF ServerTypes
  <2>3. ServerTypes' /\ StillThere'
    BY <1>1, <2>1, <2>2 DEF ServerTypes, StillThere
  <2> QED
    BY <1>1, <1>2, <2>1, <2>3 DEF ClientTypes, Outstanding, Asking, MS!AnswersOwn
<1> QED
  BY <1>4, <1>5, <1>6 DEF MS!Environment

(* An answer goes to the client that is the peer, and changes nobody else.  *)
LEMMA Answers ==
    ASSUME ServerTypes, ClientTypes, Asking, MS!AnswersOwn, NEW c \in MS!Clients, MS!Answer(c),
           UNCHANGED asked, buffer' \in (MS!Clients \cup {MS!Nobody}) \X Nat,
           cstate[c] = "sent" => buffer' = <<c, asked[c]>>
    PROVE  /\ ClientTypes' /\ Asking' /\ MS!AnswersOwn' /\ served' = served + 1
           /\ \A d \in MS!Clients \ {c} : cstate'[d] = cstate[d]
<1>1. /\ cstate' = [cstate EXCEPT ![c] = IF @ = "sent" THEN "answered" ELSE @]
      /\ got' = [got EXCEPT ![c] = IF cstate[c] = "sent" THEN buffer' ELSE @]
      /\ served' = served + 1
  BY DEF MS!Answer
<1>2. ClientTypes'
  BY <1>1 DEF ClientTypes
<1>3. \A d \in MS!Clients \ {c} : cstate'[d] = cstate[d] /\ got'[d] = got[d]
  BY <1>1 DEF ClientTypes
<1>4. /\ cstate[c] = "sent" => cstate'[c] = "answered" /\ got'[c] = buffer'
      /\ cstate[c] # "sent" => cstate'[c] = cstate[c] /\ got'[c] = got[c]
  BY <1>1 DEF ClientTypes
<1>5. Asking'
  BY <1>3, <1>4 DEF Asking, MS!Clients
<1>6. MS!AnswersOwn'
  BY <1>3, <1>4 DEF MS!AnswersOwn
<1> QED
  BY <1>1, <1>2, <1>3, <1>5, <1>6

LEMMA ServeSteps == ServerIInv /\ MS!Serve => ServerIInv'
<1> SUFFICES ASSUME ServerIInv, MS!Serve PROVE ServerIInv'
  OBVIOUS
<1> USE DEF ServerIInv, MS!UNCHANGED_Clients
<1>1. /\ UNCHANGED <<loop, bound, asked>> /\ Len(backlog) \in Nat /\ Len(datagrams) \in Nat
      /\ keys \in Nat /\ turn \in Nat /\ served \in Nat /\ MaxTurns \in Nat
  BY SocketConstants DEF MS!Serve, MS!Wait, MS!Udp, MS!Accept, MS!Recv, MS!Skip, MS!EndTurn,
     MS!NextTurn, ServerTypes
<1>2. CASE MS!Wait
  <2>1. /\ server = "wait" /\ server' = "udp"
        /\ UNCHANGED <<turn, backlog, datagrams, keys, buffer, peer, served, cstate, got>>
    BY <1>2 DEF MS!Wait
  <2>2. reported' # {} /\ reported' \subseteq MS!Readable
    BY <1>2 DEF MS!Wait, MS!Reports
  <2>3. /\ "udp" \in reported' => Len(datagrams) > 0
        /\ "tcp" \in reported' => Len(backlog) > 0
        /\ "stdin" \in reported' => keys > 0
        /\ reported' \subseteq {"tcp", "udp", "stdin"}
    <3>1. (backlog # <<>> => Len(backlog) > 0) /\ (datagrams # <<>> => Len(datagrams) > 0)
      BY DEF ServerTypes
    <3> QED
      BY <2>2, <3>1 DEF MS!Readable
  <2>4. ServerTypes' /\ StillThere' /\ TurnsServed'
    BY <1>1, <2>1, <2>2, <2>3 DEF ServerTypes, StillThere, TurnsServed
  <2> QED
    BY <1>1, <2>1, <2>4 DEF ClientTypes, Outstanding, Asking, MS!AnswersOwn
<1>3. CASE MS!Udp
  <2>1. /\ server = "udp" /\ server' = "tcp" /\ "udp" \in reported
        /\ buffer' = Head(datagrams) /\ datagrams' = Tail(datagrams) /\ peer' = buffer'[1]
        /\ MS!Answer(peer') /\ UNCHANGED <<turn, reported, backlog, keys>>
    BY <1>3 DEF MS!Udp
  <2>2. Len(datagrams) > 0 /\ datagrams \in Seq(UdpClients \X Nat)
    BY <2>1 DEF StillThere, ServerTypes
  <2>3. buffer' = datagrams[1] /\ 1 \in 1..Len(datagrams) /\ datagrams[1] \in UdpClients \X Nat
    BY <1>1, <2>1, <2>2
  <2>4. PICK c \in UdpClients, n \in Nat : datagrams[1] = <<c, n>>
    BY <2>3
  <2>5. peer' = c /\ n = asked[c] /\ c \in MS!Clients
    BY <2>1, <2>3, <2>4 DEF Outstanding, MS!Clients
  <2>6. buffer' = <<c, asked[c]>> /\ buffer' \in (MS!Clients \cup {MS!Nobody}) \X Nat
    BY <2>3, <2>4, <2>5
  <2>7. /\ ClientTypes' /\ Asking' /\ MS!AnswersOwn' /\ served' = served + 1
        /\ \A d \in MS!Clients \ {c} : cstate'[d] = cstate[d]
    BY <1>1, <2>1, <2>5, <2>6, Answers
  <2>8. /\ Len(datagrams') = Len(datagrams) - 1 /\ datagrams' \in Seq(UdpClients \X Nat)
        /\ \A k \in 1..Len(datagrams') : datagrams'[k] = datagrams[k + 1]
    BY <2>1, <2>2
  <2>9. \A k \in 1..Len(datagrams') : k + 1 \in 1..Len(datagrams) /\ k + 1 # 1
    BY <1>1, <2>8
  <2>10. \A k \in 1..Len(datagrams') : /\ datagrams[k + 1][1] # c
                                       /\ datagrams[k + 1][1] \in MS!Clients
    <3>1. \A k \in 1..Len(datagrams') : datagrams[k + 1][1] # c
      BY <2>3, <2>4, <2>9 DEF Outstanding
    <3> QED
      BY <2>2, <2>9, <3>1 DEF MS!Clients
  <2>11. Outstanding'
    <3>1. ASSUME NEW j \in 1..Len(datagrams'), NEW k \in 1..Len(datagrams'),
                 datagrams'[j][1] = datagrams'[k][1]
          PROVE  j = k
      <4>1. j + 1 \in 1..Len(datagrams) /\ k + 1 \in 1..Len(datagrams)
        BY <2>9
      <4>2. datagrams[j + 1][1] = datagrams[k + 1][1]
        BY <2>8, <3>1
      <4>3. j + 1 = k + 1
        BY <4>1, <4>2 DEF Outstanding
      <4> QED
        BY <4>3
    <3>2. ASSUME NEW k \in 1..Len(datagrams')
          PROVE  /\ cstate'[datagrams'[k][1]] = "sent"
                 /\ datagrams'[k][2] = asked'[datagrams'[k][1]]
      <4> DEFINE d == datagrams[k + 1][1]
      <4>1. datagrams'[k] = datagrams[k + 1] /\ k + 1 \in 1..Len(datagrams)
        BY <2>8, <2>9
      <4>2. d # c /\ d \in MS!Clients
        BY <2>10
      <4>3. cstate[d] = "sent" /\ datagrams[k + 1][2] = asked[d]
        BY <4>1 DEF Outstanding
      <4>4. cstate'[d] = cstate[d] /\ asked'[d] = asked[d]
        BY <1>1, <2>7, <4>2
      <4> QED
        BY <4>1, <4>3, <4>4
    <3> QED
      BY <3>1, <3>2 DEF Outstanding
  <2>12. ServerTypes'
    BY <1>1, <2>1, <2>5, <2>6, <2>7, <2>8 DEF ServerTypes
  <2>13. StillThere' /\ TurnsServed'
    BY <1>1, <2>1, <2>7 DEF StillThere, TurnsServed
  <2> QED
    BY <2>7, <2>11, <2>12, <2>13
<1>4. CASE MS!Accept
  <2>1. /\ server = "tcp" /\ server' = "recv" /\ "tcp" \in reported
        /\ peer' = Head(backlog) /\ backlog' = Tail(backlog)
        /\ UNCHANGED <<turn, reported, datagrams, keys, buffer, served, cstate, got>>
    BY <1>4 DEF MS!Accept
  <2>2. peer' \in TcpClients /\ backlog' \in Seq(TcpClients)
    <3>1. Len(backlog) > 0 /\ backlog \in Seq(TcpClients)
      BY <2>1 DEF StillThere, ServerTypes
    <3> QED
      BY <2>1, <3>1
  <2>3. ServerTypes' /\ StillThere' /\ TurnsServed'
    BY <1>1, <2>1, <2>2 DEF ServerTypes, StillThere, TurnsServed, MS!Clients
  <2> QED
    BY <1>1, <2>1, <2>3 DEF ClientTypes, Outstanding, Asking, MS!AnswersOwn
<1>5. CASE MS!Recv
  <2>1. /\ server = "recv" /\ server' = "stdin"
        /\ buffer' = IF asked[peer] > 0 THEN <<peer, asked[peer]>> ELSE buffer
        /\ MS!Answer(peer) /\ UNCHANGED <<turn, reported, backlog, datagrams, keys, peer>>
    BY <1>5 DEF MS!Recv
  <2>2. peer \in TcpClients /\ peer \notin UdpClients /\ peer \in MS!Clients
    BY <2>1, SocketConstants DEF StillThere, MS!Clients
  <2>3. asked[peer] \in Nat
    BY <2>2, SocketConstants DEF ClientTypes
  <2>4. buffer' \in (MS!Clients \cup {MS!Nobody}) \X Nat
        /\ (cstate[peer] = "sent" => buffer' = <<peer, asked[peer]>>)
    BY <2>1, <2>2, <2>3 DEF ServerTypes, Asking
  <2>5. /\ ClientTypes' /\ Asking' /\ MS!AnswersOwn' /\ served' = served + 1
        /\ \A d \in MS!Clients \ {peer} : cstate'[d] = cstate[d]
    BY <1>1, <2>1, <2>2, <2>4, Answers
  <2>6. Outstanding'
    BY <1>1, <2>1, <2>2, <2>5, OthersOutstanding DEF MS!Clients
  <2>7. ServerTypes'
    BY <1>1, <2>1, <2>4, <2>5 DEF ServerTypes
  <2>8. StillThere' /\ TurnsServed'
    BY <1>1, <2>1, <2>5 DEF StillThere, TurnsServed
  <2> QED
    BY <2>5, <2>6, <2>7, <2>8
<1>6. CASE MS!Skip
  <2>1. /\ \/ server = "udp" /\ server' = "tcp" /\ "udp" \notin reported
           \/ server = "tcp" /\ server' = "stdin" /\ "tcp" \notin reported
        /\ UNCHANGED <<turn, reported, backlog, datagrams, keys, buffer, peer, served, cstate, got>>
    BY <1>6 DEF MS!Skip
  <2>2. ServerTypes' /\ StillThere' /\ TurnsServed'
    BY <1>1, <2>1 DEF ServerTypes, StillThere, TurnsServed
  <2> QED
    BY <1>1, <2>1, <2>2 DEF ClientTypes, Outstanding, Asking, MS!AnswersOwn
<1>7. CASE MS!EndTurn
  <2>1. /\ server = "stdin" /\ turn' = turn + 1
        /\ server' = IF turn + 1 = MaxTurns THEN "ended" ELSE "wait"
        /\ UNCHANGED <<reported, backlog, datagrams, buffer, peer, cstate, got>>
    BY <1>7 DEF MS!EndTurn, MS!NextTurn
  <2>2. turn < MaxTurns /\ reported # {} /\ reported \subseteq {"tcp", "udp", "stdin"}
        /\ turn <= served /\ ("udp" \in reported \/ "tcp" \in reported => turn < served)
    BY <2>1 DEF TurnsServed, ServerTypes
  <2>3. IF "stdin" \in reported THEN keys' = keys - 1 /\ served' = served + 1 /\ keys > 0
                                ELSE keys' = keys /\ served' = served
    BY <1>7, <2>1 DEF MS!EndTurn, StillThere
  <2>4. served' \in Nat /\ turn' <= served'
    <3>1. CASE "stdin" \in reported
      BY <1>1, <2>1, <2>2, <2>3, <3>1
    <3>2. CASE "stdin" \notin reported
      <4>1. "udp" \in reported \/ "tcp" \in reported
        BY <2>2, <3>2
      <4> QED
        BY <1>1, <2>1, <2>2, <2>3, <3>2, <4>1
    <3> QED
      BY <3>1, <3>2
  <2>5. keys' \in 0..MaxKeys
    BY <1>1, <2>3, SocketConstants DEF ServerTypes
  <2>6. ServerTypes' /\ StillThere' /\ TurnsServed'
    BY <1>1, <2>1, <2>2, <2>4, <2>5 DEF ServerTypes, StillThere, TurnsServed
  <2> QED
    BY <1>1, <2>1, <2>6 DEF ClientTypes, Outstanding, Asking, MS!AnswersOwn
<1> QED
  BY <1>2, <1>3, <1>4, <1>5, <1>6, <1>7 DEF MS!Serve

LEMMA ServerSteps == ServerIInv /\ [MS!Next]_msVars => ServerIInv'
<1> SUFFICES ASSUME ServerIInv, [MS!Next]_msVars PROVE ServerIInv'
  OBVIOUS
<1>1. CASE UNCHANGED msVars
  BY <1>1 DEF msVars, ServerIInv, ServerTypes, ClientTypes, Outstanding, Asking, MS!AnswersOwn,
     StillThere, TurnsServed
<1>2. CASE MS!Main
  <2>1. /\ server = "main" /\ server' \in {"ended", "wait"}
        /\ loop' \in {"epoll", "poll", "select"} /\ bound' \subseteq {"tcp", "udp"}
        /\ UNCHANGED <<turn, reported, backlog, datagrams, keys, buffer, peer, cstate, asked, got,
                       served>>
    BY <1>2 DEF MS!Main
  <2>2. ServerTypes' /\ StillThere' /\ TurnsServed'
    BY <2>1, SocketConstants DEF ServerIInv, ServerTypes, StillThere, TurnsServed
  <2> QED
    BY <2>1, <2>2 DEF ServerIInv, ClientTypes, Outstanding, Asking, MS!AnswersOwn
<1> QED
  BY <1>1, <1>2, EnvironmentSteps, ServeSteps DEF MS!Next

(* Who gets an answer gets the one to its last line, and no turn is wasted, *)
(* in each of the three loops and for any number of clients and turns.      *)
THEOREM TurnsAndAnswers == Lessons => []TurnsAnswer
<1>1. ServerIInv => TurnsAnswer
  BY DEF ServerIInv, TurnsServed, TurnsAnswer, MS!TurnsAnswer, MS!TurnsNotWasted
<1>2. AtStart => ServerIInv
  BY ServerStarts DEF AtStart
<1>3. ServerIInv /\ [Step]_vars => ServerIInv'
  BY OneProgram, ServerSteps
<1> QED
  BY <1>1, <1>2, <1>3, PTL DEF Lessons

-----------------------------------------------------------------------------
(* MultiServer implements AnswerService *)

Waiting == {c \in MS!Clients : cstate[c] = "sent"}
Gone == {c \in MS!Clients : cstate[c] = "hungup"}
Phase == CASE server = "main" -> "closed" [] server = "ended" -> "over" [] OTHER -> "open"
serviceVars == <<Phase, asked, Waiting, got, datagrams, MS!Pending, Gone, served>>

(* A connection without an answer waits with the server.                    *)
InLine == \A c \in TcpClients : cstate[c] \in {"connected", "sent"} =>
              \E k \in 1..Len(MS!Pending) : MS!Pending[k] = c

LEMMA PendingIs ==
    ASSUME ServerIInv
    PROVE  /\ backlog \in Seq(TcpClients) /\ MS!Pending \in Seq(TcpClients)
           /\ server # "recv" => MS!Pending = backlog
           /\ server = "recv" => /\ peer \in TcpClients /\ MS!Pending = <<peer>> \o backlog
                                 /\ MS!Pending # <<>> /\ Head(MS!Pending) = peer
                                 /\ Tail(MS!Pending) = backlog
<1>1. backlog \in Seq(TcpClients) /\ (server = "recv" => peer \in TcpClients)
  BY DEF ServerIInv, ServerTypes, StillThere
<1>2. CASE server # "recv"
  <2>1. MS!Pending = <<>> \o backlog
    BY <1>2 DEF MS!Pending
  <2> QED
    BY <1>1, <1>2, <2>1
<1>3. CASE server = "recv"
  <2>1. MS!Pending = <<peer>> \o backlog
    BY <1>3 DEF MS!Pending
  <2>2. \A p \in TcpClients : /\ <<p>> \o backlog \in Seq(TcpClients)
                              /\ <<p>> \o backlog # <<>>
                              /\ Head(<<p>> \o backlog) = p
                              /\ Tail(<<p>> \o backlog) = backlog
    BY <1>1
  <2> QED
    BY <1>1, <1>3, <2>1, <2>2
<1> QED
  BY <1>2, <1>3

(* A step that leaves what waits alone, or moves the first of the backlog   *)
(* into the server's hand.                                                  *)
LEMMA PendingStays ==
    ASSUME ServerIInv,
           \/ MS!Accept
           \/ UNCHANGED <<backlog, server, peer>>
           \/ UNCHANGED backlog /\ server # "recv" /\ server' # "recv"
    PROVE  MS!Pending' = MS!Pending
<1>1. CASE \/ UNCHANGED <<backlog, server, peer>>
           \/ UNCHANGED backlog /\ server # "recv" /\ server' # "recv"
  BY <1>1 DEF MS!Pending
<1>2. CASE MS!Accept
  <2>1. /\ Len(backlog) > 0 /\ backlog \in Seq(TcpClients) /\ server = "tcp" /\ server' = "recv"
        /\ peer' = Head(backlog) /\ backlog' = Tail(backlog)
    BY <1>2 DEF MS!Accept, ServerIInv, StillThere, ServerTypes
  <2>2. <<Head(backlog)>> \o Tail(backlog) = backlog /\ <<>> \o backlog = backlog
    BY <2>1
  <2> QED
    BY <2>1, <2>2 DEF MS!Pending
<1> QED
  BY <1>1, <1>2

LEMMA ServiceAsked ==
    ASSUME ServerIInv, InLine, MS!Environment
    PROVE  [MS!Service!ANext]_serviceVars /\ InLine'
<1>1. /\ cstate \in [MS!Clients -> {"new", "connected", "sent", "answered", "hungup"}]
      /\ asked \in [MS!Clients -> 0..MaxAsks]
  BY DEF ServerIInv, ClientTypes
<1>2. UNCHANGED <<server, peer, served>> /\ Phase' = Phase
  BY DEF MS!Environment, MS!Connect, MS!Say, MS!HangUp, MS!Send, MS!Type, MS!UNCHANGED_Server, Phase
<1>9. UNCHANGED got
  BY DEF MS!Environment, MS!Connect, MS!Say, MS!HangUp, MS!Send, MS!Type
<1>3. ASSUME NEW c \in TcpClients, MS!Connect(c)
      PROVE  MS!Service!Connect(c) /\ InLine'
  <2>1. /\ cstate[c] = "new" /\ cstate' = [cstate EXCEPT ![c] = "connected"]
        /\ backlog' = Append(backlog, c) /\ UNCHANGED <<datagrams, asked>>
    BY <1>3 DEF MS!Connect
  <2>2. Waiting' = Waiting /\ Gone' = Gone
    BY <1>1, <2>1 DEF Waiting, Gone
  <2>3. MS!Pending' = Append(MS!Pending, c) /\ MS!Pending \in Seq(TcpClients)
    <3>1. \A p \in TcpClients : <<p>> \o Append(backlog, c) = Append(<<p>> \o backlog, c)
      BY PendingIs
    <3>2. CASE server = "recv"
      BY <1>2, <2>1, <3>1, <3>2, PendingIs DEF MS!Pending
    <3>3. CASE server # "recv"
      <4>1. <<>> \o Append(backlog, c) = Append(backlog, c)
        BY PendingIs
      <4> QED
        BY <1>2, <2>1, <3>3, <4>1, PendingIs DEF MS!Pending
    <3> QED
      BY <3>2, <3>3
  <2>4. InLine'
    <3>1. Len(MS!Pending') = Len(MS!Pending) + 1 /\ MS!Pending'[Len(MS!Pending) + 1] = c
          /\ \A k \in 1..Len(MS!Pending) : MS!Pending'[k] = MS!Pending[k]
      BY <2>3
    <3>2. Len(MS!Pending) \in Nat
      BY <2>3
    <3>3. ASSUME NEW d \in TcpClients, cstate'[d] \in {"connected", "sent"}, d # c
          PROVE  cstate[d] \in {"connected", "sent"}
      BY <1>1, <2>1, <3>3 DEF MS!Clients
    <3> QED
      BY <3>1, <3>2, <3>3 DEF InLine
  <2> QED
    BY <1>2, <1>9, <2>1, <2>2, <2>3, <2>4 DEF MS!Service!Connect, Waiting, Gone, Phase
<1>4. ASSUME NEW c \in TcpClients, MS!Say(c) \/ MS!HangUp(c)
      PROVE  (MS!Service!Say(c) \/ MS!Service!Leave(c)) /\ InLine'
  <2>1. c \in MS!Clients /\ cstate[c] \in {"connected", "sent"} /\ UNCHANGED <<backlog, datagrams>>
    BY <1>4 DEF MS!Say, MS!HangUp, MS!Clients
  <2>2. MS!Pending' = MS!Pending
    BY <1>2, <2>1, PendingStays
  <2>3. c \in MS!Service!Range(MS!Pending)
    <3>1. PICK k \in 1..Len(MS!Pending) : MS!Pending[k] = c
      BY <2>1 DEF InLine
    <3>2. DOMAIN MS!Pending = 1..Len(MS!Pending)
      BY PendingIs
    <3> QED
      BY <3>1, <3>2 DEF MS!Service!Range
  <2>4. InLine'
    <3>1. ASSUME NEW d \in TcpClients, cstate'[d] \in {"connected", "sent"}
          PROVE  cstate[d] \in {"connected", "sent"}
      BY <1>1, <1>4, <2>1, <3>1 DEF MS!Say, MS!HangUp, MS!Clients
    <3> QED
      BY <2>2, <3>1 DEF InLine
  <2>5. CASE MS!Say(c)
    <3>1. /\ cstate[c] = "connected" /\ cstate' = [cstate EXCEPT ![c] = "sent"]
          /\ asked' = [asked EXCEPT ![c] = @ + 1]
      BY <2>5 DEF MS!Say
    <3>2. c \notin Waiting /\ c \notin Gone /\ Waiting' = Waiting \cup {c} /\ Gone' = Gone
      BY <1>1, <2>1, <3>1 DEF Waiting, Gone
    <3> QED
      BY <1>2, <1>9, <2>1, <2>2, <2>3, <2>4, <3>1, <3>2
      DEF MS!Service!Say, MS!Service!Ask, Waiting, Gone, Phase
  <2>6. CASE MS!HangUp(c)
    <3>1. cstate' = [cstate EXCEPT ![c] = "hungup"] /\ UNCHANGED asked
      BY <2>6 DEF MS!HangUp
    <3>2. Waiting' = Waiting \ {c} /\ Gone' = Gone \cup {c}
      BY <1>1, <2>1, <3>1 DEF Waiting, Gone
    <3> QED
      BY <1>2, <1>9, <2>1, <2>2, <2>3, <2>4, <3>1, <3>2 DEF MS!Service!Leave, Waiting, Gone, Phase
  <2> QED
    BY <1>4, <2>5, <2>6
<1>5. ASSUME NEW c \in UdpClients, MS!Send(c)
      PROVE  MS!Service!Letter(c) /\ InLine'
  <2>1. /\ c \in MS!Clients /\ c \notin TcpClients /\ cstate[c] \in {"new", "answered"}
        /\ cstate' = [cstate EXCEPT ![c] = "sent"] /\ asked' = [asked EXCEPT ![c] = @ + 1]
        /\ datagrams' = Append(datagrams, <<c, asked'[c]>>) /\ UNCHANGED backlog
    BY <1>5, SocketConstants DEF MS!Send, MS!Clients
  <2>2. MS!Pending' = MS!Pending
    BY <1>2, <2>1, PendingStays
  <2>3. c \notin Waiting /\ Waiting' = Waiting \cup {c} /\ Gone' = Gone
    BY <1>1, <2>1 DEF Waiting, Gone
  <2>4. InLine'
    <3>1. \A d \in TcpClients : cstate'[d] = cstate[d]
      BY <1>1, <2>1 DEF MS!Clients
    <3> QED
      BY <2>2, <3>1 DEF InLine
  <2> QED
    BY <1>2, <1>9, <2>1, <2>2, <2>3, <2>4 DEF MS!Service!Letter, MS!Service!Ask, Waiting, Gone, Phase
<1>6. CASE MS!Type
  <2>1. UNCHANGED <<backlog, datagrams, cstate, asked>>
    BY <1>6 DEF MS!Type
  <2>2. MS!Pending' = MS!Pending
    BY <1>2, <2>1, PendingStays
  <2> QED
    BY <1>2, <1>9, <2>1, <2>2 DEF serviceVars, Waiting, Gone, InLine
<1> QED
  <2>1. MS!Service!ANext => [MS!Service!ANext]_serviceVars
    OBVIOUS
  <2> QED
    BY <1>3, <1>4, <1>5, <1>6, <2>1 DEF MS!Environment, MS!Service!ANext

(* What an answer to c does to the clients.                                 *)
LEMMA AnswerServes ==
    ASSUME ServerIInv, NEW c \in MS!Clients, MS!Answer(c), cstate[c] \in {"sent", "hungup"},
           cstate[c] = "sent" => buffer' = <<c, asked[c]>>
    PROVE  /\ c \in Waiting \cup Gone
           /\ got' = [got EXCEPT ![c] = IF c \in Waiting THEN <<c, asked[c]>> ELSE @]
           /\ Waiting' = Waiting \ {c} /\ Gone' = Gone /\ served' = served + 1
           /\ \A d \in MS!Clients \ {c} : cstate'[d] = cstate[d]
           /\ cstate'[c] \notin {"connected", "sent"}
<1>1. /\ cstate \in [MS!Clients -> {"new", "connected", "sent", "answered", "hungup"}]
      /\ got \in [MS!Clients -> (MS!Clients \cup {MS!Nobody}) \X Nat]
  BY DEF ServerIInv, ClientTypes
<1>2. /\ cstate' = [cstate EXCEPT ![c] = IF cstate[c] = "sent" THEN "answered" ELSE cstate[c]]
      /\ got' = [got EXCEPT ![c] = IF cstate[c] = "sent" THEN buffer' ELSE got[c]]
      /\ served' = served + 1
  BY DEF MS!Answer
<1>3. c \in Waiting <=> cstate[c] = "sent"
  BY DEF Waiting
<1>4. got' = [got EXCEPT ![c] = IF c \in Waiting THEN <<c, asked[c]>> ELSE got[c]]
  BY <1>2, <1>3
<1>5. /\ \A d \in MS!Clients \ {c} : cstate'[d] = cstate[d]
      /\ cstate'[c] \in {"answered", "hungup"} /\ (cstate'[c] = "hungup" <=> cstate[c] = "hungup")
  BY <1>1, <1>2
<1> QED
  BY <1>2, <1>4, <1>5 DEF Waiting, Gone

LEMMA ServiceServed ==
    ASSUME ServerIInv, InLine, MS!Serve
    PROVE  [MS!Service!ANext]_serviceVars /\ InLine'
<1>1. CASE MS!Wait \/ MS!Accept \/ MS!Skip
  <2>1. /\ UNCHANGED <<datagrams, served, cstate, asked, got>>
        /\ server \in {"wait", "udp", "tcp"} /\ server' \in {"udp", "tcp", "recv", "stdin"}
    BY <1>1 DEF MS!Wait, MS!Accept, MS!Skip, MS!UNCHANGED_Clients
  <2>2. MS!Accept \/ (UNCHANGED backlog /\ server # "recv" /\ server' # "recv")
    BY <1>1 DEF MS!Wait, MS!Skip
  <2>3. MS!Pending' = MS!Pending
    BY <2>2, PendingStays
  <2>4. Phase' = Phase
    BY <2>1 DEF Phase
  <2> QED
    BY <2>1, <2>3, <2>4 DEF serviceVars, Waiting, Gone, InLine
<1>2. CASE MS!Udp
  <2> DEFINE c == Head(datagrams)[1]
  <2>1. /\ server = "udp" /\ server' = "tcp" /\ "udp" \in reported
        /\ buffer' = Head(datagrams) /\ datagrams' = Tail(datagrams) /\ peer' = buffer'[1]
        /\ MS!Answer(peer') /\ UNCHANGED <<backlog, asked>>
    BY <1>2 DEF MS!Udp
  <2>2. Len(datagrams) > 0 /\ datagrams \in Seq(UdpClients \X Nat)
    BY <2>1 DEF ServerIInv, StillThere, ServerTypes
  <2>3. /\ datagrams # <<>> /\ Head(datagrams) = datagrams[1] /\ 1 \in 1..Len(datagrams)
        /\ Head(datagrams) \in UdpClients \X Nat
    BY <2>2
  <2>4. cstate[c] = "sent" /\ Head(datagrams)[2] = asked[c]
    BY <2>3 DEF ServerIInv, Outstanding
  <2>5. c \in UdpClients /\ c \in MS!Clients /\ Head(datagrams) = <<c, asked[c]>> /\ peer' = c
    BY <2>1, <2>3, <2>4 DEF MS!Clients
  <2> HIDE DEF c
  <2>6. /\ c \in Waiting \cup Gone
        /\ got' = [got EXCEPT ![c] = IF c \in Waiting THEN <<c, asked[c]>> ELSE @]
        /\ Waiting' = Waiting \ {c} /\ Gone' = Gone /\ served' = served + 1
        /\ \A d \in MS!Clients \ {c} : cstate'[d] = cstate[d]
    BY <2>1, <2>4, <2>5, AnswerServes
  <2>7. MS!Pending' = MS!Pending
    BY <2>1, PendingStays
  <2>8. Phase = "open" /\ Phase' = "open"
    BY <2>1 DEF Phase
  <2>9. MS!Service!Answer(c)
    BY <2>1, <2>6, <2>8 DEF MS!Service!Answer, Waiting, Gone, Phase
  <2>10. MS!Service!AnswerLetter
    BY <2>1, <2>3, <2>7, <2>9 DEF MS!Service!AnswerLetter, c
  <2>11. InLine'
    <3>1. \A d \in TcpClients : cstate'[d] = cstate[d]
      BY <2>5, <2>6, SocketConstants DEF MS!Clients
    <3> QED
      BY <2>7, <3>1 DEF InLine
  <2> QED
    BY <2>10, <2>11 DEF MS!Service!ANext
<1>3. CASE MS!Recv
  <2>1. /\ server = "recv" /\ server' = "stdin" /\ cstate[peer] \in {"sent", "hungup"}
        /\ buffer' = IF asked[peer] > 0 THEN <<peer, asked[peer]>> ELSE buffer
        /\ MS!Answer(peer) /\ UNCHANGED <<backlog, datagrams, asked>>
    BY <1>3 DEF MS!Recv
  <2>2. /\ peer \in TcpClients /\ peer \in MS!Clients /\ backlog \in Seq(TcpClients)
        /\ MS!Pending = <<peer>> \o backlog /\ MS!Pending # <<>> /\ Head(MS!Pending) = peer
        /\ Tail(MS!Pending) = backlog
    BY <2>1, PendingIs DEF MS!Clients
  <2>3. cstate[peer] = "sent" => buffer' = <<peer, asked[peer]>>
    BY <2>1, <2>2 DEF ServerIInv, Asking
  <2>4. /\ peer \in Waiting \cup Gone
        /\ got' = [got EXCEPT ![peer] = IF peer \in Waiting THEN <<peer, asked[peer]>> ELSE @]
        /\ Waiting' = Waiting \ {peer} /\ Gone' = Gone /\ served' = served + 1
        /\ \A d \in MS!Clients \ {peer} : cstate'[d] = cstate[d]
        /\ cstate'[peer] \notin {"connected", "sent"}
    BY <2>1, <2>2, <2>3, AnswerServes
  <2>5. MS!Pending' = backlog
    <3>1. <<>> \o backlog = backlog
      BY <2>2
    <3> QED
      BY <2>1, <3>1 DEF MS!Pending
  <2>6. Phase = "open" /\ Phase' = "open"
    BY <2>1 DEF Phase
  <2>7. MS!Service!Answer(Head(MS!Pending))
    BY <2>1, <2>2, <2>4, <2>6 DEF MS!Service!Answer, Waiting, Gone, Phase
  <2>8. MS!Service!AnswerConnection
    BY <2>1, <2>2, <2>5, <2>7 DEF MS!Service!AnswerConnection
  <2>9. InLine'
    <3>1. /\ Len(backlog) \in Nat /\ Len(MS!Pending) = Len(backlog) + 1
          /\ MS!Pending[1] = peer
          /\ \A k \in 2..Len(MS!Pending) : MS!Pending[k] = backlog[k - 1]
      BY <2>2
    <3>2. ASSUME NEW d \in TcpClients, cstate'[d] \in {"connected", "sent"}
          PROVE  \E k \in 1..Len(backlog) : backlog[k] = d
      <4>1. d # peer /\ cstate[d] \in {"connected", "sent"}
        BY <2>4, <3>2 DEF MS!Clients
      <4>2. PICK k \in 1..Len(MS!Pending) : MS!Pending[k] = d
        BY <4>1 DEF InLine
      <4>3. k \in 2..Len(MS!Pending) /\ k - 1 \in 1..Len(backlog)
        BY <3>1, <4>1, <4>2
      <4> QED
        BY <3>1, <4>2, <4>3
    <3> QED
      BY <2>5, <3>2 DEF InLine
  <2> QED
    BY <2>8, <2>9 DEF MS!Service!ANext
<1>4. CASE MS!EndTurn
  <2>1. /\ server = "stdin" /\ server' = IF turn + 1 = MaxTurns THEN "ended" ELSE "wait"
        /\ IF "stdin" \in reported THEN served' = served + 1 ELSE served' = served
        /\ UNCHANGED <<backlog, datagrams, peer, cstate, asked, got>>
    BY <1>4 DEF MS!EndTurn, MS!NextTurn, MS!UNCHANGED_Clients
  <2>2. MS!Pending' = MS!Pending
    BY <2>1, PendingStays
  <2>3. Waiting' = Waiting /\ Gone' = Gone /\ InLine'
    BY <2>1, <2>2 DEF Waiting, Gone, InLine
  <2>4. /\ served \in Nat /\ turn \in Nat /\ turn <= served /\ reported # {}
        /\ reported \subseteq {"tcp", "udp", "stdin"}
        /\ "udp" \in reported \/ "tcp" \in reported => turn < served
    BY <2>1, SocketConstants DEF ServerIInv, ServerTypes, TurnsServed
  <2>5. served' \in {served, served + 1} /\ turn + 1 <= served'
    <3>1. CASE "stdin" \in reported
      BY <2>1, <2>4, <3>1
    <3>2. CASE "stdin" \notin reported
      <4>1. "udp" \in reported \/ "tcp" \in reported
        BY <2>4, <3>2
      <4>2. turn < served /\ served' = served
        BY <2>1, <2>4, <3>2, <4>1
      <4> QED
        BY <2>4, <4>2
    <3> QED
      BY <3>1, <3>2
  <2>6. Phase = "open" /\ Phase' \in {"open", "over"} /\ (Phase' = "over" => served' >= MaxTurns)
    BY <2>1, <2>5 DEF Phase
  <2>7. MS!Service!KeyOrEnd
    BY <2>1, <2>2, <2>3, <2>5, <2>6 DEF MS!Service!KeyOrEnd, Waiting, Gone, Phase
  <2> QED
    BY <2>3, <2>7 DEF MS!Service!ANext
<1> QED
  BY <1>1, <1>2, <1>3, <1>4 DEF MS!Serve

LEMMA ServiceStep ==
    ASSUME ServerIInv, InLine, [MS!Next]_msVars
    PROVE  [MS!Service!ANext]_serviceVars /\ InLine'
<1>1. CASE UNCHANGED msVars
  BY <1>1 DEF msVars, serviceVars, Phase, Waiting, Gone, InLine, MS!Pending
<1>2. CASE MS!Main
  <2>1. /\ server = "main" /\ server' \in {"ended", "wait"}
        /\ UNCHANGED <<backlog, datagrams, peer, cstate, asked, got, served>>
    BY <1>2 DEF MS!Main
  <2>2. MS!Pending' = MS!Pending
    BY <2>1, PendingStays
  <2>3. Waiting' = Waiting /\ Gone' = Gone /\ InLine'
    BY <2>1, <2>2 DEF Waiting, Gone, InLine
  <2>4. Phase = "closed" /\ Phase' \in {"open", "over"}
    BY <2>1 DEF Phase
  <2>5. MS!Service!Open
    BY <2>1, <2>2, <2>3, <2>4 DEF MS!Service!Open, Waiting, Gone, Phase
  <2> QED
    BY <2>3, <2>5 DEF MS!Service!ANext
<1> QED
  BY <1>1, <1>2, ServiceAsked, ServiceServed DEF MS!Next

(* The three loops implement the service: each request is answered once, in *)
(* the order of its socket and to who asked, and the last turn comes after  *)
(* MaxTurns requests or keys, whatever an earlier turn left in the buffer,  *)
(* the address or the kernel's report.                                      *)
THEOREM Refinement == Lessons => ImplementsAnswerService
<1>1. AtStart => ServerIInv /\ InLine /\ MS!Service!AInit
  <2>1. ASSUME AtStart PROVE MS!Init
    BY <2>1 DEF AtStart
  <2>2. ASSUME AtStart
        PROVE  Waiting = {} /\ Gone = {} /\ Phase = "closed" /\ MS!Pending = <<>> /\ InLine
    <3>1. /\ server = "main" /\ backlog = <<>> /\ \A c \in MS!Clients : cstate[c] = "new"
      BY <2>1, <2>2 DEF MS!Init
    <3>2. MS!Pending = <<>>
      BY <3>1 DEF MS!Pending
    <3> QED
      BY <3>1, <3>2 DEF Waiting, Gone, Phase, InLine, MS!Clients
  <2>3. ASSUME AtStart PROVE MS!Service!AInit
    BY <2>1, <2>2, <2>3 DEF MS!Service!AInit, MS!Init, Waiting, Gone, Phase
  <2> QED
    BY <2>1, <2>2, <2>3, ServerStarts
<1>2. ServerIInv /\ InLine /\ [Step]_vars
          => ServerIInv' /\ InLine' /\ [MS!Service!ANext]_MS!Service!avars
  BY OneProgram, ServerSteps, ServiceStep DEF serviceVars, MS!Service!avars, Waiting, Gone, Phase
<1> QED
  BY <1>1, <1>2, PTL DEF Lessons, ImplementsAnswerService, MS!ImplementsAnswerService,
     MS!Service!ASpec

-----------------------------------------------------------------------------
(* The talk in turns of les19 and les24 *)

TalkTypes ==
    /\ protocol \in {"none", "TCP", "SCTP"} /\ linked \in BOOLEAN /\ reset \subseteq EX!Sides
    /\ at \in [EX!Sides -> {"new", "accept", "send", "recv", "ended"}]
    /\ inbox \in [EX!Sides -> Nat] /\ rounds \in [EX!Sides -> Nat]

(* How the sides come to talk, or do not.                                   *)
Meeting ==
    /\ at["server"] = "new" => at["client"] = "new"
    /\ protocol = "none" <=> at["server"] = "new"
    /\ at["client"] = "new" => ~linked /\ rounds["client"] = 0 /\ reset = {}
    /\ at["client"] # "accept"
    /\ linked => at["server"] \notin {"new", "accept"}
    /\ ~linked => /\ at["server"] \notin {"send", "recv"} /\ rounds["server"] = 0
                  /\ \A s \in EX!Sides : inbox[s] = 0
                  /\ protocol = "TCP" => at["client"] \in {"new", "ended"} /\ rounds["client"] = 0

(* Whose turn it is: b, who begins, sends and waits for the answer of o.    *)
Turn(b, o) ==
    \/ /\ at[b] = "send" /\ at[o] = "recv" /\ inbox[b] = 0 /\ inbox[o] = 0
       /\ rounds[b] = rounds[o]
    \/ /\ at[b] = "recv" /\ at[o] = "recv" /\ inbox[b] = 0 /\ inbox[o] = 1
       /\ rounds[b] = rounds[o]
    \/ /\ at[b] = "recv" /\ at[o] = "send" /\ inbox[b] = 0 /\ inbox[o] = 0
       /\ rounds[b] = rounds[o]
    \/ /\ at[b] = "recv" /\ at[o] = "recv" /\ inbox[b] = 1 /\ inbox[o] = 0
       /\ rounds[o] = rounds[b] + 1

BothThere == linked /\ \A s \in EX!Sides : at[s] # "ended"

InTurn == BothThere => /\ reset = {}
                       /\ protocol = "TCP" => Turn("client", "server")
                       /\ protocol = "SCTP" => Turn("server", "client")

(* Rounds that a side may still come to when the other has ended.           *)
ToCome(s) == (IF at[s] = "recv" THEN 1 ELSE 0) + (IF s \in reset THEN 0 ELSE 1)

Limits ==
    /\ \A s \in EX!Sides : s = "server" \/ protocol = "SCTP" =>
           rounds[s] <= Rounds /\ (at[s] \in {"send", "recv"} => rounds[s] < Rounds)
    /\ protocol = "TCP" => rounds["client"] + ToCome("client") <= Rounds + 2

TalkIInv == TalkTypes /\ Meeting /\ InTurn /\ Limits

LEMMA TalkStarts == EX!Init => TalkIInv
<1> SUFFICES ASSUME EX!Init PROVE TalkIInv
  OBVIOUS
<1>1. EX!Sides = {"client", "server"} /\ Rounds \in Nat \ {0}
  BY SocketConstants DEF EX!Sides
<1>2. TalkTypes
  BY DEF EX!Init, TalkTypes
<1>3. Meeting /\ InTurn
  BY <1>1 DEF EX!Init, Meeting, InTurn, BothThere
<1>4. Limits
  BY <1>1 DEF EX!Init, Limits, ToCome
<1> QED
  BY <1>2, <1>3, <1>4 DEF TalkIInv

LEMMA MeetingSteps ==
    ASSUME TalkIInv, EX!Serve \/ EX!ServeNot \/ EX!Connect \/ EX!ConnectFails
    PROVE  TalkIInv'
<1> USE DEF TalkIInv
<1>1. UNCHANGED <<inbox, rounds, reset>>
  BY DEF EX!Serve, EX!ServeNot, EX!Connect, EX!ConnectFails
<1>2. /\ EX!Sides = {"client", "server"} /\ Rounds \in Nat \ {0}
      /\ rounds["client"] \in Nat /\ rounds["server"] \in Nat
  BY SocketConstants DEF EX!Sides, TalkTypes
<1>3. CASE EX!Serve \/ EX!ServeNot
  <2>1. /\ at["server"] = "new" /\ at'["client"] = "new" /\ at'["server"] \in {"accept", "ended"}
        /\ protocol' \in {"TCP", "SCTP"} /\ linked' = linked /\ ~linked
    BY <1>2, <1>3 DEF EX!Serve, EX!ServeNot, TalkTypes, Meeting
  <2>2. TalkTypes'
    BY <1>1, <1>3, <2>1 DEF EX!Serve, EX!ServeNot, TalkTypes
  <2>3. Meeting' /\ InTurn'
    BY <1>1, <1>2, <2>1 DEF Meeting, InTurn, BothThere
  <2>4. Limits'
    BY <1>1, <1>2, <2>1 DEF Meeting, Limits, ToCome
  <2> QED
    BY <2>2, <2>3, <2>4
<1>4. CASE EX!Connect
  <2>1. /\ at["client"] = "new" /\ at["server"] = "accept" /\ linked' = TRUE
        /\ UNCHANGED protocol
        /\ at'["client"] = EX!First("client") /\ at'["server"] = EX!First("server")
    BY <1>2, <1>4 DEF EX!Connect
  <2>2. TalkTypes'
    BY <1>1, <1>4, <2>1 DEF EX!Connect, EX!First, TalkTypes
  <2>3. /\ ~linked /\ protocol \in {"TCP", "SCTP"} /\ reset = {}
        /\ rounds["client"] = 0 /\ rounds["server"] = 0
        /\ inbox["client"] = 0 /\ inbox["server"] = 0
    BY <1>2, <2>1 DEF Meeting, TalkTypes
  <2>4. /\ protocol = "TCP" => at'["client"] = "send" /\ at'["server"] = "recv"
        /\ protocol = "SCTP" => at'["client"] = "recv" /\ at'["server"] = "send"
    BY <2>1 DEF EX!First, EX!Begins
  <2>5. Meeting' /\ InTurn'
    BY <1>1, <1>2, <2>1, <2>3, <2>4 DEF Meeting, InTurn, BothThere, Turn
  <2>6. Limits'
    BY <1>1, <1>2, <2>1, <2>3 DEF Limits, ToCome
  <2> QED
    BY <2>2, <2>5, <2>6
<1>5. CASE EX!ConnectFails
  <2>1. /\ at["client"] = "new" /\ protocol # "none" /\ UNCHANGED <<protocol, linked>>
        /\ at'["client"] = IF protocol = "TCP" THEN "ended" ELSE "recv"
        /\ at'["server"] = at["server"] /\ ~linked
        /\ rounds["client"] = 0 /\ rounds["server"] = 0
    BY <1>2, <1>5 DEF EX!ConnectFails, TalkTypes, Meeting
  <2>2. TalkTypes'
    BY <1>1, <1>5 DEF EX!ConnectFails, TalkTypes
  <2>3. Meeting' /\ InTurn'
    BY <1>1, <1>2, <2>1 DEF TalkTypes, Meeting, InTurn, BothThere
  <2>4. Limits'
    BY <1>1, <1>2, <2>1 DEF Limits, ToCome
  <2> QED
    BY <2>2, <2>3, <2>4
<1> QED
  BY <1>3, <1>4, <1>5

(* A side that ends by itself.                                              *)
LEMMA Ending ==
    ASSUME TalkIInv, NEW s \in EX!Sides, EX!Sigpipe(s) \/ EX!Kill(s)
    PROVE  TalkIInv'
<1> USE DEF TalkIInv
<1>1. UNCHANGED <<protocol, linked, inbox, rounds, reset>> /\ at' = [at EXCEPT ![s] = "ended"]
      /\ at[s] \in {"send", "recv"}
  BY DEF EX!Sigpipe, EX!Kill
<1>2. /\ EX!Sides = {"client", "server"} /\ Rounds \in Nat \ {0}
      /\ rounds["client"] \in Nat /\ rounds["server"] \in Nat
  BY SocketConstants DEF EX!Sides, TalkTypes
<1>3. at'[s] = "ended" /\ \A r \in EX!Sides \ {s} : at'[r] = at[r]
  BY <1>1 DEF TalkTypes
<1>4. TalkTypes'
  BY <1>1 DEF TalkTypes
<1>5. Meeting' /\ InTurn'
  BY <1>1, <1>2, <1>3 DEF Meeting, InTurn, BothThere
<1>6. Limits'
  BY <1>1, <1>2, <1>3 DEF Limits, ToCome
<1> QED
  BY <1>4, <1>5, <1>6

(* What the end of a call does to the side that made it.                    *)
LEMMA Returns ==
    ASSUME TalkIInv, NEW s \in EX!Sides, NEW call \in {"send", "recv"}, at[s] = call,
           EX!Return(s, call), UNCHANGED protocol
    PROVE  /\ at' \in [EX!Sides -> {"new", "accept", "send", "recv", "ended"}]
           /\ rounds' \in [EX!Sides -> Nat]
           /\ \A r \in EX!Sides \ {s} : at'[r] = at[r] /\ rounds'[r] = rounds[r]
           /\ at'[s] \in {"send", "recv", "ended"}
           /\ call = EX!First(s) => rounds'[s] = rounds[s] /\ at'[s] = (IF call = "send" THEN "recv"
                                                                                       ELSE "send")
           /\ call # EX!First(s) => rounds'[s] = rounds[s] + 1 /\ at'[s] \in {EX!First(s), "ended"}
           /\ s = "server" \/ protocol = "SCTP" =>
                  rounds'[s] <= Rounds /\ (at'[s] \in {"send", "recv"} => rounds'[s] < Rounds)
           /\ s = "client" /\ protocol = "TCP" => at'[s] # "ended"
<1>1. rounds[s] \in Nat /\ Rounds \in Nat \ {0} /\ EX!First(s) \in {"send", "recv"}
  BY SocketConstants DEF TalkIInv, TalkTypes, EX!First
<1>2. \A r \in EX!Sides \ {s} : at'[r] = at[r] /\ rounds'[r] = rounds[r]
  BY DEF EX!Return, TalkIInv, TalkTypes
<1>3. CASE call = EX!First(s)
  <2>1. /\ rounds' = [rounds EXCEPT ![s] = @ + 0]
        /\ at' = [at EXCEPT ![s] = IF call = "send" THEN "recv" ELSE "send"]
    BY <1>3 DEF EX!Return
  <2>2. rounds'[s] = rounds[s] /\ at'[s] = IF call = "send" THEN "recv" ELSE "send"
    BY <1>1, <2>1 DEF TalkIInv, TalkTypes
  <2>3. rounds' \in [EX!Sides -> Nat]
    BY <1>1, <2>1 DEF TalkIInv, TalkTypes
  <2>4. at' \in [EX!Sides -> {"new", "accept", "send", "recv", "ended"}]
    BY <2>1 DEF TalkIInv, TalkTypes
  <2>5. s = "server" \/ protocol = "SCTP" => rounds[s] < Rounds
    BY DEF TalkIInv, Limits
  <2> QED
    BY <1>1, <1>2, <1>3, <2>2, <2>3, <2>4, <2>5
<1>4. CASE call # EX!First(s)
  <2>1. /\ rounds' = [rounds EXCEPT ![s] = @ + 1]
        /\ at' = [at EXCEPT ![s] = IF rounds'[s] = EX!Limit(s) THEN "ended" ELSE EX!First(s)]
    BY <1>4 DEF EX!Return
  <2>2. rounds'[s] = rounds[s] + 1 /\ rounds' \in [EX!Sides -> Nat]
    BY <1>1, <2>1 DEF TalkIInv, TalkTypes
  <2>3. /\ at'[s] = IF rounds[s] + 1 = EX!Limit(s) THEN "ended" ELSE EX!First(s)
        /\ at' \in [EX!Sides -> {"new", "accept", "send", "recv", "ended"}]
    BY <1>1, <2>1, <2>2 DEF TalkIInv, TalkTypes
  <2>4. s = "server" \/ protocol = "SCTP" => rounds[s] < Rounds /\ EX!Limit(s) = Rounds
    BY DEF TalkIInv, Limits, EX!Limit
  <2>5. s = "client" /\ protocol = "TCP" => EX!Limit(s) = 0
    BY DEF EX!Limit
  <2> QED
    BY <1>1, <1>2, <1>4, <2>2, <2>3, <2>4, <2>5
<1> QED
  BY <1>3, <1>4

LEMMA Talking ==
    ASSUME TalkIInv, NEW s \in EX!Sides, EX!Send(s) \/ EX!Recv(s)
    PROVE  TalkIInv'
<1> DEFINE call == at[s]
           r == EX!Peer(s)
<1>1. /\ call \in {"send", "recv"} /\ EX!Return(s, call) /\ UNCHANGED <<protocol, linked>>
  BY DEF EX!Send, EX!Recv
<1>2. /\ EX!Sides = {"client", "server"} /\ Rounds \in Nat \ {0}
      /\ rounds["client"] \in Nat /\ rounds["server"] \in Nat
      /\ inbox["client"] \in Nat /\ inbox["server"] \in Nat
  BY SocketConstants DEF EX!Sides, TalkIInv, TalkTypes
<1>3. r \in EX!Sides \ {s} /\ EX!Sides = {s, r} /\ s # r
      /\ <<s, r>> \in {<<"client", "server">>, <<"server", "client">>}
  BY <1>2 DEF EX!Peer
<1>4. /\ at' \in [EX!Sides -> {"new", "accept", "send", "recv", "ended"}]
      /\ rounds' \in [EX!Sides -> Nat]
      /\ at'[r] = at[r] /\ rounds'[r] = rounds[r]
      /\ at'[s] \in {"send", "recv", "ended"}
      /\ call = EX!First(s) => rounds'[s] = rounds[s] /\ at'[s] = (IF call = "send" THEN "recv"
                                                                                  ELSE "send")
      /\ call # EX!First(s) => rounds'[s] = rounds[s] + 1 /\ at'[s] \in {EX!First(s), "ended"}
      /\ s = "server" \/ protocol = "SCTP" =>
             rounds'[s] <= Rounds /\ (at'[s] \in {"send", "recv"} => rounds'[s] < Rounds)
      /\ s = "client" /\ protocol = "TCP" => at'[s] # "ended"
  <2>1. \A q \in EX!Sides \ {s} : at'[q] = at[q] /\ rounds'[q] = rounds[q]
    BY <1>1, Returns
  <2> QED
    BY <1>1, <1>3, <2>1, Returns
<1>5. /\ inbox' = IF call = "send" THEN [inbox EXCEPT ![r] = @ + (IF EX!Alone(s) THEN 0 ELSE 1)]
                  ELSE [inbox EXCEPT ![s] = IF @ > 0 THEN @ - 1 ELSE 0]
      /\ reset' = IF call = "send" /\ EX!Alone(s) THEN reset \cup {s} ELSE reset
      /\ call = "send" /\ linked => s \notin reset
      /\ call = "recv" => inbox[s] > 0 \/ EX!Alone(s)
  BY DEF EX!Send, EX!Recv
<1>6. /\ call = "send" => /\ inbox'[r] = inbox[r] + (IF EX!Alone(s) THEN 0 ELSE 1)
                          /\ inbox'[s] = inbox[s]
      /\ call = "recv" => /\ inbox'[s] = IF inbox[s] > 0 THEN inbox[s] - 1 ELSE 0
                          /\ inbox'[r] = inbox[r]
  BY <1>1, <1>3, <1>5 DEF TalkIInv, TalkTypes
<1>7. inbox' \in [EX!Sides -> Nat]
  <2>1. inbox[r] + (IF EX!Alone(s) THEN 0 ELSE 1) \in Nat
        /\ (IF inbox[s] > 0 THEN inbox[s] - 1 ELSE 0) \in Nat
    BY <1>2, <1>3
  <2> QED
    BY <1>5, <2>1 DEF TalkIInv, TalkTypes
<1>8. TalkTypes'
  BY <1>1, <1>3, <1>4, <1>5, <1>7 DEF TalkIInv, TalkTypes
<1>9. protocol \in {"TCP", "SCTP"} /\ (~linked => s = "client" /\ protocol = "SCTP")
      /\ at["client"] # "new"
  BY <1>1, <1>2, <1>3 DEF TalkIInv, TalkTypes, Meeting
<1>10. EX!Alone(s) <=> ~linked \/ at[r] = "ended"
  BY DEF EX!Alone
<1> HIDE DEF call, r
<1>11. Meeting'
  <2>1. ASSUME ~linked PROVE inbox'[s] = 0 /\ inbox'[r] = 0
    <3>1. inbox[s] = 0 /\ inbox[r] = 0
      BY <1>3, <2>1 DEF TalkIInv, Meeting
    <3> QED
      BY <1>1, <1>6, <1>10, <2>1, <3>1
  <2> QED
    BY <1>1, <1>2, <1>3, <1>4, <1>9, <2>1 DEF TalkIInv, Meeting
<1>12. EX!First(s) = IF (s = "client") = (protocol = "TCP") THEN "send" ELSE "recv"
  BY DEF EX!First, EX!Begins
<1>13. InTurn'
  <2> SUFFICES ASSUME BothThere' PROVE InTurn'
    BY DEF InTurn
  <2>1. linked /\ at[r] # "ended" /\ at[s] # "ended"
    BY <1>1, <1>3, <1>4 DEF BothThere, call
  <2>2. BothThere /\ reset' = {} /\ ~EX!Alone(s)
    BY <1>3, <1>5, <1>10, <2>1 DEF BothThere, TalkIInv, InTurn
  <2>3. rounds[s] \in Nat /\ rounds[r] \in Nat /\ inbox[s] \in Nat /\ inbox[r] \in Nat
    BY <1>2, <1>3
  <2>4. at[s] = call /\ at'[s] # "ended"
    BY <1>3 DEF call, BothThere
  <2>5. CASE EX!First(s) = "send"
    <3>1. Turn(s, r)
      BY <1>3, <1>9, <1>12, <2>2, <2>5 DEF TalkIInv, InTurn
    <3>2. Turn(s, r)'
      BY <1>1, <1>3, <1>4, <1>5, <1>6, <2>2, <2>3, <2>4, <2>5, <3>1 DEF Turn
    <3> QED
      BY <1>1, <1>3, <1>9, <1>12, <2>2, <2>5, <3>2 DEF InTurn
  <2>6. CASE EX!First(s) = "recv"
    <3>1. Turn(r, s)
      BY <1>3, <1>9, <1>12, <2>2, <2>6 DEF TalkIInv, InTurn
    <3>2. Turn(r, s)'
      BY <1>1, <1>3, <1>4, <1>5, <1>6, <2>2, <2>3, <2>4, <2>6, <3>1 DEF Turn
    <3> QED
      BY <1>1, <1>3, <1>9, <1>12, <2>2, <2>6, <3>2 DEF InTurn
  <2> QED
    BY <1>12, <2>5, <2>6
<1>14. Limits'
  <2>1. \A q \in EX!Sides : q = "server" \/ protocol = "SCTP" =>
            rounds'[q] <= Rounds /\ (at'[q] \in {"send", "recv"} => rounds'[q] < Rounds)
    BY <1>3, <1>4 DEF TalkIInv, Limits
  <2>2. ASSUME protocol = "TCP" PROVE rounds'["client"] + ToCome("client")' <= Rounds + 2
    <3>1. rounds["client"] + ToCome("client") <= Rounds + 2 /\ linked
      BY <1>9, <2>2 DEF TalkIInv, Limits
    <3>2. CASE s = "server"
      BY <1>3, <1>4, <1>5, <3>1, <3>2 DEF ToCome
    <3>3. CASE s = "client" /\ call = "recv"
      <4>1. rounds'[s] = rounds[s] + 1 /\ at'[s] = "send" /\ reset' = reset
        BY <1>4, <1>5, <1>12, <2>2, <3>3
      <4> QED
        BY <1>2, <3>1, <3>3, <4>1 DEF ToCome, call
    <3>4. CASE s = "client" /\ call = "send"
      <4>1. rounds'[s] = rounds[s] /\ at'[s] = "recv" /\ s \notin reset
        BY <1>4, <1>5, <1>12, <2>2, <3>1, <3>4
      <4>2. CASE EX!Alone(s)
        <5>1. s \in reset'
          BY <1>5, <3>4, <4>2
        <5> QED
          BY <1>2, <3>1, <3>4, <4>1, <5>1 DEF ToCome, call
      <4>3. CASE ~EX!Alone(s)
        <5>1. BothThere
          BY <1>3, <1>10, <3>4, <4>3 DEF BothThere, call
        <5>2. Turn(s, r)
          BY <1>3, <2>2, <3>4, <5>1 DEF TalkIInv, InTurn
        <5>3. rounds[s] <= rounds[r] /\ rounds[r] <= Rounds
          BY <1>2, <1>3, <2>2, <3>4, <5>2 DEF Turn, TalkIInv, Limits
        <5> QED
          BY <1>2, <1>3, <3>4, <4>1, <5>3 DEF ToCome
      <4> QED
        BY <4>2, <4>3
    <3> QED
      BY <1>1, <1>3, <3>2, <3>3, <3>4
  <2> QED
    BY <1>1, <2>1, <2>2 DEF Limits
<1> QED
  BY <1>8, <1>11, <1>13, <1>14 DEF TalkIInv

LEMMA TalkSteps == TalkIInv /\ [EX!Next]_exVars => TalkIInv'
<1>1. ASSUME UNCHANGED exVars, TalkIInv PROVE TalkIInv'
  BY <1>1 DEF exVars, TalkIInv, TalkTypes, Meeting, InTurn, BothThere, Turn, Limits, ToCome
<1> QED
  BY <1>1, MeetingSteps, Ending, Talking DEF EX!Next, EX!Talk

(* The two peers take turns, over TCP and over SCTP, for any number of      *)
(* rounds: no two messages are under way at one time.                       *)
THEOREM TurnsTaken == Lessons => []EX!TakesTurns
<1>1. TalkIInv => EX!TakesTurns
  <2> SUFFICES ASSUME TalkIInv, BothThere PROVE EX!TakesTurns
    BY DEF BothThere, EX!TakesTurns
  <2>1. protocol \in {"TCP", "SCTP"}
    BY DEF TalkIInv, TalkTypes, Meeting, BothThere
  <2>2. Turn("client", "server") \/ Turn("server", "client")
    BY <2>1 DEF TalkIInv, InTurn
  <2>3. /\ EX!Sides = {"client", "server"} /\ EX!Peer("client") = "server"
        /\ EX!Peer("server") = "client"
        /\ rounds["client"] \in Nat /\ rounds["server"] \in Nat
    BY DEF EX!Sides, EX!Peer, TalkIInv, TalkTypes
  <2> QED
    BY <2>2, <2>3 DEF Turn, EX!TakesTurns
<1>2. AtStart => TalkIInv
  BY TalkStarts DEF AtStart
<1>3. TalkIInv /\ [Step]_vars => TalkIInv'
  BY OneProgram, TalkSteps
<1> QED
  BY <1>1, <1>2, <1>3, PTL DEF Lessons

-----------------------------------------------------------------------------
(* The invariants of the five programs give their types.                    *)
THEOREM Types == Lessons => []TypesOK
<1> DEFINE IInv == ServerIInv /\ ChatIInv /\ TracerIInv /\ TalkIInv /\ ChecksumIInv
<1>1. AtStart => IInv
  BY ServerStarts, ChatStarts, TracerStarts, TalkStarts, ChecksumStarts DEF AtStart
<1>2. IInv /\ [Step]_vars => IInv'
  BY OneProgram, ServerSteps, ChatSteps, TracerSteps, TalkSteps, ChecksumSteps
<1>3. IInv => TypesOK
  <2> SUFFICES ASSUME IInv PROVE TypesOK
    OBVIOUS
  <2>1. MS!TypeOK
    BY DEF ServerIInv, ServerTypes, ClientTypes, MS!TypeOK
  <2>2. TC!TypeOK
    <3>1. ASSUME NEW c \in Callers PROVE up[c] \in 0..MaxLines /\ units[c] \in 0..(2 * MaxLines)
      BY SocketConstants DEF ChatIInv, ChatTypes, Counts, HasRead
    <3> QED
      BY <3>1 DEF ChatIInv, ChatTypes, Counts, TC!TypeOK
  <2>3. TR!TypeOK
    BY DEF TracerIInv, TracerTypes
  <2>4. EX!TypeOK
    <3>1. \A s \in EX!Sides : rounds[s] \in 0..(Rounds + 2)
      BY SocketConstants DEF TalkIInv, TalkTypes, Meeting, Limits, ToCome, EX!Sides
    <3> QED
      BY <3>1 DEF TalkIInv, TalkTypes, EX!TypeOK
  <2>5. TypeOK
    BY DEF ChecksumIInv
  <2> QED
    BY <2>1, <2>2, <2>3, <2>4, <2>5 DEF TypesOK
<1> HIDE DEF IInv
<1> QED
  BY <1>1, <1>2, <1>3, PTL DEF Lessons
=================================================================================
