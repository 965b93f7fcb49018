------------------------- MODULE MeasurementsProofs -------------------------
(***************************************************************************)
(* What a phase of the loaded-latency diagnostic and a report of the       *)
(* background advisor never do, and what makes the verdict of a comparison *)
(* of benchmarks: for any streams, budget, processes, services and runs.   *)
(***************************************************************************)
EXTENDS Measurements, Integers, TLAPS, FiniteSetTheorems

-----------------------------------------------------------------------------
(* The load phase                                                          *)

StreamState == [step : {"loop", "transfer", "answer", "done"},
                remaining : Nat, size : Nat, body : Nat]

LoadTypes == /\ mode \in {"download", "upload"}
             /\ stream \in [Streams -> StreamState]
             /\ total \in Nat /\ late \in Nat

\* A stream in a request still has budget, and does not send more of it.
InBudget(x) ==
    /\ x.remaining <= Share
    /\ x.step = "transfer" => x.remaining > 0
    /\ x.step = "transfer" /\ mode = "upload" => x.body <= x.size /\ x.size <= x.remaining

\* What a stream has transferred; a failed request is not taken from its
\* budget, but was its last.
Transferred(x) == IF mode = "upload" /\ x.step = "transfer"
                  THEN Share - x.remaining + (x.size - x.body)
                  ELSE Share - x.remaining

\* The units of each stream, numbered.
Units(used) == {u \in Streams \X (1..Share) : u[2] <= used[u[1]]}

Counted(used) == /\ used \in [Streams -> 0..Share]
                 /\ \A s \in Streams : stream[s].step # "done" => used[s] = Transferred(stream[s])
                 /\ total = Cardinality(Units(used)) + late

\* The wait group counts the streams that have not ended, and the caller
\* returns only after its channel is closed.
Running == {s \in Streams : stream[s].step # "done"}
GroupInv == /\ workers = Cardinality(Running)
            /\ closed => workers = 0
            /\ step = "returned" => closed

LoadInv == /\ LoadTypes
           /\ GroupInv
           /\ \A s \in Streams : InBudget(stream[s])
           /\ \E used : Counted(used)

LEMMA ShareFits == /\ Share \in Nat
                   /\ Cardinality(Streams) \in Nat \ {0}
                   /\ Share * Cardinality(Streams) <= PhaseBudget
<1>1. Cardinality(Streams) \in Nat \ {0}
  BY StreamsAssumption, FS_CardinalityType, FS_EmptySet
<1>2. ASSUME NEW n \in Nat \ {0}, NEW b \in Nat
      PROVE  b \div n \in Nat /\ (b \div n) * n <= b
  OBVIOUS
<1> QED
  BY <1>1, <1>2, SizesAssumption DEF Share

LEMMA UnitsBounded ==
    ASSUME NEW used
    PROVE  /\ IsFiniteSet(Units(used)) /\ Cardinality(Units(used)) \in Nat
           /\ Cardinality(Units(used)) <= PhaseBudget
<1>1. IsFiniteSet(1..Share) /\ Cardinality(1..Share) = Share
  BY ShareFits, FS_Interval
<1>2. /\ IsFiniteSet(Streams \X (1..Share))
      /\ Cardinality(Streams \X (1..Share)) = Cardinality(Streams) * Share
  BY <1>1, StreamsAssumption, FS_Product
<1>3. Units(used) \subseteq Streams \X (1..Share)
  BY DEF Units
<1>4. /\ IsFiniteSet(Units(used)) /\ Cardinality(Units(used)) \in Nat
      /\ Cardinality(Units(used)) <= Cardinality(Streams) * Share
  BY <1>2, <1>3, FS_Subset, FS_CardinalityType
<1>5. \A m, n \in Nat : m * n = n * m
  OBVIOUS
<1> QED
  BY <1>4, <1>5, ShareFits, SizesAssumption

\* One more unit of one stream.
LEMMA OneMoreUnit ==
    ASSUME NEW used \in [Streams -> 0..Share], NEW s \in Streams, used[s] < Share
    PROVE  /\ [used EXCEPT ![s] = @ + 1] \in [Streams -> 0..Share]
           /\ Cardinality(Units([used EXCEPT ![s] = @ + 1])) = Cardinality(Units(used)) + 1
<1> DEFINE more == [used EXCEPT ![s] = @ + 1]
           u == <<s, used[s] + 1>>
<1>1. more \in [Streams -> 0..Share] /\ u \in Streams \X (1..Share)
  BY ShareFits
<1>2. u \notin Units(used)
  BY ShareFits DEF Units
<1>3. Units(more) = Units(used) \cup {u}
  BY ShareFits DEF Units
<1> HIDE DEF more, u
<1>4. Cardinality(Units(more)) = Cardinality(Units(used)) + 1
  BY <1>2, <1>3, UnitsBounded, FS_AddElement
<1> QED
  BY <1>1, <1>4 DEF more


LEMMA LoadInitially == LoadInit => LoadInv
<1> SUFFICES ASSUME LoadInit PROVE LoadInv
  OBVIOUS
<1> DEFINE idle == [step |-> "loop", remaining |-> Share, size |-> 0, body |-> 0]
           used == [s \in Streams |-> 0]
<1>1. mode \in {"download", "upload"} /\ total = 0 /\ late = 0 /\ step = "warm up"
  BY DEF LoadInit
<1>2. stream = [s \in Streams |-> idle]
  BY DEF LoadInit
<1>3. \A s \in Streams : stream[s] = idle
  BY <1>2
<1>4. /\ idle \in StreamState /\ idle.step = "loop" /\ idle.remaining = Share
  BY ShareFits DEF StreamState
<1>5. InBudget(idle) /\ Transferred(idle) = 0
  BY <1>4, ShareFits DEF InBudget, Transferred
<1>6. used \in [Streams -> 0..Share] /\ \A s \in Streams : used[s] = 0
  BY ShareFits
<1> HIDE DEF idle, used
<1>7. LoadTypes /\ GroupInv /\ \A s \in Streams : InBudget(stream[s])
  <2>1. Running = Streams
    BY <1>3, <1>4 DEF Running
  <2>2. GroupInv
    BY <1>1, <2>1 DEF GroupInv, LoadInit
  <2> QED
    BY <1>1, <1>3, <1>4, <1>5, <1>2, <2>2 DEF LoadTypes
<1>8. Units(used) = {}
  <2>1. \A n \in 1..Share : ~(n <= 0)
    BY ShareFits
  <2> QED
    BY <1>6, <2>1 DEF Units
<1>9. Counted(used)
  <2>1. Cardinality(Units(used)) = 0
    BY <1>8, FS_EmptySet, Zenon
  <2>2. total = Cardinality(Units(used)) + late
    <3>1. \A c, t, l : c = 0 /\ t = 0 /\ l = 0 => t = c + l
      OBVIOUS
    <3> QED
      BY <1>1, <2>1, <3>1, Zenon
  <2>3. \A s \in Streams : used[s] = Transferred(stream[s])
    BY <1>3, <1>5, <1>6
  <2> QED
    BY <1>6, <2>2, <2>3 DEF Counted
<1> QED
  BY <1>7, <1>9 DEF LoadInv

LEMMA RunningCounted == IsFiniteSet(Running) /\ Cardinality(Running) \in Nat
<1>1. Running \subseteq Streams
  BY DEF Running
<1> QED
  BY <1>1, StreamsAssumption, FS_Subset, FS_CardinalityType

LEMMA GroupStep ==
    ASSUME LoadTypes, GroupInv, NEW s \in Streams, Stream(s)
    PROVE  GroupInv'
<1>1. step' = step /\ closed' = closed
  BY DEF Stream, Request, LoadEnds, RequestFails, Leaves, Receive, Send, Answer, CloseAnswer,
     callerVars, group
<1>2. CASE /\ stream[s].step # "done" /\ workers' = workers - 1
           /\ stream' = [stream EXCEPT ![s].step = "done"]
  <2>1. Running' = Running \ {s} /\ s \in Running
    BY <1>2 DEF Running, LoadTypes, StreamState
  <2>2. Cardinality(Running \ {s}) = Cardinality(Running) - 1 /\ Cardinality(Running) \in Nat
    BY <2>1, RunningCounted, FS_RemoveElement
  <2>3. Cardinality(Running) # 0
    BY <2>1, RunningCounted, FS_EmptySet
  <2>4. workers' = Cardinality(Running)'
    BY <1>2, <2>1, <2>2 DEF GroupInv
  <2>5. ~closed
    BY <2>3 DEF GroupInv
  <2> QED
    BY <1>1, <2>4, <2>5 DEF GroupInv
<1>3. CASE /\ workers' = workers
           /\ \A t \in Streams : stream'[t].step = "done" <=> stream[t].step = "done"
  <2>1. Running' = Running
    BY <1>3 DEF Running
  <2> QED
    BY <1>1, <1>3, <2>1 DEF GroupInv
<1>4. CASE LoadEnds(s) \/ RequestFails(s)
  <2>1. /\ stream[s].step # "done" /\ workers' = workers - 1
        /\ stream' = [stream EXCEPT ![s].step = "done"]
    BY <1>4 DEF LoadEnds, RequestFails, Leaves
  <2> QED
    BY <1>2, <2>1
<1>5. CASE Request(s) \/ Receive(s) \/ Send(s) \/ Answer(s) \/ CloseAnswer(s)
  <2>1. workers' = workers
    BY <1>5 DEF Request, Receive, Send, Answer, CloseAnswer, group
  <2>2. \A t \in Streams : stream'[t].step = "done" <=> stream[t].step = "done"
    <3>1. PICK x : /\ stream' = [stream EXCEPT ![s] = x]
                   /\ x.step = "done" <=> stream[s].step = "done"
      <4>1. stream[s] \in StreamState
        BY DEF LoadTypes
      <4>2. CASE Request(s)
        <5>1. PICK x : /\ stream' = [stream EXCEPT ![s] = x]
                       /\ \E size, body :
                            \/ x = [stream[s] EXCEPT !.step = "transfer", !.size = size,
                                                     !.body = body]
                            \/ x = [stream[s] EXCEPT !.step = "transfer", !.body = body]
          <6>1. CASE mode = "upload"
            <7> DEFINE size == Min2(stream[s].remaining, RequestSize)
                       x == [stream[s] EXCEPT !.step = "transfer", !.size = size, !.body = size]
            <7>1. stream' = [stream EXCEPT ![s] = x]
              BY <4>2, <6>1 DEF Request
            <7> QED
              BY <7>1
          <6>2. CASE mode = "download"
            <7>1. PICK length \in 0..RequestSize :
                    stream' = [stream EXCEPT ![s] = [@ EXCEPT !.step = "transfer", !.body = length]]
              BY <4>2, <6>2 DEF Request
            <7> DEFINE x == [stream[s] EXCEPT !.step = "transfer", !.body = length]
            <7>2. stream' = [stream EXCEPT ![s] = x]
              BY <7>1
            <7> QED
              BY <7>2
          <6> QED
            BY <6>1, <6>2 DEF LoadTypes
        <5>2. stream[s].step = "loop" /\ x.step = "transfer"
          BY <4>1, <4>2, <5>1 DEF Request, StreamState
        <5> QED
          BY <5>1, <5>2
      <4>3. CASE Receive(s)
        BY <4>1, <4>3 DEF Receive, StreamState
      <4>4. CASE Send(s)
        <5> DEFINE x == [stream[s] EXCEPT !.body = @ - 1]
        <5>1. stream' = [stream EXCEPT ![s] = x]
          BY <4>4 DEF Send
        <5>2. x.step = stream[s].step
          BY <4>1 DEF StreamState
        <5> QED
          BY <5>1, <5>2
      <4>5. CASE Answer(s) \/ CloseAnswer(s)
        BY <4>1, <4>5 DEF Answer, CloseAnswer, StreamState
      <4> QED
        BY <1>5, <4>2, <4>3, <4>4, <4>5
    <3> QED
      BY <3>1 DEF LoadTypes
  <2> QED
    BY <1>3, <2>1, <2>2
<1> QED
  BY <1>4, <1>5 DEF Stream

\* What a step of stream s comes to.
Becomes(s, x) == x \in StreamState /\ stream' = [stream EXCEPT ![s] = x] /\ mode' = mode
Idles(s, x) == /\ Becomes(s, x) /\ total' = total /\ late' = late
               /\ InBudget(x)
               /\ \/ x.step = "done"
                  \/ stream[s].step # "done" /\ Transferred(x) = Transferred(stream[s])
TransfersOne(s, x) == /\ Becomes(s, x) /\ total' = total + 1 /\ late' = late
                      /\ InBudget(x) /\ stream[s].step # "done" /\ x.step # "done"
                      /\ Transferred(x) = Transferred(stream[s]) + 1
                      /\ Transferred(x) <= Share
ReadLate(s, x) == /\ Becomes(s, x) /\ total' = total + 1 /\ late' = late + 1
                  /\ x.step = stream[s].step /\ x.step # "transfer"
                  /\ x.remaining = stream[s].remaining

LEMMA StreamMoves ==
    ASSUME LoadTypes, NEW s \in Streams, InBudget(stream[s]), Stream(s)
    PROVE  \E x : Idles(s, x) \/ TransfersOne(s, x) \/ ReadLate(s, x)
<1> DEFINE y == stream[s]
<1>1. y \in StreamState /\ mode \in {"download", "upload"} /\ Share \in Nat
  BY ShareFits DEF LoadTypes
<1>2. InBudget(y)
  OBVIOUS
<1> HIDE DEF y
<1>3. CASE Request(s)
  <2>1. PICK size \in Nat, body \in Nat :
          /\ stream' = [stream EXCEPT ![s] = [y EXCEPT !.step = "transfer", !.size = size,
                                                       !.body = body]]
          /\ mode = "upload" => size <= y.remaining /\ body = size
    <3>1. CASE mode = "upload"
      <4> DEFINE size == Min2(y.remaining, RequestSize)
      <4>1. size \in Nat /\ size <= y.remaining
        BY <1>1, SizesAssumption DEF Min2, StreamState
      <4>2. stream' = [stream EXCEPT ![s] = [y EXCEPT !.step = "transfer", !.size = size,
                                                      !.body = size]]
        BY <1>3, <3>1 DEF Request, y
      <4> HIDE DEF size
      <4> QED
        BY <4>1, <4>2
    <3>2. CASE mode = "download"
      <4>1. PICK length \in 0..RequestSize :
              stream' = [stream EXCEPT ![s] = [@ EXCEPT !.step = "transfer", !.body = length]]
        BY <1>3, <3>2 DEF Request
      <4>2. length \in Nat
        BY SizesAssumption
      <4> DEFINE size == y.size
      <4>3. size \in Nat
        BY <1>1 DEF StreamState
      <4>4. [y EXCEPT !.step = "transfer", !.body = length]
              = [y EXCEPT !.step = "transfer", !.size = size, !.body = length]
        BY <1>1 DEF StreamState
      <4>5. stream' = [stream EXCEPT ![s] = [y EXCEPT !.step = "transfer", !.body = length]]
        BY <4>1 DEF y
      <4> HIDE DEF size
      <4> QED
        BY <3>2, <4>2, <4>3, <4>4, <4>5
    <3> QED
      BY <1>1, <3>1, <3>2
  <2> DEFINE x == [y EXCEPT !.step = "transfer", !.size = size, !.body = body]
  <2>2. /\ stream' = [stream EXCEPT ![s] = x] /\ y.step = "loop" /\ y.remaining > 0
        /\ mode' = mode /\ total' = total /\ late' = late
    BY <1>3, <2>1 DEF Request, y
  <2>3. /\ x \in StreamState /\ x.step = "transfer" /\ x.remaining = y.remaining
        /\ x.size = size /\ x.body = body
    BY <1>1, <2>1 DEF StreamState
  <2> HIDE DEF x
  <2>4. InBudget(x) /\ Transferred(x) = Transferred(y)
    BY <1>1, <1>2, <2>1, <2>2, <2>3 DEF InBudget, Transferred, StreamState
  <2>5. Idles(s, x)
    BY <2>2, <2>3, <2>4 DEF Idles, Becomes, y
  <2> QED
    BY <2>5
<1>4. CASE LoadEnds(s) \/ RequestFails(s)
  <2> DEFINE x == [y EXCEPT !.step = "done"]
  <2>1. stream' = [stream EXCEPT ![s] = x] /\ mode' = mode /\ total' = total /\ late' = late
    BY <1>4 DEF LoadEnds, RequestFails, Leaves, y
  <2>2. x \in StreamState /\ x.step = "done" /\ x.remaining = y.remaining
    BY <1>1 DEF StreamState
  <2> HIDE DEF x
  <2>3. Idles(s, x)
    BY <1>2, <2>1, <2>2 DEF Idles, Becomes, InBudget
  <2> QED
    BY <2>3
<1>5. CASE Receive(s)
  <2>1. mode = "download" /\ y.step = "transfer" /\ mode' = mode /\ late' = late
    BY <1>5 DEF Receive, y
  <2>2. CASE y.body = 0
    <3> DEFINE x == [y EXCEPT !.step = "loop"]
    <3>1. stream' = [stream EXCEPT ![s] = x] /\ total' = total
      BY <1>5, <2>2 DEF Receive, y
    <3>2. x \in StreamState /\ x.step = "loop" /\ x.remaining = y.remaining
      BY <1>1 DEF StreamState
    <3> HIDE DEF x
    <3>3. Idles(s, x)
      BY <1>2, <2>1, <3>1, <3>2 DEF Idles, Becomes, InBudget, Transferred, y
    <3> QED
      BY <3>3
  <2>3. CASE y.body # 0 /\ y.remaining > 0
    <3> DEFINE next == IF stream[s].remaining = 1 THEN "loop" ELSE "transfer"
               x == [stream[s] EXCEPT !.body = @ - 1, !.remaining = @ - 1, !.step = next]
    <3>1. /\ stream' = [stream EXCEPT ![s].body = @ - 1, ![s].remaining = @ - 1, ![s].step = next]
          /\ total' = total + 1
      BY <1>5, <2>3 DEF Receive, y
    <3>2. next \in {"loop", "transfer"} /\ (next = "loop" <=> y.remaining = 1)
      BY DEF y
    <3> HIDE DEF next
    <3>3. stream' = [stream EXCEPT ![s] = x] /\ total' = total + 1
      BY <3>1
    <3> DEFINE b == y.body - 1
               r == y.remaining - 1
    <3>4. b \in Nat /\ r \in Nat
      BY <1>1, <2>3 DEF StreamState
    <3>5. x = [y EXCEPT !.body = b, !.remaining = r, !.step = next]
      BY DEF y
    <3> HIDE DEF x, b, r
    <3>6. /\ x \in StreamState /\ x.remaining = r /\ x.step = next
      BY <1>1, <3>2, <3>4, <3>5 DEF StreamState
    <3>7. TransfersOne(s, x)
      BY <1>1, <1>2, <2>1, <2>3, <3>3, <3>6, <3>2 DEF TransfersOne, Becomes, InBudget, Transferred,
         StreamState, y, r
    <3> QED
      BY <3>7
  <2> QED
    BY <1>1, <1>2, <2>1, <2>2, <2>3 DEF InBudget, StreamState
<1>6. CASE Send(s)
  <2> DEFINE x == [y EXCEPT !.body = @ - 1]
  <2>1. /\ stream' = [stream EXCEPT ![s] = x] /\ mode' = mode /\ mode = "upload" /\ y.body > 0
        /\ total' = total + 1 /\ late' = IF y.step = "transfer" THEN late ELSE late + 1
    BY <1>6 DEF Send, y
  <2>2. /\ x \in StreamState /\ x.step = y.step /\ x.remaining = y.remaining
        /\ x.size = y.size /\ x.body = y.body - 1
    BY <1>1, <2>1 DEF StreamState
  <2> HIDE DEF x
  <2>3. y.step = "transfer" => TransfersOne(s, x)
    BY <1>1, <1>2, <2>1, <2>2 DEF TransfersOne, Becomes, InBudget, Transferred,
       StreamState, y
  <2>4. y.step # "transfer" => ReadLate(s, x)
    BY <2>1, <2>2 DEF ReadLate, Becomes, y
  <2> QED
    BY <2>3, <2>4
<1>7. CASE Answer(s)
  <2> DEFINE left == y.remaining - (y.size - y.body)
             x == [y EXCEPT !.step = "answer", !.remaining = left]
  <2>1. /\ stream' = [stream EXCEPT ![s] = x] /\ mode' = mode /\ mode = "upload"
        /\ y.step = "transfer" /\ total' = total /\ late' = late
    <3>1. stream' = [stream EXCEPT ![s].step = "answer",
                                   ![s].remaining = @ - (stream[s].size - stream[s].body)]
      BY <1>7 DEF Answer
    <3>2. x = [stream[s] EXCEPT !.step = "answer",
                  !.remaining = @ - (stream[s].size - stream[s].body)]
      BY DEF y
    <3> QED
      BY <1>7, <3>1, <3>2 DEF Answer, y
  <2>2. left \in Nat /\ left <= y.remaining
    BY <1>1, <1>2, <2>1 DEF InBudget, StreamState
  <2>3. Share - left = Share - y.remaining + (y.size - y.body)
    BY <1>1 DEF StreamState
  <2> HIDE DEF left
  <2>4. x \in StreamState /\ x.step = "answer" /\ x.remaining = left
    BY <1>1, <2>2 DEF StreamState
  <2> HIDE DEF x
  <2>5. Idles(s, x)
    BY <1>1, <1>2, <2>1, <2>2, <2>3, <2>4 DEF Idles, Becomes, InBudget, Transferred, StreamState, y
  <2> QED
    BY <2>5
<1>8. CASE CloseAnswer(s)
  <2> DEFINE x == [y EXCEPT !.step = "loop"]
  <2>1. /\ stream' = [stream EXCEPT ![s] = x] /\ y.step = "answer"
        /\ mode' = mode /\ total' = total /\ late' = late
    BY <1>8 DEF CloseAnswer, y
  <2>2. x \in StreamState /\ x.step = "loop" /\ x.remaining = y.remaining
    BY <1>1 DEF StreamState
  <2> HIDE DEF x
  <2>3. Idles(s, x)
    BY <1>2, <2>1, <2>2 DEF Idles, Becomes, InBudget, Transferred, y
  <2> QED
    BY <2>3
<1> QED
  BY <1>3, <1>4, <1>5, <1>6, <1>7, <1>8 DEF Stream

\* The three kinds of step, as far as the sum of all streams goes.
LEMMA StreamStep ==
    ASSUME LoadInv, NEW s \in Streams, Stream(s)
    PROVE  LoadInv'
<1> USE DEF LoadInv
<1>1. PICK x : Idles(s, x) \/ TransfersOne(s, x) \/ ReadLate(s, x)
  BY StreamMoves
<1>2. PICK used : Counted(used)
  OBVIOUS
<1>3. Becomes(s, x) /\ LoadTypes
  BY <1>1 DEF Idles, TransfersOne, ReadLate
<1>4. /\ stream'[s] = x /\ mode' = mode
      /\ \A t \in Streams \ {s} : stream'[t] = stream[t]
  BY <1>3 DEF Becomes, LoadTypes
<1>5. total \in Nat /\ late \in Nat /\ total' \in Nat /\ late' \in Nat
  BY <1>1, <1>3 DEF LoadTypes, Idles, TransfersOne, ReadLate
<1>6. LoadTypes'
  BY <1>3, <1>5 DEF LoadTypes, Becomes
<1>7. GroupInv'
  BY GroupStep
<1>8. \A t \in Streams : InBudget(stream[t])'
  <2>1. InBudget(x)
    BY <1>1 DEF Idles, TransfersOne, ReadLate, InBudget
  <2> QED
    BY <1>4, <2>1 DEF InBudget
<1>9. \A t \in Streams \ {s} : Transferred(stream[t])' = Transferred(stream[t])
  BY <1>4 DEF Transferred
<1>10. Transferred(stream[s])' = Transferred(x)
  BY <1>4 DEF Transferred
<1>11. /\ used \in [Streams -> 0..Share]
       /\ \A t \in Streams : stream[t].step # "done" => used[t] = Transferred(stream[t])
       /\ total = Cardinality(Units(used)) + late
  BY <1>2 DEF Counted
<1>12. Cardinality(Units(used)) \in Nat /\ Share \in Nat
  BY UnitsBounded, ShareFits
<1>13. \E all : Counted(all)'
  <2>1. CASE Idles(s, x)
    <3>1. \A t \in Streams : stream'[t].step # "done" => used[t] = Transferred(stream[t])'
      BY <1>4, <1>9, <1>10, <1>11, <2>1 DEF Idles
    <3>2. total' = Cardinality(Units(used)) + late'
      BY <1>11, <2>1 DEF Idles
    <3>3. Counted(used)'
      BY <1>11, <3>1, <3>2 DEF Counted
    <3> QED
      BY <3>3
  <2>2. CASE TransfersOne(s, x)
    <3> DEFINE more == [used EXCEPT ![s] = @ + 1]
    <3>1. used[s] < Share /\ used[s] = Transferred(stream[s])
      BY <1>11, <1>12, <2>2 DEF TransfersOne
    <3>2. /\ more \in [Streams -> 0..Share]
          /\ Cardinality(Units(more)) = Cardinality(Units(used)) + 1
      BY <1>11, <3>1, OneMoreUnit
    <3>3. more[s] = used[s] + 1 /\ \A t \in Streams \ {s} : more[t] = used[t]
      BY <1>11
    <3> HIDE DEF more
    <3>4. \A t \in Streams : stream'[t].step # "done" => more[t] = Transferred(stream[t])'
      BY <1>4, <1>9, <1>10, <1>11, <2>2, <3>1, <3>3 DEF TransfersOne
    <3>5. total' = Cardinality(Units(more)) + late'
      BY <1>5, <1>11, <1>12, <2>2, <3>2 DEF TransfersOne
    <3>6. Counted(more)'
      BY <3>2, <3>4, <3>5 DEF Counted
    <3> QED
      BY <3>6
  <2>3. CASE ReadLate(s, x)
    <3>1. Transferred(x) = Transferred(stream[s]) /\ x.step = stream[s].step
      BY <2>3 DEF ReadLate, Transferred
    <3>2. \A t \in Streams : stream'[t].step # "done" => used[t] = Transferred(stream[t])'
      BY <1>4, <1>9, <1>10, <1>11, <3>1
    <3>3. total' = Cardinality(Units(used)) + late'
      BY <1>5, <1>11, <1>12, <2>3 DEF ReadLate
    <3>4. Counted(used)'
      BY <1>11, <3>2, <3>3 DEF Counted
    <3> QED
      BY <3>4
  <2> QED
    BY <1>1, <2>1, <2>2, <2>3
<1> QED
  BY <1>6, <1>7, <1>8, <1>13

\* The streams are left alone.
LEMMA OtherStep ==
    ASSUME LoadInv, UNCHANGED <<mode, stream, total, workers, late>>,
           closed' => closed \/ workers = 0,
           closed => closed', step' = "returned" => step = "returned" \/ closed
    PROVE  LoadInv'
<1>1. /\ mode' = mode /\ stream' = stream /\ total' = total /\ late' = late
      /\ workers' = workers
  OBVIOUS
<1>2. LoadTypes' /\ GroupInv'
  BY <1>1 DEF LoadInv, LoadTypes, GroupInv, Running
<1>3. \A s \in Streams : InBudget(stream[s])'
  BY <1>1 DEF LoadInv, InBudget
<1>4. PICK used : Counted(used)
  BY DEF LoadInv
<1>5. Counted(used)'
  BY <1>1, <1>4 DEF Counted, Transferred
<1> QED
  BY <1>2, <1>3, <1>5 DEF LoadInv

LEMMA LoadStep == LoadInv /\ LoadNext => LoadInv'
<1> SUFFICES ASSUME LoadInv, LoadNext PROVE LoadInv'
  OBVIOUS
<1>1. CASE \E s \in Streams : Stream(s)
  BY <1>1, StreamStep
<1>2. CASE Caller \/ Cancel \/ Expire \/ CloseWorkersDone
  <2>1. /\ UNCHANGED <<mode, stream, total, workers, late>>
        /\ closed' => closed \/ workers = 0
        /\ closed => closed'
        /\ step' = "returned" => step = "returned" \/ closed
    <3>1. CASE WarmUpEnds \/ ProbeAgain \/ Pause \/ ProbingEnds \/ Report
      <4>1. /\ UNCHANGED <<mode, stream, total, workers, late, closed>>
            /\ step' = "returned" => closed
        <5>1. CASE WarmUpEnds
          BY <5>1 DEF WarmUpEnds, CallerGoes, streamVars, group
        <5>2. CASE ProbeAgain \/ Pause
          BY <5>2 DEF ProbeAgain, Pause, CallerGoes, streamVars, group
        <5>3. CASE ProbingEnds
          BY <5>3 DEF ProbingEnds, CallerGoes, streamVars, group
        <5>4. CASE Report
          BY <5>4 DEF Report, CallerGoes, streamVars, group
        <5> QED
          BY <3>1, <5>1, <5>2, <5>3, <5>4
      <4> QED
        BY <4>1
    <3>2. CASE Dial
      BY <3>2 DEF Dial, streamVars, group
    <3>3. CASE Cancel \/ Expire
      BY <3>3 DEF Cancel, Expire, streamVars, group, callerVars
    <3>4. CASE CloseWorkersDone
      BY <3>4 DEF CloseWorkersDone, callerVars
    <3> QED
      BY <1>2, <3>1, <3>2, <3>3, <3>4 DEF Caller
  <2> QED
    BY <2>1, OtherStep
<1> QED
  BY <1>1, <1>2 DEF LoadNext

THEOREM LoadInvariant == Spec => []LoadInv
<1>1. Init => LoadInv
  BY LoadInitially DEF Init, LoadRests
<1>2. LoadInv /\ [Next]_vars => LoadInv'
  <2> SUFFICES ASSUME LoadInv, [Next]_vars PROVE LoadInv'
    OBVIOUS
  <2>1. CASE LoadNext
    BY <2>1, LoadStep
  <2>2. CASE UNCHANGED loadVars
    <3>1. UNCHANGED <<mode, stream, total, workers, late>> /\ step' = step /\ closed' = closed
      BY <2>2 DEF loadVars
    <3> QED
      BY <3>1, OtherStep
  <2> QED
    BY <2>1, <2>2 DEF Next, vars
<1> QED
  BY <1>1, <1>2, PTL DEF Spec

\* A phase returns only after all its streams have ended (runBufferbloatPhase
\* waits for the channel that is closed for the wait group), so that the next
\* is measured without its load.
THEOREM StreamsEnded == Spec => []QuietWhenReturned
<1>1. LoadInv => QuietWhenReturned
  <2> SUFFICES ASSUME LoadInv, step = "returned"
               PROVE  \A s \in Streams : stream[s].step = "done"
    BY DEF QuietWhenReturned
  <2>1. Cardinality(Running) = 0
    BY DEF LoadInv, GroupInv
  <2>2. Running = {}
    BY <2>1, RunningCounted, FS_EmptySet
  <2> QED
    BY <2>2 DEF Running
<1> QED
  BY <1>1, LoadInvariant, PTL

\* The streams together stay in the budget of the phase, whatever requests
\* fail and however answers and reads interleave; only what the transport
\* reads of a body after its answer comes on top.
THEOREM BudgetKept == Spec => []BytesBounded
<1>1. LoadInv => BytesBounded
  <2> SUFFICES ASSUME LoadInv PROVE BytesBounded
    OBVIOUS
  <2>1. PICK used : Counted(used)
    BY DEF LoadInv
  <2>2. /\ total = Cardinality(Units(used)) + late /\ late \in Nat
        /\ Cardinality(Units(used)) \in Nat
        /\ Cardinality(Units(used)) <= PhaseBudget
    BY <2>1, UnitsBounded DEF Counted, LoadInv, LoadTypes
  <2> QED
    BY <2>2, SizesAssumption DEF BytesBounded
<1> QED
  BY <1>1, LoadInvariant, PTL

-----------------------------------------------------------------------------
(* The background advisor                                                  *)

Process == [created : Nat, image : Images, cpu : Nat]
Advices == {"protected_service", "observe", "review_startup", "review_service"}
Item == [pid : Pids, created : Nat, cpu : Int, image : Images \cup {None},
         services : SUBSET Services, advice : Advices]

AdvisorTypes == /\ alive \in [Pids -> Process \cup {None}]
                /\ before \in [Pids -> Process \cup {None}]
                /\ created \in Nat
                /\ host \in [Services -> (Pids \X Nat) \cup {None}]
                /\ hostThen \in [Services -> (Pids \X Nat) \cup {None}]
                /\ items \in SUBSET Item

\* The host of a service is alive, and no process is from the future.
Hosted == \A s \in Services : host[s] # None =>
            /\ alive[host[s][1]] # None
            /\ host[s] = Id(host[s][1])
Created == \A p \in Pids : alive[p] # None => alive[p].created <= created

\* A PID is only ever reused by a later process: after a look at the PID of
\* the process created at time c.
Since(p, c) == c <= created /\ (alive[p] # None => alive[p].created >= c)

Measuring == phase \in {"before", "after"}
Linked == phase \in {"paths", "decorate", "done"}
MeasuredThen == ~Measuring => \A item \in items : Since(item.pid, item.created)
NotMeasured == Measuring => items = {}
NoImageYet == phase \in {"startup", "services", "paths"} => \A item \in items : item.image = None

\* The services were listed after the processes were measured.
HostedThen(s) == /\ Since(hostThen[s][1], hostThen[s][2])
                 /\ \A item \in items : item.pid = hostThen[s][1] => item.created <= hostThen[s][2]
ListedThen == Linked => /\ \A s \in Services : hostThen[s] # None => HostedThen(s)
                        /\ \A s \in Services, p \in Pids :
                             <<s, p>> \in listed <=> hostThen[s] # None /\ hostThen[s][1] = p

\* A process that was found under its PID once more, after the services were
\* listed, was their host then.
FoundIsHost == phase = "decorate" =>
  \A item \in items : item.image # None =>
    \A s \in Services : <<s, item.pid>> \in listed => hostThen[s] = <<item.pid, item.created>>

AdvisorInv == /\ AdvisorTypes
              /\ phase \in {"before", "after", "startup", "services", "paths", "decorate", "done"}
              /\ Hosted
              /\ Created
              /\ NotMeasured
              /\ MeasuredThen
              /\ NoImageYet
              /\ ListedThen
              /\ FoundIsHost
              /\ AdviceSafe

\* What goes on besides the report: a PID keeps its process, loses it, or
\* gets a later one.
Later == /\ created' \in Nat /\ created <= created'
         /\ \A p \in Pids : alive'[p] # None =>
              \/ alive[p] # None /\ alive'[p].created = alive[p].created
              \/ alive'[p].created \in created + 1 .. created'
Outside(pid) == StartProcess(pid) \/ EndProcess(pid) \/ Work(pid)

LEMMA IsProcess ==
    ASSUME AdvisorTypes, NEW p \in Pids, alive[p] # None
    PROVE  /\ alive[p] \in Process /\ alive[p].created \in Nat
           /\ Id(p) \in Pids \X Nat /\ Id(p)[1] = p /\ Id(p)[2] = alive[p].created
BY DEF AdvisorTypes, Process, Id

LEMMA SinceStays ==
    ASSUME AdvisorTypes, Created, Later, NEW p \in Pids, NEW c \in Nat, Since(p, c)
    PROVE  Since(p, c)'
<1>1. created \in Nat /\ created' \in Nat /\ created <= created' /\ c <= created
  BY DEF AdvisorTypes, Later, Since
<1>2. ASSUME alive'[p] # None PROVE alive'[p].created >= c
  <2>1. CASE alive[p] # None /\ alive'[p].created = alive[p].created
    BY <2>1 DEF Since
  <2>2. CASE alive'[p].created \in created + 1 .. created'
    BY <1>1, <2>2
  <2> QED
    BY <1>2, <2>1, <2>2 DEF Later
<1> QED
  BY <1>1, <1>2 DEF Since

LEMMA OutsideStep ==
    ASSUME AdvisorInv, NEW pid \in Pids, Outside(pid)
    PROVE  AdvisorTypes' /\ Hosted' /\ Created' /\ Later
<1>0. AdvisorTypes /\ Hosted /\ Created /\ created \in Nat
  BY DEF AdvisorInv, AdvisorTypes
<1>1. /\ before' = before /\ items' = items /\ hostThen' = hostThen
      /\ DOMAIN alive = Pids /\ host \in [Services -> (Pids \X Nat) \cup {None}]
  BY <1>0 DEF Outside, StartProcess, EndProcess, Work, AdvisorTypes
<1>2. CASE StartProcess(pid)
  <2>1. PICK i \in Images : alive' = [alive EXCEPT ![pid] =
                                       [created |-> created + 1, image |-> i, cpu |-> 0]]
    BY <1>2 DEF StartProcess
  <2> DEFINE started == [created |-> created + 1, image |-> i, cpu |-> 0]
  <2>2. started \in Process /\ started.created = created + 1
    BY <1>0 DEF Process
  <2> HIDE DEF started
  <2>3. /\ alive'[pid] = started /\ \A p \in Pids \ {pid} : alive'[p] = alive[p]
        /\ alive' \in [Pids -> Process \cup {None}]
    BY <1>0, <2>1, <2>2 DEF AdvisorTypes, started
  <2>4. created' = created + 1 /\ host' = host /\ alive[pid] = None
    BY <1>2 DEF StartProcess
  <2>5. AdvisorTypes'
    BY <1>0, <1>1, <2>3, <2>4 DEF AdvisorTypes
  <2>6. Later
    BY <1>0, <2>2, <2>3, <2>4 DEF Later
  <2>7. Created'
    <3> SUFFICES ASSUME NEW p \in Pids, alive'[p] # None PROVE alive'[p].created <= created'
      BY DEF Created
    <3>1. CASE p = pid
      BY <1>0, <2>2, <2>3, <2>4, <3>1
    <3>2. CASE p # pid
      <4>1. alive'[p] = alive[p]
        BY <2>3, <3>2
      <4>2. alive[p].created \in Nat /\ alive[p].created <= created
        BY <1>0, <4>1, IsProcess DEF Created
      <4> QED
        BY <1>0, <2>4, <4>1, <4>2
    <3> QED
      BY <3>1, <3>2
  <2>8. Hosted'
    <3> SUFFICES ASSUME NEW s \in Services, host[s] # None
                 PROVE  alive'[host[s][1]] # None /\ host[s] = <<host[s][1], alive'[host[s][1]].created>>
      BY <2>4 DEF Hosted, Id
    <3>1. /\ host[s][1] \in Pids /\ alive[host[s][1]] # None
          /\ host[s] = <<host[s][1], alive[host[s][1]].created>>
      BY <1>0, <1>1 DEF Hosted, Id
    <3>2. alive'[host[s][1]] = alive[host[s][1]]
      BY <2>3, <2>4, <3>1
    <3> QED
      BY <3>1, <3>2 DEF Id
  <2> QED
    BY <2>5, <2>6, <2>7, <2>8
<1>3. CASE EndProcess(pid)
  <2>1. /\ alive' = [alive EXCEPT ![pid] = None] /\ created' = created
        /\ host' = [s \in Services |-> IF host[s] = Id(pid) THEN None ELSE host[s]]
    BY <1>3 DEF EndProcess
  <2>2. /\ alive'[pid] = None /\ \A p \in Pids \ {pid} : alive'[p] = alive[p]
        /\ alive' \in [Pids -> Process \cup {None}]
    BY <1>0, <2>1 DEF AdvisorTypes
  <2>3. AdvisorTypes'
    BY <1>0, <1>1, <2>1, <2>2 DEF AdvisorTypes
  <2>4. Later /\ Created'
    BY <1>0, <2>1, <2>2 DEF Later, Created
  <2>5. Hosted'
    <3> SUFFICES ASSUME NEW s \in Services, host'[s] # None
                 PROVE  alive'[host'[s][1]] # None /\ host'[s] = <<host'[s][1], alive'[host'[s][1]].created>>
      BY DEF Hosted, Id
    <3>1. host'[s] = host[s] /\ host[s] # Id(pid) /\ host[s] # None
      BY <2>1
    <3>2. /\ host[s][1] \in Pids /\ alive[host[s][1]] # None
          /\ host[s] = Id(host[s][1])
      BY <1>0, <1>1, <3>1 DEF Hosted
    <3>3. host[s][1] # pid
      BY <3>1, <3>2
    <3>4. alive'[host[s][1]] = alive[host[s][1]]
      BY <2>2, <3>2, <3>3
    <3> QED
      BY <3>1, <3>2, <3>4 DEF Id
  <2> QED
    BY <2>3, <2>4, <2>5
<1>4. CASE Work(pid)
  <2>1. /\ alive' = [alive EXCEPT ![pid].cpu = @ + 1] /\ created' = created /\ host' = host
        /\ alive[pid] \in Process /\ alive[pid] # None
    BY <1>0, <1>4, IsProcess DEF Work
  <2> DEFINE worked == [alive[pid] EXCEPT !.cpu = @ + 1]
  <2>2. worked \in Process /\ worked.created = alive[pid].created
    BY <2>1 DEF Process
  <2>3. worked # None
    BY <2>2, NoneAssumption DEF Process
  <2>4. /\ alive'[pid] = worked /\ \A p \in Pids \ {pid} : alive'[p] = alive[p]
    BY <1>1, <2>1
  <2> HIDE DEF worked
  <2>5. alive' \in [Pids -> Process \cup {None}]
    BY <1>0, <2>1, <2>2, <2>4 DEF AdvisorTypes
  <2>6. \A p \in Pids : /\ alive'[p] # None <=> alive[p] # None
                        /\ alive'[p].created = alive[p].created
    BY <2>1, <2>2, <2>3, <2>4
  <2>7. AdvisorTypes' /\ Later /\ Created'
    BY <1>0, <1>1, <2>1, <2>5, <2>6 DEF AdvisorTypes, Later, Created
  <2>8. Hosted'
    <3> SUFFICES ASSUME NEW s \in Services, host[s] # None
                 PROVE  alive'[host[s][1]] # None /\ host[s] = <<host[s][1], alive'[host[s][1]].created>>
      BY <2>1 DEF Hosted, Id
    <3>1. /\ host[s][1] \in Pids /\ alive[host[s][1]] # None
          /\ host[s] = <<host[s][1], alive[host[s][1]].created>>
      BY <1>0, <1>1 DEF Hosted, Id
    <3> QED
      BY <2>6, <3>1 DEF Id
  <2> QED
    BY <2>7, <2>8
<1> QED
  BY <1>2, <1>3, <1>4 DEF Outside

LEMMA ServiceStep ==
    ASSUME AdvisorInv, NEW s \in Services, StartService(s)
    PROVE  AdvisorTypes' /\ Hosted' /\ Created' /\ Later
<1>0. AdvisorTypes /\ Hosted /\ Created /\ created \in Nat
  BY DEF AdvisorInv, AdvisorTypes
<1>1. PICK pid \in Pids : alive[pid] # None /\ host' = [host EXCEPT ![s] = Id(pid)]
  BY DEF StartService
<1>2. /\ alive' = alive /\ created' = created /\ before' = before
      /\ items' = items /\ hostThen' = hostThen
  BY DEF StartService
<1>3. Id(pid) \in Pids \X Nat /\ Id(pid)[1] = pid
  BY <1>0, <1>1, IsProcess
<1>4. AdvisorTypes'
  BY <1>0, <1>1, <1>2, <1>3 DEF AdvisorTypes
<1>5. Later /\ Created'
  BY <1>0, <1>2 DEF Later, Created
<1>6. Hosted'
  <2> SUFFICES ASSUME NEW t \in Services, host'[t] # None
               PROVE  alive[host'[t][1]] # None /\ host'[t] = Id(host'[t][1])
    BY <1>2 DEF Hosted, Id
  <2>1. CASE t = s
    <3>1. host'[t] = Id(pid)
      BY <1>0, <1>1, <2>1 DEF AdvisorTypes
    <3> QED
      BY <1>1, <1>3, <3>1
  <2>2. CASE t # s
    <3>1. host'[t] = host[t]
      BY <1>0, <1>1, <2>2 DEF AdvisorTypes
    <3> QED
      BY <1>0, <3>1 DEF Hosted
  <2> QED
    BY <2>1, <2>2
<1> QED
  BY <1>4, <1>5, <1>6

\* What was found out before stays true of the processes that come later.
LEMMA TimePasses ==
    ASSUME AdvisorInv, AdvisorTypes', Hosted', Created', Later,
           UNCHANGED <<phase, items, listed, hostThen>>
    PROVE  AdvisorInv'
<1>0. AdvisorTypes /\ Created /\ items \in SUBSET Item
  BY DEF AdvisorInv, AdvisorTypes
<1>1. NotMeasured' /\ NoImageYet' /\ FoundIsHost' /\ AdviceSafe'
  BY DEF AdvisorInv, NotMeasured, Measuring, NoImageYet, FoundIsHost, AdviceSafe
<1>2. MeasuredThen'
  <2> SUFFICES ASSUME ~Measuring, NEW item \in items PROVE Since(item.pid, item.created)'
    BY DEF MeasuredThen, Measuring, Since
  <2>1. item.pid \in Pids /\ item.created \in Nat /\ Since(item.pid, item.created)
    BY <1>0 DEF AdvisorInv, MeasuredThen, Item
  <2> QED
    BY <1>0, <2>1, SinceStays
<1>3. ListedThen'
  <2>1. ASSUME Linked, NEW s \in Services, hostThen[s] # None PROVE HostedThen(s)'
    <3>1. hostThen[s][1] \in Pids /\ hostThen[s][2] \in Nat
      BY <1>0, <2>1 DEF AdvisorTypes
    <3>2. HostedThen(s)
      BY <2>1 DEF AdvisorInv, ListedThen
    <3> DEFINE p == hostThen[s][1]
               c == hostThen[s][2]
    <3>3. Since(p, c)
      BY <3>2 DEF HostedThen
    <3>4. p' = p /\ c' = c
      OBVIOUS
    <3> HIDE DEF p, c
    <3>5. created' >= c /\ (alive'[p] # None => alive'[p].created >= c)
      <4>1. p \in Pids /\ c \in Nat
        BY <3>1 DEF p, c
      <4>2. c <= created' /\ (alive'[p] # None => alive'[p].created >= c)
        BY <1>0, <3>3, <4>1, SinceStays DEF Since
      <4> QED
        BY <4>1, <4>2 DEF Later
    <3> QED
      BY <3>1, <3>2, <3>5 DEF HostedThen, Since, Later, p, c
  <2> QED
    BY <2>1 DEF AdvisorInv, ListedThen, Linked
<1> QED
  BY <1>1, <1>2, <1>3 DEF AdvisorInv

LEMMA FirstStep == AdvisorInv /\ FirstSnapshot => AdvisorInv'
<1> SUFFICES ASSUME AdvisorInv, FirstSnapshot PROVE AdvisorInv'
  OBVIOUS
<1>1. /\ alive' = alive /\ created' = created /\ host' = host /\ items' = items
      /\ hostThen' = hostThen /\ listed' = listed
      /\ before' = alive /\ phase' = "after" /\ items = {}
  BY DEF FirstSnapshot, processes, AdvisorInv, NotMeasured, Measuring
<1>2. AdvisorTypes' /\ Hosted' /\ Created'
  BY <1>1 DEF AdvisorInv, AdvisorTypes, Hosted, Created, Id
<1>3. /\ NotMeasured' /\ MeasuredThen' /\ NoImageYet' /\ ListedThen' /\ FoundIsHost'
      /\ AdviceSafe'
  BY <1>1 DEF NotMeasured, MeasuredThen, Measuring, NoImageYet, ListedThen, Linked,
     FoundIsHost, AdviceSafe
<1> QED
  BY <1>1, <1>2, <1>3 DEF AdvisorInv

LEMMA SecondStep == AdvisorInv /\ SecondSnapshot => AdvisorInv'
<1> SUFFICES ASSUME AdvisorInv, SecondSnapshot PROVE AdvisorInv'
  OBVIOUS
<1>0. AdvisorTypes /\ Created /\ Hosted
  BY DEF AdvisorInv
<1>1. /\ alive' = alive /\ created' = created /\ host' = host /\ before' = before
      /\ hostThen' = hostThen /\ listed' = listed
      /\ phase' = "startup" /\ items' \subseteq Measured
  BY DEF SecondSnapshot, processes
<1>2. ASSUME NEW item \in Measured
      PROVE  item \in Item /\ item.image = None /\ Since(item.pid, item.created)
  <2>1. PICK p \in Pids :
          /\ alive[p] # None /\ before[p] # None
          /\ item = [pid |-> p, created |-> alive[p].created, cpu |-> alive[p].cpu - before[p].cpu,
                     image |-> None, services |-> {}, advice |-> "observe"]
    BY <1>2 DEF Measured
  <2>2. alive[p] \in Process /\ before[p] \in Process
    BY <1>0, <2>1 DEF AdvisorTypes
  <2>3. alive[p].created \in Nat /\ alive[p].cpu - before[p].cpu \in Int
    BY <2>2 DEF Process
  <2>4. item \in Item /\ item.image = None /\ item.pid = p /\ item.created = alive[p].created
    BY <2>1, <2>3 DEF Item, Advices
  <2>5. Since(p, alive[p].created)
    BY <1>0, <2>1, <2>3 DEF Since, Created
  <2> QED
    BY <2>4, <2>5
<1>3. AdvisorTypes' /\ Hosted' /\ Created'
  <2>1. items' \in SUBSET Item
    BY <1>1, <1>2
  <2> QED
    BY <1>0, <1>1, <2>1 DEF AdvisorTypes, Hosted, Created, Id
<1>4. MeasuredThen' /\ NoImageYet'
  BY <1>1, <1>2 DEF MeasuredThen, NoImageYet, Since
<1>5. NotMeasured' /\ ListedThen' /\ FoundIsHost' /\ AdviceSafe'
  BY <1>1 DEF NotMeasured, Measuring, ListedThen, Linked, FoundIsHost, AdviceSafe
<1> QED
  BY <1>1, <1>3, <1>4, <1>5 DEF AdvisorInv

LEMMA StartupStep == AdvisorInv /\ ListStartup => AdvisorInv'
<1> SUFFICES ASSUME AdvisorInv, ListStartup PROVE AdvisorInv'
  OBVIOUS
<1>1. /\ alive' = alive /\ created' = created /\ host' = host /\ before' = before /\ items' = items
      /\ hostThen' = hostThen /\ listed' = listed
      /\ phase = "startup" /\ phase' = "services"
  BY DEF ListStartup, processes
<1>2. AdvisorTypes' /\ Hosted' /\ Created'
  BY <1>1 DEF AdvisorInv, AdvisorTypes, Hosted, Created, Id
<1>3. /\ NotMeasured' /\ MeasuredThen' /\ NoImageYet' /\ ListedThen' /\ FoundIsHost'
      /\ AdviceSafe'
  BY <1>1 DEF AdvisorInv, NotMeasured, MeasuredThen, Measuring, NoImageYet, ListedThen, Linked,
     FoundIsHost, AdviceSafe, Since
<1> QED
  BY <1>1, <1>2, <1>3 DEF AdvisorInv

LEMMA ServicesStep == AdvisorInv /\ ListServices => AdvisorInv'
<1> SUFFICES ASSUME AdvisorInv, ListServices PROVE AdvisorInv'
  OBVIOUS
<1>0. AdvisorTypes /\ Created /\ Hosted /\ MeasuredThen /\ NoImageYet
  BY DEF AdvisorInv
<1>1. /\ alive' = alive /\ created' = created /\ host' = host /\ before' = before /\ items' = items
      /\ phase = "services" /\ phase' = "paths"
  BY DEF ListServices, processes
<1>2. PICK read \in SUBSET {s \in Services : host[s] # None} :
        /\ listed' = {<<s, host[s][1]>> : s \in read}
        /\ hostThen' = [s \in Services |-> IF s \in read THEN host[s] ELSE None]
  BY DEF ListServices
<1>3. \A s \in Services : hostThen'[s] = (IF s \in read THEN host[s] ELSE None)
  BY <1>2
<1>4. \A s \in Services : hostThen'[s] # None <=> s \in read
  BY <1>2, <1>3
<1>5. AdvisorTypes' /\ Hosted' /\ Created'
  <2>1. hostThen' \in [Services -> (Pids \X Nat) \cup {None}]
    BY <1>0, <1>2 DEF AdvisorTypes
  <2> QED
    BY <1>0, <1>1, <2>1 DEF AdvisorTypes, Hosted, Created, Id
<1>6. MeasuredThen' /\ NoImageYet' /\ NotMeasured' /\ FoundIsHost' /\ AdviceSafe'
  BY <1>0, <1>1 DEF NotMeasured, MeasuredThen, Measuring, NoImageYet, FoundIsHost, AdviceSafe, Since
<1>7. ASSUME NEW s \in read
      PROVE  HostedThen(s)'
  <2>1. /\ hostThen'[s] = host[s] /\ host[s] # None /\ s \in Services
    BY <1>3
  <2>2. PICK p \in Pids : host[s][1] = p
    BY <1>0, <2>1 DEF AdvisorTypes
  <2>3. /\ alive[p] # None /\ host[s] = <<p, alive[p].created>>
    BY <1>0, <2>1, <2>2 DEF Hosted, Id
  <2>4. alive[p].created \in Nat /\ Since(p, alive[p].created)
    BY <1>0, <2>3, IsProcess DEF Since, Created
  <2>5. ASSUME NEW item \in items, item.pid = p PROVE item.created <= alive[p].created
    <3>1. item.created \in Nat
      BY <1>0 DEF AdvisorTypes, Item
    <3>2. Since(p, item.created)
      BY <1>0, <1>1, <2>5 DEF MeasuredThen, Measuring
    <3> QED
      BY <2>3, <2>4, <3>1, <3>2 DEF Since
  <2>6. hostThen'[s][1] = p /\ hostThen'[s][2] = alive[p].created
    BY <2>1, <2>3
  <2> QED
    BY <1>1, <2>4, <2>5, <2>6 DEF HostedThen, Since
<1>8. \A s \in Services, p \in Pids :
        <<s, p>> \in listed' <=> hostThen'[s] # None /\ hostThen'[s][1] = p
  BY <1>2, <1>3, <1>4
<1>9. ListedThen'
  BY <1>4, <1>7, <1>8 DEF ListedThen
<1> QED
  BY <1>1, <1>5, <1>6, <1>9 DEF AdvisorInv

LEMMA PathsStep == AdvisorInv /\ FindPaths => AdvisorInv'
<1> SUFFICES ASSUME AdvisorInv, FindPaths PROVE AdvisorInv'
  OBVIOUS
<1>0. /\ AdvisorTypes /\ Created /\ Hosted /\ MeasuredThen /\ ListedThen
      /\ items \in SUBSET Item
  BY DEF AdvisorInv, AdvisorTypes
<1>1. /\ alive' = alive /\ created' = created /\ host' = host /\ before' = before
      /\ hostThen' = hostThen /\ listed' = listed
      /\ phase = "paths" /\ phase' = "decorate"
      /\ items' = {[item EXCEPT !.image = ExecutablePath(item)] : item \in items}
  BY DEF FindPaths, processes
<1>2. ASSUME NEW found \in items'
      PROVE  /\ found \in Item
             /\ \E item \in items : found.pid = item.pid /\ found.created = item.created
             /\ found.image # None => /\ alive[found.pid] # None
                                      /\ alive[found.pid].created = found.created
  <2>1. PICK item \in items : found = [item EXCEPT !.image = ExecutablePath(item)]
    BY <1>1
  <2>2. item \in Item /\ item.pid \in Pids
    BY <1>0 DEF Item
  <2>3. ExecutablePath(item) \in Images \cup {None}
    BY <1>0, <2>2, IsProcess DEF ExecutablePath, Process
  <2> DEFINE image == ExecutablePath(item)
  <2>4. image # None => alive[item.pid] # None /\ alive[item.pid].created = item.created
    BY DEF ExecutablePath
  <2>5. image \in Images \cup {None} /\ found = [item EXCEPT !.image = image]
    BY <2>1, <2>3
  <2> HIDE DEF image
  <2>6. /\ found \in Item /\ found.pid = item.pid /\ found.created = item.created
        /\ found.image = image
    BY <2>2, <2>5 DEF Item
  <2> QED
    BY <2>4, <2>6
<1>3. AdvisorTypes' /\ Hosted' /\ Created'
  <2>1. items' \in SUBSET Item
    BY <1>2
  <2> QED
    BY <1>0, <1>1, <2>1 DEF AdvisorTypes, Hosted, Created, Id
<1>4. \A item \in items : Since(item.pid, item.created)
  BY <1>0, <1>1 DEF MeasuredThen, Measuring
<1>5. MeasuredThen'
  <2>1. \A found \in items' : Since(found.pid, found.created)
    BY <1>2, <1>4
  <2> QED
    BY <1>1, <2>1 DEF MeasuredThen, Since
<1>6. NotMeasured' /\ NoImageYet' /\ AdviceSafe'
  BY <1>1 DEF NotMeasured, Measuring, NoImageYet, AdviceSafe
<1>7. ListedThen'
  <2>1. ASSUME NEW s \in Services, hostThen[s] # None
        PROVE  HostedThen(s)'
    <3>1. HostedThen(s)
      BY <1>0, <1>1, <2>1 DEF ListedThen, Linked
    <3>2. \A found \in items' : found.pid = hostThen[s][1] => found.created <= hostThen[s][2]
      BY <1>2, <3>1 DEF HostedThen
    <3> QED
      BY <1>1, <3>1, <3>2 DEF HostedThen, Since
  <2> QED
    BY <1>0, <1>1, <2>1 DEF ListedThen, Linked
<1>8. FoundIsHost'
  <2> SUFFICES ASSUME NEW found \in items', found.image # None,
                      NEW s \in Services, <<s, found.pid>> \in listed
               PROVE  hostThen[s] = <<found.pid, found.created>>
    BY <1>1 DEF FoundIsHost
  <2>1. found.pid \in Pids /\ found.created \in Nat
    BY <1>2 DEF Item
  <2>2. hostThen[s] # None /\ hostThen[s][1] = found.pid
    BY <1>0, <1>1, <2>1 DEF ListedThen, Linked
  <2>3. hostThen[s] \in Pids \X Nat
    BY <1>0, <2>2 DEF AdvisorTypes
  <2>4. HostedThen(s)
    BY <1>0, <1>1, <2>2 DEF ListedThen, Linked
  <2>5. alive[found.pid] # None /\ alive[found.pid].created = found.created
    BY <1>2
  <2>6. hostThen[s][2] <= found.created
    BY <2>2, <2>4, <2>5, <2>1, <2>3 DEF HostedThen, Since
  <2>7. PICK item \in items : found.pid = item.pid /\ found.created = item.created
    BY <1>2
  <2>8. found.created <= hostThen[s][2]
    BY <2>2, <2>4, <2>7 DEF HostedThen
  <2>9. hostThen[s][2] = found.created
    BY <2>1, <2>3, <2>6, <2>8
  <2> QED
    BY <2>2, <2>3, <2>9
<1> QED
  BY <1>1, <1>3, <1>5, <1>6, <1>7, <1>8 DEF AdvisorInv

LEMMA DecorateStep == AdvisorInv /\ Decorate => AdvisorInv'
<1> SUFFICES ASSUME AdvisorInv, Decorate PROVE AdvisorInv'
  OBVIOUS
<1> DEFINE Links(item) == {s \in Services : <<s, item.pid>> \in listed}
           With(item) == [item EXCEPT !.advice = Advice(item, Links(item)),
                                      !.services = Shown(Links(item))]
           Own(item) == {s \in Services : hostThen[s] = <<item.pid, item.created>>}
<1>0. /\ AdvisorTypes /\ Created /\ Hosted /\ MeasuredThen /\ ListedThen /\ FoundIsHost
      /\ items \in SUBSET Item
  BY DEF AdvisorInv, AdvisorTypes
<1>1. /\ alive' = alive /\ created' = created /\ host' = host /\ before' = before
      /\ hostThen' = hostThen /\ listed' = listed
      /\ phase = "decorate" /\ phase' = "done"
      /\ items' = {With(item) : item \in items}
  BY DEF Decorate, processes
<1>2. ASSUME NEW item \in items
      PROVE  /\ With(item) \in Item /\ With(item).pid = item.pid
             /\ With(item).created = item.created
             /\ With(item).advice = Advice(item, Links(item))
  <2> DEFINE advice == Advice(item, Links(item))
             shown == Shown(Links(item))
  <2>1. advice \in Advices
    BY DEF Advice, Advices
  <2>2. shown \in SUBSET Services
    BY DEF Shown
  <2>3. item \in Item
    BY <1>0
  <2>4. With(item) = [item EXCEPT !.advice = advice, !.services = shown]
    OBVIOUS
  <2> HIDE DEF With, advice, shown
  <2>5. /\ With(item) \in Item /\ With(item).pid = item.pid
        /\ With(item).created = item.created /\ With(item).advice = advice
    BY <2>1, <2>2, <2>3, <2>4 DEF Item
  <2> QED
    BY <2>5 DEF advice
<1>3. ASSUME NEW item \in items
      PROVE  /\ Advice(item, Links(item)) \in {"review_startup", "review_service"} =>
                  Own(item) \cap ProtectedServices = {}
             /\ Advice(item, Links(item)) = "review_service" => Own(item) # {}
  <2>1. item.pid \in Pids /\ item.created \in Nat
    BY <1>0 DEF Item
  <2>2. Own(item) \subseteq Links(item)
    <3> SUFFICES ASSUME NEW s \in Services, hostThen[s] = <<item.pid, item.created>>
                 PROVE  <<s, item.pid>> \in listed
      OBVIOUS
    <3>1. hostThen[s] # None /\ hostThen[s][1] = item.pid
      BY <2>1, NoneAssumption
    <3> QED
      BY <1>0, <1>1, <2>1, <3>1 DEF ListedThen, Linked
  <2>3. item.image # None => \A s \in Links(item) : s \in Own(item)
    BY <1>0, <1>1 DEF FoundIsHost
  <2> DEFINE links == Links(item)
             own == Own(item)
  <2>4. own \subseteq links /\ (item.image # None => links \subseteq own)
    BY <2>2, <2>3
  <2> HIDE DEF links, own
  <2>5. Advice(item, links) \in {"review_startup", "review_service"} =>
          links \cap ProtectedServices = {}
    BY DEF Advice
  <2>6. Advice(item, links) = "review_service" => links # {} /\ item.image # None
    BY DEF Advice
  <2>7. /\ Advice(item, links) \in {"review_startup", "review_service"} =>
             own \cap ProtectedServices = {}
        /\ Advice(item, links) = "review_service" => own # {}
    BY <2>4, <2>5, <2>6
  <2> QED
    BY <2>7 DEF links, own
<1> HIDE DEF Links, With
<1>4. AdvisorTypes' /\ Hosted' /\ Created'
  <2>1. items' \in SUBSET Item
    BY <1>1, <1>2
  <2> QED
    BY <1>0, <1>1, <2>1 DEF AdvisorTypes, Hosted, Created, Id
<1>5. \A item \in items' : \E old \in items : item.pid = old.pid /\ item.created = old.created
  BY <1>1, <1>2
<1>6. MeasuredThen'
  <2>1. \A item \in items : Since(item.pid, item.created)
    BY <1>0, <1>1 DEF MeasuredThen, Measuring
  <2>2. \A item \in items' : Since(item.pid, item.created)
    BY <1>5, <2>1
  <2> QED
    BY <1>1, <2>2 DEF MeasuredThen, Since
<1>7. NotMeasured' /\ NoImageYet' /\ FoundIsHost'
  BY <1>1 DEF NotMeasured, Measuring, NoImageYet, FoundIsHost
<1>8. ListedThen'
  <2>1. ASSUME NEW s \in Services, hostThen[s] # None
        PROVE  HostedThen(s)'
    <3>1. HostedThen(s)
      BY <1>0, <1>1, <2>1 DEF ListedThen, Linked
    <3>2. \A item \in items' : item.pid = hostThen[s][1] => item.created <= hostThen[s][2]
      BY <1>5, <3>1 DEF HostedThen
    <3> QED
      BY <1>1, <3>1, <3>2 DEF HostedThen, Since
  <2> QED
    BY <1>0, <1>1, <2>1 DEF ListedThen, Linked
<1>9. AdviceSafe'
  <2> SUFFICES ASSUME NEW item \in items'
               PROVE  /\ item.advice \in {"review_startup", "review_service"} =>
                           Own(item) \cap ProtectedServices = {}
                      /\ item.advice = "review_service" => Own(item) # {}
    BY <1>1 DEF AdviceSafe
  <2>1. PICK old \in items : item = With(old)
    BY <1>1
  <2>2. /\ Own(item) = Own(old) /\ item.advice = Advice(old, Links(old))
    BY <1>2, <2>1
  <2> QED
    BY <1>3, <2>2
<1> QED
  BY <1>1, <1>4, <1>6, <1>7, <1>8, <1>9 DEF AdvisorInv

LEMMA AdvisorInitially == AdvisorInit => AdvisorInv
<1> SUFFICES ASSUME AdvisorInit PROVE AdvisorInv
  OBVIOUS
<1> DEFINE fresh == {[created |-> 0, image |-> i, cpu |-> 0] : i \in Images} \cup {None}
<1>1. /\ alive \in [Pids -> fresh] /\ created = 0 /\ before = alive /\ items = {}
      /\ phase = "before" /\ host = NoHosts /\ hostThen = NoHosts
  BY DEF AdvisorInit
<1>2. \A x \in fresh : x \in Process \cup {None} /\ (x # None => x.created = 0)
  BY DEF Process
<1> HIDE DEF fresh
<1>3. AdvisorTypes /\ Created /\ Hosted
  BY <1>1, <1>2 DEF AdvisorTypes, Created, Hosted, NoHosts
<1>4. NotMeasured /\ MeasuredThen /\ NoImageYet /\ ListedThen /\ FoundIsHost /\ AdviceSafe
  BY <1>1 DEF NotMeasured, MeasuredThen, Measuring, NoImageYet, ListedThen, Linked, FoundIsHost,
     AdviceSafe
<1> QED
  BY <1>1, <1>3, <1>4 DEF AdvisorInv

LEMMA AdvisorStep == AdvisorInv /\ AdvisorNext => AdvisorInv'
<1> SUFFICES ASSUME AdvisorInv, AdvisorNext PROVE AdvisorInv'
  OBVIOUS
<1>1. CASE FirstSnapshot \/ SecondSnapshot \/ ListStartup
  BY <1>1, FirstStep, SecondStep, StartupStep
<1>2. CASE ListServices \/ FindPaths \/ Decorate
  BY <1>2, ServicesStep, PathsStep, DecorateStep
<1>3. ASSUME NEW pid \in Pids, Outside(pid) PROVE AdvisorInv'
  <2>1. UNCHANGED <<phase, items, listed, hostThen>>
    BY <1>3 DEF Outside, StartProcess, EndProcess, Work
  <2> QED
    BY <1>3, <2>1, OutsideStep, TimePasses
<1>4. ASSUME NEW s \in Services, StartService(s) PROVE AdvisorInv'
  <2>1. UNCHANGED <<phase, items, listed, hostThen>>
    BY <1>4 DEF StartService
  <2> QED
    BY <1>4, <2>1, ServiceStep, TimePasses
<1> QED
  BY <1>1, <1>2, <1>3, <1>4 DEF AdvisorNext, Outside

\* An advice to act is about the very process that was measured, whichever
\* PIDs are reused while the report is collected (collectBackgroundReport):
\* the services are listed after the measurement, and the path is looked up
\* after the services with the time of creation compared, so that a process
\* found then was the host of the services of its PID.
THEOREM AdviceIsSafe == Spec => []AdviceSafe
<1>1. Init => AdvisorInv
  BY AdvisorInitially DEF Init, AdvisorRests
<1>2. AdvisorInv /\ [Next]_vars => AdvisorInv'
  <2> SUFFICES ASSUME AdvisorInv, [Next]_vars PROVE AdvisorInv'
    OBVIOUS
  <2>1. CASE AdvisorNext
    BY <2>1, AdvisorStep
  <2>2. CASE UNCHANGED advisorVars
    <3>1. AdvisorTypes' /\ Hosted' /\ Created' /\ Later
      BY <2>2 DEF advisorVars, AdvisorInv, AdvisorTypes, Hosted, Created, Later, Id
    <3> QED
      BY <2>2, <3>1, TimePasses DEF advisorVars
  <2> QED
    BY <2>1, <2>2 DEF Next, vars
<1>3. AdvisorInv => AdviceSafe
  BY DEF AdvisorInv
<1> QED
  BY <1>1, <1>2, <1>3, PTL DEF Spec

-----------------------------------------------------------------------------
(* The comparison of benchmarks                                            *)

\* The k-th of the ordered values is one with fewer than k values below it,
\* and at least k values up to it.
Kth(values, n, k, v) ==
    /\ Cardinality({j \in 1..n : values[j] < v}) < k
    /\ k <= Cardinality({j \in 1..n : values[j] <= v})

LEMMA CountedPart ==
    ASSUME NEW n \in Nat, NEW S \in SUBSET (1..n)
    PROVE  IsFiniteSet(S) /\ Cardinality(S) \in 0..n
<1>1. 1 \in Int /\ n \in Int
  OBVIOUS
<1>2. IsFiniteSet(1..n) /\ Cardinality(1..n) = IF 1 > n THEN 0 ELSE n - 1 + 1
  BY <1>1, FS_Interval
<1>3. IsFiniteSet(S) /\ Cardinality(S) <= Cardinality(1..n)
  BY <1>2, FS_Subset
<1>4. Cardinality(S) \in Nat
  BY <1>3, FS_CardinalityType
<1> QED
  BY <1>2, <1>3, <1>4

LEMMA SmallerPart ==
    ASSUME NEW n \in Nat, NEW T \in SUBSET (1..n), NEW S \in SUBSET T
    PROVE  /\ Cardinality(S) \in 0..n /\ Cardinality(T) \in 0..n
           /\ Cardinality(S) <= Cardinality(T)
           /\ S # T => Cardinality(S) < Cardinality(T)
<1>1. IsFiniteSet(T) /\ Cardinality(T) \in 0..n
  BY CountedPart
<1>2. IsFiniteSet(S) /\ Cardinality(S) \in 0..n
  <2>1. S \in SUBSET (1..n)
    OBVIOUS
  <2> QED
    BY <2>1, CountedPart
<1>3. /\ Cardinality(S) <= Cardinality(T)
      /\ Cardinality(T) = Cardinality(S) => T = S
  BY <1>1, FS_Subset
<1> QED
  BY <1>1, <1>2, <1>3

LEMMA OrderedIsKth ==
    ASSUME NEW n \in Nat, NEW values \in [1..n -> Int], NEW k \in 1..n
    PROVE  /\ Ordered(values)[k] \in Int
           /\ Kth(values, n, k, Ordered(values)[k])
<1> DEFINE upTo(i) == {j \in 1..n : \/ values[j] < values[i]
                                    \/ values[j] = values[i] /\ j <= i}
           rank == [i \in 1..n |-> Cardinality(upTo(i))]
<1>1. \A i \in 1..n : values[i] \in Int /\ i \in Nat
  OBVIOUS
<1>2. ASSUME NEW i \in 1..n PROVE i \in upTo(i) /\ upTo(i) \in SUBSET (1..n)
  BY <1>1
<1>3. ASSUME NEW i \in 1..n PROVE rank[i] \in 1..n
  <2>1. IsFiniteSet(upTo(i)) /\ Cardinality(upTo(i)) \in 0..n
    BY <1>2, CountedPart
  <2>2. Cardinality(upTo(i)) # 0
    BY <1>2, <2>1, FS_EmptySet
  <2> QED
    BY <2>1, <2>2
<1>4. ASSUME NEW i \in 1..n, NEW j \in 1..n,
             values[i] < values[j] \/ (values[i] = values[j] /\ i < j)
      PROVE  rank[i] # rank[j]
  <2>1. \A h \in 1..n : h \in upTo(i) => h \in upTo(j)
    BY <1>1, <1>4
  <2>2. j \notin upTo(i)
    BY <1>1, <1>4
  <2>3. upTo(i) \in SUBSET upTo(j) /\ upTo(i) # upTo(j)
    BY <1>2, <2>1, <2>2
  <2> HIDE DEF upTo
  <2>4. Cardinality(upTo(i)) < Cardinality(upTo(j))
    BY <1>2, <2>3, SmallerPart
  <2>5. Cardinality(upTo(i)) \in 0..n /\ Cardinality(upTo(j)) \in 0..n
    BY <1>2, CountedPart
  <2> QED
    BY <2>4, <2>5
<1> HIDE DEF upTo
<1>5. rank \in Injection(1..n, 1..n)
  <2>1. rank \in [1..n -> 1..n]
    BY <1>3
  <2>2. ASSUME NEW i \in 1..n, NEW j \in 1..n, i # j PROVE rank[i] # rank[j]
    <3>1. \/ values[i] < values[j]
          \/ values[j] < values[i]
          \/ values[i] = values[j] /\ i < j
          \/ values[j] = values[i] /\ j < i
      <4>1. values[i] \in Int /\ values[j] \in Int /\ (i < j \/ j < i)
        BY <2>2
      <4> DEFINE a == values[i]
                 b == values[j]
      <4>2. a \in Int /\ b \in Int
        BY <4>1
      <4> HIDE DEF a, b
      <4>3. a < b \/ b < a \/ a = b
        BY <4>2
      <4> QED
        BY <4>1, <4>3 DEF a, b
    <3> QED
      BY <1>4, <3>1
  <2> QED
    BY <2>1, <2>2 DEF Injection, IsInjective
<1>6. rank \in Surjection(1..n, 1..n)
  <2>1. IsFiniteSet(1..n)
    <3>1. 1..n \in SUBSET (1..n)
      OBVIOUS
    <3> QED
      BY <3>1, CountedPart
  <2> QED
    BY <1>5, <2>1, FS_Injection
<1>7. PICK i \in 1..n : rank[i] = k /\ Ordered(values)[k] = values[i]
  <2> DEFINE i == CHOOSE j \in 1..n : Cardinality(upTo(j)) = k
  <2>1. \E j \in 1..n : Cardinality(upTo(j)) = k
    BY <1>6 DEF Surjection
  <2>2. i \in 1..n /\ Cardinality(upTo(i)) = k
    BY <2>1
  <2>3. Ordered(values)[k] = values[i]
    BY DEF Ordered, upTo
  <2> QED
    BY <2>2, <2>3
<1> DEFINE v == values[i]
           below == {j \in 1..n : values[j] < v}
           atMost == {j \in 1..n : values[j] <= v}
<1>8. Cardinality(upTo(i)) = k
  BY <1>7
<1>9. Cardinality(below) < k
  <2>1. below \in SUBSET upTo(i) /\ i \notin below /\ i \in upTo(i)
    BY <1>1, <1>2 DEF upTo
  <2> QED
    BY <1>2, <1>8, <2>1, SmallerPart
<1>10. k <= Cardinality(atMost)
  <2>1. upTo(i) \in SUBSET atMost /\ atMost \in SUBSET (1..n)
    BY <1>1 DEF upTo
  <2> QED
    BY <1>8, <2>1, SmallerPart
<1> QED
  BY <1>1, <1>7, <1>9, <1>10 DEF Kth

LEMMA KthIsOne ==
    ASSUME NEW n \in Nat, NEW values \in [1..n -> Int], NEW k \in 1..n,
           NEW v \in Int, NEW w \in Int, Kth(values, n, k, v), Kth(values, n, k, w)
    PROVE  v = w
<1>1. ASSUME NEW x \in Int, NEW y \in Int, Kth(values, n, k, x), Kth(values, n, k, y), x < y
      PROVE  FALSE
  <2> DEFINE atMost == {j \in 1..n : values[j] <= x}
             below == {j \in 1..n : values[j] < y}
  <2>1. \A j \in 1..n : values[j] \in Int
    OBVIOUS
  <2>2. atMost \in SUBSET below /\ below \in SUBSET (1..n)
    BY <1>1, <2>1
  <2>3. /\ Cardinality(atMost) <= Cardinality(below)
        /\ Cardinality(atMost) \in 0..n /\ Cardinality(below) \in 0..n
    BY <2>2, SmallerPart
  <2>4. Cardinality(below) < k /\ k <= Cardinality(atMost)
    BY <1>1 DEF Kth
  <2> QED
    BY <2>3, <2>4
<1> QED
  BY <1>1

\* The same values in another order.
Permuted(values, others, n) ==
    \E p \in Bijection(1..n, 1..n) : \A i \in 1..n : others[i] = values[p[i]]

LEMMA PermutedKth ==
    ASSUME NEW n \in Nat, NEW values \in [1..n -> Int], NEW others \in [1..n -> Int],
           Permuted(values, others, n), NEW k \in 1..n, NEW v \in Int, Kth(others, n, k, v)
    PROVE  Kth(values, n, k, v)
<1>0. PICK p \in Bijection(1..n, 1..n) : \A i \in 1..n : others[i] = values[p[i]]
  BY DEF Permuted
<1>1. ASSUME NEW S \in SUBSET (1..n), NEW T \in SUBSET (1..n),
             \A i \in 1..n : i \in T <=> p[i] \in S
      PROVE  Cardinality(S) = Cardinality(T)
  <2> DEFINE f == [i \in T |-> p[i]]
  <2>0. /\ p \in [1..n -> 1..n] /\ \A i, j \in 1..n : p[i] = p[j] => i = j
        /\ \A h \in 1..n : \E i \in 1..n : p[i] = h
    BY DEF Bijection, Injection, Surjection, IsInjective
  <2>1. f \in [T -> S]
    BY <1>1, <2>0
  <2>2. \A i, j \in T : i # j => f[i] # f[j]
    BY <2>0
  <2>3. ASSUME NEW h \in S PROVE \E i \in T : f[i] = h
    <3>1. PICK i \in 1..n : p[i] = h
      BY <2>0
    <3>2. i \in T
      BY <1>1, <3>1
    <3> QED
      BY <3>1, <3>2
  <2> HIDE DEF f
  <2>4. f \in Bijection(T, S)
    BY <2>1, <2>2, <2>3 DEF Bijection, Injection, Surjection, IsInjective
  <2>5. ExistsBijection(T, S)
    BY <2>4 DEF ExistsBijection
  <2>6. IsFiniteSet(T)
    BY CountedPart
  <2> QED
    BY <2>5, <2>6, FS_Bijection
<1>2. \A i \in 1..n : p[i] \in 1..n /\ others[i] = values[p[i]]
  BY <1>0 DEF Bijection, Injection
<1>3. Cardinality({j \in 1..n : values[j] < v}) = Cardinality({j \in 1..n : others[j] < v})
  <2> DEFINE S == {j \in 1..n : values[j] < v}
             T == {j \in 1..n : others[j] < v}
  <2>1. S \in SUBSET (1..n) /\ T \in SUBSET (1..n) /\ \A i \in 1..n : i \in T <=> p[i] \in S
    BY <1>2
  <2> HIDE DEF S, T
  <2>2. Cardinality(S) = Cardinality(T)
    BY <1>1, <2>1
  <2> QED
    BY <2>2 DEF S, T
<1>4. Cardinality({j \in 1..n : values[j] <= v}) = Cardinality({j \in 1..n : others[j] <= v})
  <2> DEFINE S == {j \in 1..n : values[j] <= v}
             T == {j \in 1..n : others[j] <= v}
  <2>1. S \in SUBSET (1..n) /\ T \in SUBSET (1..n) /\ \A i \in 1..n : i \in T <=> p[i] \in S
    BY <1>2
  <2> HIDE DEF S, T
  <2>2. Cardinality(S) = Cardinality(T)
    BY <1>1, <2>1
  <2> QED
    BY <2>2 DEF S, T
<1> QED
  BY <1>3, <1>4 DEF Kth

LEMMA OrderedLength ==
    ASSUME NEW n \in Nat, NEW values \in [1..n -> Int]
    PROVE  /\ Ordered(values) \in [1..n -> Int] /\ Len(Ordered(values)) = n
<1>1. /\ DOMAIN Ordered(values) = 1..n
      /\ Ordered(values) = [k \in 1..n |-> Ordered(values)[k]]
  BY DEF Ordered
<1>2. Ordered(values) \in [1..n -> Int]
  BY <1>1, OrderedIsKth
<1>3. Ordered(values) \in Seq(Int)
  BY <1>2
<1> QED
  BY <1>2, <1>3

LEMMA PermutedMedian ==
    ASSUME NEW n \in Nat \ {0}, NEW values \in [1..n -> Int], NEW others \in [1..n -> Int],
           Permuted(values, others, n)
    PROVE  Median2(others) = Median2(values) /\ Median2(values) \in Int
<1>1. /\ Ordered(values) \in [1..n -> Int] /\ Len(Ordered(values)) = n
      /\ Ordered(others) \in [1..n -> Int] /\ Len(Ordered(others)) = n
  BY OrderedLength
<1>2. \A k \in 1..n : Ordered(others)[k] = Ordered(values)[k]
  <2> TAKE k \in 1..n
  <2>1. /\ Ordered(others)[k] \in Int /\ Kth(others, n, k, Ordered(others)[k])
        /\ Ordered(values)[k] \in Int /\ Kth(values, n, k, Ordered(values)[k])
    BY OrderedIsKth
  <2>2. Kth(values, n, k, Ordered(others)[k])
    BY <2>1, PermutedKth
  <2> QED
    BY <2>1, <2>2, KthIsOne
<1>3. Ordered(others) = Ordered(values)
  BY <1>1, <1>2
<1>4. Median2(values) \in Int
  <2>1. n \div 2 + 1 \in 1..n /\ (n % 2 = 0 => n \div 2 \in 1..n)
    OBVIOUS
  <2> DEFINE o == Ordered(values)
  <2>2. Median2(values) = IF n % 2 = 0 THEN o[n \div 2] + o[n \div 2 + 1] ELSE 2 * o[n \div 2 + 1]
    BY <1>1 DEF Median2, Middle
  <2> HIDE DEF o
  <2>3. o[n \div 2 + 1] \in Int /\ (n % 2 = 0 => o[n \div 2] \in Int)
    BY <1>1, <2>1 DEF o
  <2> QED
    BY <2>2, <2>3
<1> QED
  BY <1>3, <1>4 DEF Median2

LEMMA PermutedDeviation ==
    ASSUME NEW n \in Nat \ {0}, NEW values \in [1..n -> Int], NEW others \in [1..n -> Int],
           Permuted(values, others, n)
    PROVE  Deviation4(others) = Deviation4(values)
<1> DEFINE center == Median2(values)
           distances == [i \in 1..n |-> Abs(2 * values[i] - center)]
           otherDistances == [i \in 1..n |-> Abs(2 * others[i] - center)]
<1>1. Median2(others) = center /\ center \in Int
  BY PermutedMedian
<1> HIDE DEF center
<1>2. distances \in [1..n -> Int] /\ otherDistances \in [1..n -> Int]
  <2>1. ASSUME NEW x \in Int PROVE Abs(2 * x - center) \in Int
    BY <1>1 DEF Abs
  <2> QED
    BY <2>1
<1>3. Permuted(distances, otherDistances, n)
  <2>1. PICK p \in Bijection(1..n, 1..n) : \A i \in 1..n : others[i] = values[p[i]]
    BY DEF Permuted
  <2>2. ASSUME NEW i \in 1..n PROVE otherDistances[i] = distances[p[i]]
    <3>1. p[i] \in 1..n /\ others[i] = values[p[i]]
      BY <2>1 DEF Bijection, Injection
    <3> QED
      BY <3>1
  <2> QED
    BY <2>2 DEF Permuted
<1>4. Median2(otherDistances) = Median2(distances)
  BY <1>2, <1>3, PermutedMedian
<1> QED
  BY <1>1, <1>4 DEF Deviation4, center

\* A column of a set of runs.
LEMMA ColumnOf ==
    ASSUME NEW runs \in RunSets, NEW m \in Metrics
    PROVE  /\ Len(runs) \in Nat \ {0} /\ Column(runs, m) \in [1..Len(runs) -> Int]
           /\ \A i \in 1..Len(runs) : Column(runs, m)[i] = runs[i][m] /\ Column(runs, m)[i] > 0
<1>1. runs \in Seq([Metrics -> Nat]) /\ Valid(runs)
  BY RunSetsAssumption
<1>2. DOMAIN runs = 1..Len(runs) /\ Len(runs) \in Nat \ {0}
  <2>1. Len(runs) \in 3..100
    BY <1>1 DEF Valid
  <2>2. DOMAIN runs = 1..Len(runs) /\ Len(runs) \in Nat
    BY <1>1
  <2> QED
    BY <2>1, <2>2
<1>3. ASSUME NEW i \in 1..Len(runs) PROVE runs[i][m] \in Nat /\ runs[i][m] > 0
  <2>1. runs[i] \in [Metrics -> Nat]
    BY <1>1
  <2> QED
    BY <1>1, <1>2, <2>1 DEF Valid
<1>4. Column(runs, m) = [i \in 1..Len(runs) |-> runs[i][m]]
  BY <1>2 DEF Column
<1> QED
  BY <1>2, <1>3, <1>4

LEMMA ReorderedColumn ==
    ASSUME NEW runs \in RunSets, NEW others \in Reordered(runs), NEW m \in Metrics
    PROVE  /\ Median2(Column(others, m)) = Median2(Column(runs, m))
           /\ Deviation4(Column(others, m)) = Deviation4(Column(runs, m))
<1> DEFINE n == Len(runs)
           values == Column(runs, m)
           column == Column(others, m)
<1>1. n \in Nat \ {0} /\ values \in [1..n -> Int] /\ runs \in Seq([Metrics -> Nat])
  BY ColumnOf, RunSetsAssumption
<1>2. DOMAIN runs = 1..n
  BY <1>1
<1>3. PICK p \in Bijection(1..n, 1..n) : others = [i \in 1..n |-> runs[p[i]]]
  BY <1>2 DEF Reordered
<1>4. \A i \in 1..n : p[i] \in 1..n
  BY <1>3 DEF Bijection, Injection
<1>5. column = [i \in 1..n |-> runs[p[i]][m]]
  BY <1>3 DEF Column
<1>6. \A i \in 1..n : column[i] = values[p[i]]
  BY <1>2, <1>4, <1>5 DEF Column
<1>7. column \in [1..n -> Int]
  BY <1>1, <1>4, <1>5, <1>6
<1>8. Permuted(values, column, n)
  BY <1>6 DEF Permuted
<1> HIDE DEF n, values, column
<1>9. Median2(column) = Median2(values) /\ Deviation4(column) = Deviation4(values)
  BY <1>1, <1>7, <1>8, PermutedMedian, PermutedDeviation
<1> QED
  BY <1>9 DEF values, column

\* The verdict sees of the runs only the medians and the deviations.
LEMMA SameVerdict ==
    ASSUME NEW old, NEW new, NEW others, NEW another,
           \A m \in Metrics : /\ Median2(Column(others, m)) = Median2(Column(old, m))
                              /\ Deviation4(Column(others, m)) = Deviation4(Column(old, m))
                              /\ Median2(Column(another, m)) = Median2(Column(new, m))
                              /\ Deviation4(Column(another, m)) = Deviation4(Column(new, m))
    PROVE  Verdict(others, another) = Verdict(old, new)
<1>1. \A m \in Metrics :
        /\ Meaningful(Column(others, m), Column(another, m)) = Meaningful(Column(old, m), Column(new, m))
        /\ Better(Column(others, m), Column(another, m), m) = Better(Column(old, m), Column(new, m), m)
  BY DEF Meaningful, Better
<1> DEFINE meaningful(o, n) == {m \in Metrics : Meaningful(Column(o, m), Column(n, m))}
           positive(o, n) == {m \in meaningful(o, n) : Better(Column(o, m), Column(n, m), m)}
<1>2. meaningful(others, another) = meaningful(old, new)
  BY <1>1
<1>3. positive(others, another) = positive(old, new)
  BY <1>1
<1> QED
  BY <1>2, <1>3 DEF Verdict

\* What more than half of the values are, is their median.
LEMMA MajorityMedian ==
    ASSUME NEW runs \in RunSets, NEW m \in Metrics, NEW v \in Nat, Agree(runs, m, v)
    PROVE  Median2(Column(runs, m)) = 2 * v
<1> DEFINE n == Len(runs)
           values == Column(runs, m)
           equal == {i \in 1..n : values[i] = v}
           below == {i \in 1..n : values[i] < v}
           atMost == {i \in 1..n : values[i] <= v}
<1>1. n \in Nat \ {0} /\ values \in [1..n -> Int] /\ runs \in Seq([Metrics -> Nat])
  BY ColumnOf, RunSetsAssumption
<1>2. \A i \in 1..n : values[i] = runs[i][m] /\ values[i] \in Int
  BY <1>1, ColumnOf
<1>3. 2 * Cardinality(equal) > n
  <2>1. equal = {i \in DOMAIN runs : runs[i][m] = v}
    BY <1>1, <1>2
  <2> QED
    BY <2>1 DEF Agree
<1> HIDE DEF n, values
<1>4. /\ equal \in SUBSET (1..n) /\ below \in SUBSET (1..n) /\ atMost \in SUBSET (1..n)
      /\ equal \subseteq atMost /\ equal \cap below = {}
  BY <1>2
<1>5. /\ Cardinality(equal) <= Cardinality(atMost)
      /\ Cardinality(equal) \in 0..n /\ Cardinality(atMost) \in 0..n
  BY <1>1, <1>4, SmallerPart
<1>6. Cardinality(below) + Cardinality(equal) <= n
  <2>1. IsFiniteSet(below) /\ IsFiniteSet(equal)
    BY <1>1, <1>4, CountedPart
  <2>2. Cardinality(below \cup equal) = Cardinality(below) + Cardinality(equal) - Cardinality(below \cap equal)
    BY <2>1, FS_Union
  <2>3. Cardinality(below \cap equal) = 0
    <3>1. below \cap equal = {}
      BY <1>4
    <3> QED
      BY <3>1, FS_EmptySet
  <2>4. Cardinality(below \cup equal) \in 0..n
    <3>1. below \cup equal \in SUBSET (1..n)
      BY <1>4
    <3> QED
      BY <1>1, <3>1, CountedPart
  <2>5. Cardinality(below) \in 0..n
    BY <1>1, <1>4, CountedPart
  <2> QED
    BY <1>1, <1>5, <2>2, <2>3, <2>4, <2>5
<1>7. Cardinality(below) \in 0..n
  BY <1>1, <1>4, CountedPart
<1>8. ASSUME NEW k \in 1..n, 2 * k <= n + 2, 2 * k >= n PROVE Ordered(values)[k] = v
  <2>1. Cardinality(below) < k /\ k <= Cardinality(atMost)
    BY <1>1, <1>3, <1>5, <1>6, <1>7, <1>8
  <2>2. Kth(values, n, k, v)
    BY <2>1 DEF Kth
  <2> QED
    BY <1>1, <2>2, OrderedIsKth, KthIsOne
<1>9. Len(Ordered(values)) = n
  BY <1>1, OrderedLength
<1>10. /\ n \div 2 + 1 \in 1..n /\ 2 * (n \div 2 + 1) <= n + 2 /\ 2 * (n \div 2 + 1) >= n
       /\ n % 2 = 0 => n \div 2 \in 1..n /\ 2 * (n \div 2) <= n + 2 /\ 2 * (n \div 2) >= n
  BY <1>1
<1>11. /\ Ordered(values)[n \div 2 + 1] = v
       /\ n % 2 = 0 => Ordered(values)[n \div 2] = v
  BY <1>8, <1>10
<1>12. Median2(values) = 2 * v
  BY <1>9, <1>11 DEF Median2, Middle
<1> QED
  BY <1>12 DEF values

LEMMA RobustVerdict ==
    ASSUME runsBefore \in RunSets, runsAfter \in RunSets
    PROVE  VerdictRobust
<1>0. /\ \A old \in Reordered(runsBefore) : Verdict(old, runsAfter) = Verdict(runsBefore, runsAfter)
      /\ \A new \in Reordered(runsAfter) : Verdict(runsBefore, new) = Verdict(runsBefore, runsAfter)
  BY ReorderedColumn, SameVerdict
<1>2. ASSUME \A m \in Metrics : \E i \in DOMAIN runsBefore :
               LET v == runsBefore[i][m] IN Agree(runsBefore, m, v) /\ Agree(runsAfter, m, v)
      PROVE  Verdict(runsBefore, runsAfter) = "within variance"
  <2>1. ASSUME NEW m \in Metrics PROVE ~Meaningful(Column(runsBefore, m), Column(runsAfter, m))
    <3>1. PICK i \in DOMAIN runsBefore :
            Agree(runsBefore, m, runsBefore[i][m]) /\ Agree(runsAfter, m, runsBefore[i][m])
      BY <1>2
    <3>2. runsBefore[i][m] \in Nat
      BY RunSetsAssumption
    <3>3. /\ Median2(Column(runsBefore, m)) = 2 * runsBefore[i][m]
          /\ Median2(Column(runsAfter, m)) = 2 * runsBefore[i][m]
      BY <3>1, <3>2, MajorityMedian
    <3> QED
      BY <3>2, <3>3 DEF Meaningful, Abs
  <2>2. {m \in Metrics : Meaningful(Column(runsBefore, m), Column(runsAfter, m))} = {}
    BY <2>1
  <2> QED
    BY <2>2 DEF Verdict
<1> QED
  BY <1>0, <1>2 DEF VerdictRobust

\* compareBenchmarks: for any runs that may be compared, the verdict is the same
\* in every order of the runs before and of those after, and where more than half of the runs before
\* and after agree on every metric no outliers make another verdict.
THEOREM VerdictIsRobust == Spec => []VerdictRobust
<1> DEFINE Compared == runsBefore \in RunSets /\ runsAfter \in RunSets
<1>1. Init => Compared
  <2>1. BenchmarksRest => Compared
    BY RunSetsAssumption DEF BenchmarksRest
  <2> QED
    BY <2>1 DEF Init, BenchmarksInit
<1>2. Compared /\ [Next]_vars => Compared'
  BY DEF Next, vars, benchmarkVars
<1>3. Compared => VerdictRobust
  BY RobustVerdict
<1> QED
  BY <1>1, <1>2, <1>3, PTL DEF Spec

=============================================================================
