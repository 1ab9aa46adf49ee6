------------------------- MODULE SharedQueueProofs -------------------------
(***************************************************************************)
(* For any number of workers, filters and requests: the type invariant,    *)
(* the bound on the counters in circulation, and that a fork never heals.  *)
(***************************************************************************)
EXTENDS SharedQueue, FiniteSetTheorems, SequenceTheorems, TLAPS

(* Where a run that ends goes: to the next instance or out of the worker.  *)
LEMMA ContinueStep ==
    ASSUME TypeOK, NEW w \in Workers, Continue(w)
    PROVE  /\ filter' \in [Workers -> 1..Filters]
           /\ \E l \in {"idle", "resolve"} : pc' = [pc EXCEPT ![w] = l]
<1> USE BoundsAssumption DEF TypeOK
<1>1. CASE filter[w] < Filters
    BY <1>1 DEF Continue
<1>2. CASE ~(filter[w] < Filters)
    BY <1>2 DEF Continue
<1>3. QED BY <1>1, <1>2

LEMMA TypeNext == TypeOK /\ [Next]_vars => TypeOK'
<1> SUFFICES ASSUME TypeOK, [Next]_vars PROVE TypeOK'
    OBVIOUS
<1> USE BoundsAssumption DEF TypeOK, Goto, Labels
<1>1. ASSUME NEW w \in Workers, Receive(w) PROVE TypeOK'
    BY <1>1 DEF Receive
<1>2. ASSUME NEW w \in Workers, Resolve(w) PROVE TypeOK'
    BY <1>2 DEF Resolve
<1>3. ASSUME NEW w \in Workers, Register(w) PROVE TypeOK'
    BY <1>3 DEF Register
<1>4. ASSUME NEW w \in Workers, TakeCounter(w) PROVE TypeOK'
    <2>1. Head(queue) \in Nat /\ Tail(queue) \in Seq(Nat)
        BY <1>4 DEF TakeCounter
    <2>2. QED BY <1>4, <2>1 DEF TakeCounter
<1>5. ASSUME NEW w \in Workers, StartCounter(w) PROVE TypeOK'
    BY <1>5 DEF StartCounter
<1>6. ASSUME NEW w \in Workers, PutCounter(w) PROVE TypeOK'
    BY <1>6 DEF PutCounter
<1>7. ASSUME NEW w \in Workers, LoseCounter(w) PROVE TypeOK'
    BY <1>7 DEF LoseCounter
<1>8. ASSUME NEW w \in Workers, HostFault(w) PROVE TypeOK'
    <2>1. Continue(w) /\ UNCHANGED <<registered, queue, counter, arrived, printed, lost>>
        BY <1>8 DEF HostFault
    <2>2. pc' \in [Workers -> Labels] /\ filter' \in [Workers -> 1..Filters]
        BY <2>1, ContinueStep
    <2>3. failed' \in Nat
        BY <1>8 DEF HostFault
    <2>4. QED BY <2>1, <2>2, <2>3
<1>9. ASSUME NEW w \in Workers, LogCounter(w) PROVE TypeOK'
    <2>1. printed' = [v \in Values |-> IF v = counter[w] THEN printed[v] + 1
                                                       ELSE printed[v]]
        BY <1>9 DEF LogCounter
    <2>2. printed' \in [Values -> Nat]
        BY <2>1
    <2>3. Continue(w) /\ UNCHANGED <<registered, queue, counter, arrived, failed, lost>>
        BY <1>9 DEF LogCounter
    <2>4. PICK l \in {"idle", "resolve"} : pc' = [pc EXCEPT ![w] = l]
        BY <2>3, ContinueStep
    <2>5. pc' \in [Workers -> Labels] /\ filter' \in [Workers -> 1..Filters]
        BY <2>3, <2>4, ContinueStep
    <2>6. QED BY <2>2, <2>3, <2>5
<1>10. CASE UNCHANGED vars
    BY <1>10 DEF vars
<1>11. QED BY <1>1, <1>2, <1>3, <1>4, <1>5, <1>6, <1>7, <1>8, <1>9, <1>10
          DEF Next, Run

LEMMA TypeInit == Init => TypeOK
<1>1. <<>> \in Seq(Nat)
    OBVIOUS
<1>2. Init => registered \in BOOLEAN
    BY Zenon DEF Init
<1>3. Init => /\ pc \in [Workers -> Labels] /\ filter \in [Workers -> 1..Filters]
              /\ counter \in [Workers -> Nat] /\ arrived \in 0..MaxRequests
              /\ printed \in [Values -> Nat] /\ failed \in Nat /\ lost \in Nat
    BY BoundsAssumption DEF Init, Labels
<1>4. Init => queue \in Seq(Nat)
    BY <1>1 DEF Init
<1>5. QED BY <1>2, <1>3, <1>4 DEF TypeOK

(* Every state has its type, for every value of the constants.             *)
THEOREM TypeCorrect == Spec => []TypeOK
  BY TypeInit, TypeNext, PTL DEF Spec

-----------------------------------------------------------------------------
LEMMA HoldersFinite ==
    ASSUME TypeOK
    PROVE  /\ IsFiniteSet(Holders)
           /\ Cardinality(Holders) \in Nat
           /\ Cardinality(Holders) <= Cardinality(Workers)
           /\ Cardinality(Workers) \in Nat
           /\ Circulating \in Nat
<1>1. Holders \in SUBSET Workers
    BY DEF Holders
<1>2. Len(queue) \in Nat
    BY DEF TypeOK
<1>3. QED BY <1>1, <1>2, WorkersAssumption, FS_Subset, FS_CardinalityType
          DEF Circulating

(* A run that takes a counter moves it from the queue into its own hands.  *)
LEMMA TakeMoves ==
    ASSUME TypeOK, NEW w \in Workers, TakeCounter(w)
    PROVE  Circulating' = Circulating
<1>1. Holders' = Holders \cup {w} /\ w \notin Holders
    BY DEF TakeCounter, Goto, Holders, TypeOK
<1>2. Cardinality(Holders') = Cardinality(Holders) + 1
    BY <1>1, HoldersFinite, FS_AddElement
<1>3. Len(queue') = Len(queue) - 1 /\ Len(queue) \in Nat
    BY DEF TakeCounter, TypeOK
<1>4. QED BY <1>2, <1>3, HoldersFinite DEF Circulating

(* A run that starts a counter adds one; as the queue is empty then, every *)
(* counter in circulation is in the hands of a worker of its own.          *)
LEMMA StartAdds ==
    ASSUME TypeOK, NEW w \in Workers, StartCounter(w)
    PROVE  /\ Circulating' = Circulating + 1
           /\ Circulating' <= Cardinality(Workers)
<1>1. Holders' = Holders \cup {w} /\ w \notin Holders
    BY DEF StartCounter, Goto, Holders, TypeOK
<1>2. Cardinality(Holders') = Cardinality(Holders) + 1
    BY <1>1, HoldersFinite, FS_AddElement
<1>3. Cardinality(Holders') <= Cardinality(Workers)
    <2>1. Holders' \in SUBSET Workers
        BY DEF Holders
    <2>2. QED BY <2>1, WorkersAssumption, FS_Subset
<1>4. Len(queue') = 0 /\ Len(queue) = 0
    BY DEF StartCounter
<1>5. QED BY <1>2, <1>3, <1>4, HoldersFinite DEF Circulating

LEMMA PutMoves ==
    ASSUME TypeOK, NEW w \in Workers, PutCounter(w)
    PROVE  Circulating' = Circulating
<1>1. Holders' = Holders \ {w} /\ w \in Holders
    BY DEF PutCounter, Goto, Holders, TypeOK
<1>2. Cardinality(Holders') = Cardinality(Holders) - 1
    BY <1>1, HoldersFinite, FS_RemoveElement
<1>3. Len(queue') = Len(queue) + 1 /\ Len(queue) \in Nat
    BY DEF PutCounter, TypeOK
<1>4. QED BY <1>2, <1>3, HoldersFinite DEF Circulating

LEMMA LoseDrops ==
    ASSUME TypeOK, NEW w \in Workers, LoseCounter(w)
    PROVE  Circulating' = Circulating - 1 /\ lost' > lost
<1>1. Holders' = Holders \ {w} /\ w \in Holders
    BY DEF LoseCounter, Goto, Holders, TypeOK
<1>2. Cardinality(Holders') = Cardinality(Holders) - 1
    BY <1>1, HoldersFinite, FS_RemoveElement
<1>3. QED BY <1>2, HoldersFinite DEF Circulating, LoseCounter, TypeOK

LEMMA OthersKeep ==
    ASSUME TypeOK, NEW w \in Workers,
           \/ Receive(w) \/ Resolve(w) \/ Register(w) \/ HostFault(w) \/ LogCounter(w)
    PROVE  Circulating' = Circulating
<1>1. queue' = queue
    BY DEF Receive, Resolve, Register, HostFault, LogCounter
<1>2. Holders' = Holders
    <2> USE DEF Holders, TypeOK, Goto
    <2>1. CASE Receive(w)
        BY <2>1 DEF Receive
    <2>2. CASE Resolve(w)
        BY <2>2 DEF Resolve
    <2>3. CASE Register(w)
        BY <2>3 DEF Register
    <2>4. CASE HostFault(w)
        BY <2>4, ContinueStep DEF HostFault
    <2>5. CASE LogCounter(w)
        BY <2>5, ContinueStep DEF LogCounter
    <2>6. QED BY <2>1, <2>2, <2>3, <2>4, <2>5
<1>3. QED BY <1>1, <1>2 DEF Circulating

(* What a step does to the number of counters in circulation.              *)
LEMMA CirculatingStep ==
    ASSUME TypeOK, [Next]_vars
    PROVE  \/ Circulating' = Circulating
           \/ Circulating' = Circulating + 1 /\ Circulating' <= Cardinality(Workers)
           \/ Circulating' = Circulating - 1 /\ lost' > lost
<1>1. CASE UNCHANGED vars
    BY <1>1 DEF vars, Circulating, Holders
<1>2. ASSUME NEW w \in Workers, Receive(w) \/ Run(w)
      PROVE  \/ Circulating' = Circulating
             \/ Circulating' = Circulating + 1 /\ Circulating' <= Cardinality(Workers)
             \/ Circulating' = Circulating - 1 /\ lost' > lost
    BY <1>2, TakeMoves, StartAdds, PutMoves, LoseDrops, OthersKeep DEF Run
<1>3. QED BY <1>1, <1>2 DEF Next

(* The queue never outgrows the workers, however many requests arrive.     *)
THEOREM CountersBounded == Spec => []CountersBound
<1>1. Init => CountersBound
    <2> SUFFICES ASSUME Init PROVE CountersBound
        OBVIOUS
    <2>1. Holders = {} /\ Len(queue) = 0
        BY DEF Init, Holders
    <2>2. QED BY <2>1, FS_EmptySet, WorkersAssumption, FS_CardinalityType
              DEF CountersBound, Circulating
<1>2. TypeOK /\ CountersBound /\ [Next]_vars => CountersBound'
    BY CirculatingStep, HoldersFinite DEF CountersBound
<1>3. QED BY <1>1, <1>2, TypeCorrect, PTL DEF Spec

(* Two counters in circulation are never merged again.                     *)
THEOREM ForksStay == Spec => ForksNeverHeal
<1>1. TypeOK /\ [Next]_vars => (Circulating' >= Circulating \/ lost' > lost)
    BY CirculatingStep, HoldersFinite
<1>2. QED BY <1>1, TypeCorrect, PTL DEF Spec, ForksNeverHeal

-----------------------------------------------------------------------------
(* The three sets whose sizes EachCounterCountsOnce relates.               *)
LEMMA CountsFinite ==
    ASSUME TypeOK, NEW v
    PROVE  /\ IsFiniteSet(Past(v)) /\ Cardinality(Past(v)) \in Nat
           /\ IsFiniteSet(HoldersPast(v)) /\ Cardinality(HoldersPast(v)) \in Nat
           /\ IsFiniteSet(Pending(v)) /\ Cardinality(Pending(v)) \in Nat
<1>1. Len(queue) \in Nat /\ IsFiniteSet(1..Len(queue))
    BY FS_Interval DEF TypeOK
<1>2. Past(v) \in SUBSET (1..Len(queue))
    BY DEF Past
<1>3. HoldersPast(v) \in SUBSET Workers /\ Pending(v) \in SUBSET Workers
    BY DEF HoldersPast, Holders, Pending
<1>4. QED BY <1>1, <1>2, <1>3, WorkersAssumption, FS_Subset, FS_CardinalityType

(* Taking the head shifts the positions of the rest down by one.           *)
LEMMA PastTail ==
    ASSUME TypeOK, NEW w \in Workers, TakeCounter(w), NEW v \in Values
    PROVE  Cardinality(Past(v)') =
              IF Head(queue) > v THEN Cardinality(Past(v)) - 1
                                 ELSE Cardinality(Past(v))
<1> DEFINE rest == Past(v) \ {1}
           shift == [i \in rest |-> i - 1]
<1>1. /\ queue' = Tail(queue) /\ Len(queue) \in Nat \ {0}
      /\ Len(queue') = Len(queue) - 1
      /\ \A i \in 1..Len(queue') : queue'[i] = queue[i + 1]
    BY DEF TakeCounter, TypeOK
<1>2. Past(v)' = {i \in 1..Len(queue') : queue'[i] > v}
    BY DEF Past
<1>3. rest = {i \in 2..Len(queue) : queue[i] > v}
    BY <1>1 DEF Past
<1>4. shift \in Bijection(rest, Past(v)')
    <2>1. \A i \in rest : i - 1 \in Past(v)'
        BY <1>1, <1>2, <1>3
    <2>2. \A j \in Past(v)' : j + 1 \in rest /\ shift[j + 1] = j
        BY <1>1, <1>2, <1>3
    <2>3. \A i, j \in rest : shift[i] = shift[j] => i = j
        BY <1>3
    <2>4. shift \in [rest -> Past(v)']
        BY <2>1
    <2>5. QED BY <2>2, <2>3, <2>4 DEF Bijection, Injection, Surjection, IsInjective
<1>5. IsFiniteSet(rest) /\ Cardinality(rest) =
          IF 1 \in Past(v) THEN Cardinality(Past(v)) - 1 ELSE Cardinality(Past(v))
    BY CountsFinite, FS_RemoveElement
<1>6. Cardinality(Past(v)') = Cardinality(rest)
    <2>1. ExistsBijection(rest, Past(v)')
        BY <1>4 DEF ExistsBijection
    <2>2. QED BY <1>5, <2>1, FS_Bijection
<1>7. 1 \in Past(v) <=> Head(queue) > v
    BY <1>1 DEF Past, TypeOK
<1>8. QED BY <1>5, <1>6, <1>7

LEMMA PastAppend ==
    ASSUME TypeOK, NEW w \in Workers, PutCounter(w), NEW v \in Values
    PROVE  Cardinality(Past(v)') =
              IF counter[w] >= v THEN Cardinality(Past(v)) + 1
                                 ELSE Cardinality(Past(v))
<1> DEFINE last == Len(queue) + 1
<1>1. /\ Len(queue) \in Nat /\ Len(queue') = last
      /\ queue'[last] = counter[w] + 1 /\ counter[w] \in Nat
      /\ \A i \in 1..Len(queue) : queue'[i] = queue[i]
    BY DEF PutCounter, TypeOK
<1>2. Past(v)' = {i \in 1..last : queue'[i] > v}
    BY <1>1 DEF Past
<1>3. last \notin Past(v)
    BY <1>1 DEF Past
<1>4. CASE counter[w] >= v
    <2>1. Past(v)' = Past(v) \cup {last}
        BY <1>1, <1>2, <1>4 DEF Past, Values
    <2>2. QED BY <1>3, <1>4, <2>1, CountsFinite, FS_AddElement
<1>5. CASE ~(counter[w] >= v)
    <2>1. Past(v)' = Past(v)
        BY <1>1, <1>2, <1>5 DEF Past, Values
    <2>2. QED BY <1>5, <2>1
<1>6. QED BY <1>4, <1>5

(* A run that takes or starts a counter holds it ...                       *)
LEMMA HoldersGain ==
    ASSUME TypeOK, NEW w \in Workers, TakeCounter(w) \/ StartCounter(w),
           NEW v \in Values
    PROVE  /\ Cardinality(HoldersPast(v)') =
                 IF counter'[w] > v THEN Cardinality(HoldersPast(v)) + 1
                                    ELSE Cardinality(HoldersPast(v))
           /\ Pending(v)' = Pending(v)
<1>1. w \notin HoldersPast(v)
    BY DEF HoldersPast, Holders, Pending, TypeOK, TakeCounter, StartCounter, Goto
<1>2. HoldersPast(v)' = IF counter'[w] > v THEN HoldersPast(v) \cup {w}
                                           ELSE HoldersPast(v)
    BY DEF HoldersPast, Holders, Pending, TypeOK, TakeCounter, StartCounter, Goto
<1>3. Pending(v)' = Pending(v)
    BY DEF HoldersPast, Holders, Pending, TypeOK, TakeCounter, StartCounter, Goto
<1>4. QED BY <1>1, <1>2, <1>3, CountsFinite, FS_AddElement

(* ... until it puts the counter back or loses it; its value is then       *)
(* handed out.                                                             *)
LEMMA HoldersDrop ==
    ASSUME TypeOK, NEW w \in Workers, PutCounter(w) \/ LoseCounter(w),
           NEW v \in Values
    PROVE  /\ Cardinality(HoldersPast(v)') =
                 IF counter[w] > v THEN Cardinality(HoldersPast(v)) - 1
                                   ELSE Cardinality(HoldersPast(v))
           /\ HandedOut(v)' = IF counter[w] = v THEN HandedOut(v) + 1 ELSE HandedOut(v)
<1>1. HoldersPast(v)' = HoldersPast(v) \ {w} /\ (w \in HoldersPast(v) <=> counter[w] > v)
    BY DEF HoldersPast, Holders, Pending, TypeOK, PutCounter, LoseCounter, Goto
<1>2. Pending(v)' = (IF counter[w] = v THEN Pending(v) \cup {w} ELSE Pending(v))
          /\ w \notin Pending(v)
    BY DEF HoldersPast, Holders, Pending, TypeOK, PutCounter, LoseCounter, Goto
<1>3. printed' = printed /\ printed[v] \in Nat
    BY DEF HoldersPast, Holders, Pending, TypeOK, PutCounter, LoseCounter, Goto
<1>4. Cardinality(HoldersPast(v)') = IF counter[w] > v THEN Cardinality(HoldersPast(v)) - 1
                                                       ELSE Cardinality(HoldersPast(v))
    BY <1>1, CountsFinite, FS_RemoveElement
<1>5. Cardinality(Pending(v)') = IF counter[w] = v THEN Cardinality(Pending(v)) + 1
                                                   ELSE Cardinality(Pending(v))
    BY <1>2, CountsFinite, FS_AddElement
<1>6. QED BY <1>3, <1>4, <1>5, CountsFinite DEF HandedOut

LEMMA LogHandsOutNothing ==
    ASSUME TypeOK, NEW w \in Workers, LogCounter(w), NEW v \in Values
    PROVE  HandedOut(v)' = HandedOut(v) /\ HoldersPast(v)' = HoldersPast(v)
<1>0. PICK l \in {"idle", "resolve"} : pc' = [pc EXCEPT ![w] = l]
    BY ContinueStep DEF LogCounter
<1>1. /\ pc[w] = "print" /\ counter' = counter
      /\ printed' = [printed EXCEPT ![counter[w]] = @ + 1]
    BY DEF LogCounter
<1>2. HoldersPast(v)' = HoldersPast(v)
    BY <1>0, <1>1 DEF HoldersPast, Holders, TypeOK
<1>3. Pending(v)' = (IF counter[w] = v THEN Pending(v) \ {w} ELSE Pending(v))
          /\ (counter[w] = v => w \in Pending(v))
    BY <1>0, <1>1 DEF Pending, TypeOK
<1>4. Cardinality(Pending(v)') = IF counter[w] = v THEN Cardinality(Pending(v)) - 1
                                                   ELSE Cardinality(Pending(v))
    BY <1>3, CountsFinite, FS_RemoveElement
<1>5. printed'[v] = (IF counter[w] = v THEN printed[v] + 1 ELSE printed[v])
          /\ printed[v] \in Nat
    BY <1>1 DEF TypeOK
<1>6. QED BY <1>2, <1>4, <1>5, CountsFinite DEF HandedOut

LEMMA QuietSteps ==
    ASSUME TypeOK, NEW w \in Workers,
           \/ Receive(w) \/ Resolve(w) \/ Register(w) \/ HostFault(w),
           NEW v \in Values
    PROVE  HandedOut(v)' = HandedOut(v) /\ HoldersPast(v)' = HoldersPast(v)
<1>1. printed' = printed /\ counter' = counter
    BY DEF Receive, Resolve, Register, HostFault
<1>2. PICK l \in {"idle", "resolve", "register", "dequeue"} : pc' = [pc EXCEPT ![w] = l]
    BY ContinueStep DEF Receive, Resolve, Register, HostFault, Goto
<1>3. pc[w] \in {"idle", "resolve", "register", "dequeue"}
    BY DEF Receive, Resolve, Register, HostFault
<1>4. HoldersPast(v)' = HoldersPast(v) /\ Pending(v)' = Pending(v)
    BY <1>1, <1>2, <1>3 DEF HoldersPast, Holders, Pending, TypeOK
<1>5. QED BY <1>1, <1>4 DEF HandedOut

(* EachCounterCountsOnce for one value.                                    *)
CountsOnce(v) ==
    LET beyond == Cardinality(Past(v)) + Cardinality(HoldersPast(v))
    IN  beyond <= HandedOut(v) /\ HandedOut(v) <= beyond + lost

LEMMA CountsOnceStep ==
    ASSUME TypeOK, TypeOK', [Next]_vars, NEW v \in Values, CountsOnce(v)
    PROVE  CountsOnce(v)'
<1> USE DEF CountsOnce
<1>0. /\ Cardinality(Past(v)) \in Nat /\ Cardinality(HoldersPast(v)) \in Nat
      /\ HandedOut(v) \in Nat /\ lost \in Nat /\ v \in Nat \ {0}
    BY CountsFinite DEF HandedOut, TypeOK, Values
<1>1. ASSUME NEW w \in Workers, TakeCounter(w) PROVE CountsOnce(v)'
    <2>1. counter'[w] = Head(queue) /\ printed' = printed /\ lost' = lost
        BY <1>1 DEF TakeCounter, TypeOK
    <2>2. HandedOut(v)' = HandedOut(v)
        BY <1>1, <2>1, HoldersGain DEF HandedOut
    <2>3. QED BY <1>0, <1>1, <2>1, <2>2, HoldersGain, PastTail
<1>2. ASSUME NEW w \in Workers, StartCounter(w) PROVE CountsOnce(v)'
    <2>1. /\ counter'[w] = 1 /\ printed' = printed /\ lost' = lost
          /\ queue' = queue
        BY <1>2 DEF StartCounter, TypeOK
    <2>2. HandedOut(v)' = HandedOut(v) /\ Past(v)' = Past(v)
        BY <1>2, <2>1, HoldersGain DEF HandedOut, Past
    <2>3. QED BY <1>0, <1>2, <2>1, <2>2, HoldersGain
<1>3. ASSUME NEW w \in Workers, PutCounter(w) PROVE CountsOnce(v)'
    <2>1. lost' = lost /\ counter[w] \in Nat
        BY <1>3 DEF PutCounter, TypeOK
    <2>2. QED BY <1>0, <1>3, <2>1, HoldersDrop, PastAppend
<1>4. ASSUME NEW w \in Workers, LoseCounter(w) PROVE CountsOnce(v)'
    <2>1. lost' = lost + 1 /\ queue' = queue /\ counter[w] \in Nat
        BY <1>4 DEF LoseCounter, TypeOK
    <2>2. Past(v)' = Past(v)
        BY <2>1 DEF Past
    <2>3. QED BY <1>0, <1>4, <2>1, <2>2, HoldersDrop
<1>5. ASSUME NEW w \in Workers,
             \/ Receive(w) \/ Resolve(w) \/ Register(w) \/ HostFault(w) \/ LogCounter(w)
      PROVE  CountsOnce(v)'
    <2>1. queue' = queue /\ lost' = lost
        BY <1>5 DEF Receive, Resolve, Register, HostFault, LogCounter
    <2>2. Past(v)' = Past(v)
        BY <2>1 DEF Past
    <2>3. HandedOut(v)' = HandedOut(v) /\ HoldersPast(v)' = HoldersPast(v)
        BY <1>5, LogHandsOutNothing, QuietSteps
    <2>4. QED BY <2>1, <2>2, <2>3
<1>6. CASE UNCHANGED vars
    BY <1>6 DEF vars, Past, HoldersPast, Holders, HandedOut, Pending
<1>7. QED BY <1>1, <1>2, <1>3, <1>4, <1>5, <1>6 DEF Next, Run

(* Every counter in circulation has been handed out at each value below    *)
(* its own exactly once, no matter how the workers interleave.             *)
THEOREM CountersCountOnce == Spec => []EachCounterCountsOnce
<1>1. Init => \A v \in Values : CountsOnce(v)
    <2> SUFFICES ASSUME Init, NEW v \in Values PROVE CountsOnce(v)
        OBVIOUS
    <2>1. Past(v) = {} /\ HoldersPast(v) = {} /\ Pending(v) = {}
        BY DEF Init, Past, HoldersPast, Holders, Pending
    <2>2. QED BY <2>1, FS_EmptySet DEF Init, CountsOnce, HandedOut
<1>2. TypeOK /\ TypeOK' /\ [Next]_vars /\ (\A v \in Values : CountsOnce(v))
          => (\A v \in Values : CountsOnce(v))'
    BY CountsOnceStep
<1>3. TypeOK /\ (\A v \in Values : CountsOnce(v)) => EachCounterCountsOnce
    <2> SUFFICES ASSUME TypeOK, NEW v \in Values, CountsOnce(v)
                 PROVE  LET beyond == Cardinality(Past(v)) + Cardinality(HoldersPast(v))
                        IN  HandedOut(v) \in beyond..(beyond + lost)
        BY DEF EachCounterCountsOnce
    <2>1. HandedOut(v) \in Nat /\ lost \in Nat
        BY CountsFinite DEF HandedOut, TypeOK
    <2>2. QED BY <2>1, CountsFinite DEF CountsOnce
<1>4. QED BY <1>1, <1>2, <1>3, TypeCorrect, PTL DEF Spec

(* A value is printed by at most as many runs as there are workers, and by *)
(* one more for each counter lost.                                         *)
THEOREM BoundedReprints == Spec => []ReprintBound
<1>1. TypeOK /\ CountersBound /\ EachCounterCountsOnce => ReprintBound
    <2> SUFFICES ASSUME TypeOK, CountersBound, EachCounterCountsOnce, NEW v \in Values
                 PROVE  HandedOut(v) <= Cardinality(Workers) + lost
        BY DEF ReprintBound
    <2>1. Cardinality(Past(v)) <= Len(queue) /\ Len(queue) \in Nat
        <3>1. Past(v) \in SUBSET (1..Len(queue)) /\ Len(queue) \in Nat
            BY DEF Past, TypeOK
        <3>2. \A n \in Nat : IsFiniteSet(1..n) /\ Cardinality(1..n) = n
            <4> SUFFICES ASSUME NEW n \in Nat
                         PROVE  IsFiniteSet(1..n) /\ Cardinality(1..n) = n
                OBVIOUS
            <4>1. IsFiniteSet(1..n) /\ Cardinality(1..n) = IF 1 > n THEN 0 ELSE n - 1 + 1
                BY FS_Interval
            <4>2. QED BY <4>1
        <3>3. QED BY <3>1, <3>2, FS_Subset
    <2>2. Cardinality(HoldersPast(v)) <= Cardinality(Holders)
        BY HoldersFinite, FS_Subset DEF HoldersPast
    <2>3. HandedOut(v) <= Cardinality(Past(v)) + Cardinality(HoldersPast(v)) + lost
        BY CountsFinite DEF EachCounterCountsOnce, TypeOK
    <2>4. HandedOut(v) \in Nat /\ lost \in Nat
        BY CountsFinite DEF HandedOut, TypeOK
    <2>5. QED BY <2>1, <2>2, <2>3, <2>4, CountsFinite, HoldersFinite
              DEF CountersBound, Circulating
<1>2. QED BY <1>1, TypeCorrect, CountersBounded, CountersCountOnce, PTL
=============================================================================
