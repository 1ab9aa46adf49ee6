-------------------------- MODULE SharedDataProofs --------------------------
(***************************************************************************)
(* For any number of workers, filters and requests: the type invariant,    *)
(* the invariants of the cas, the bound on repeated values, and that       *)
(* SharedData implements RestartingCounter.                                *)
(***************************************************************************)
EXTENDS SharedData, FiniteSetTheorems, TLAPS

-----------------------------------------------------------------------------
(* Where a run that ends goes: to the next instance or out of the worker.  *)
LEMMA ContinueStep ==
    ASSUME TypeOK, NEW w \in Workers, Continue(w)
    PROVE  /\ filter' \in [Workers -> 1..Filters]
           /\ \E l \in {"idle", "get"} : pc' = [pc EXCEPT ![w] = l]
<1> USE BoundsAssumption DEF TypeOK
<1>1. CASE filter[w] < Filters
    BY <1>1 DEF Continue
<1>2. CASE ~(filter[w] < Filters)
    BY <1>2 DEF Continue
<1>3. QED BY <1>1, <1>2

LEMMA TypeInit == Init => TypeOK
  BY BoundsAssumption DEF Init, TypeOK, Entry, NotFound

LEMMA TypeNext == TypeOK /\ [Next]_vars => TypeOK'
<1> SUFFICES ASSUME TypeOK, [Next]_vars PROVE TypeOK'
    OBVIOUS
<1> USE BoundsAssumption DEF TypeOK, Entry
<1>1. ASSUME NEW w \in Workers, Receive(w) PROVE TypeOK'
    BY <1>1 DEF Receive
<1>2. ASSUME NEW w \in Workers, GetCounter(w) PROVE TypeOK'
    BY <1>2 DEF GetCounter
<1>3. ASSUME NEW w \in Workers, PutCounter(w) PROVE TypeOK'
    BY <1>3 DEF PutCounter
<1>4. ASSUME NEW w \in Workers, PutMismatch(w) PROVE TypeOK'
    BY <1>4, ContinueStep DEF PutMismatch
<1>5. ASSUME NEW w \in Workers, HostFault(w) PROVE TypeOK'
    BY <1>5, ContinueStep DEF HostFault
<1>6. ASSUME NEW w \in Workers, LogCounter(w) PROVE TypeOK'
    <2>1. printed' \in [Values -> Nat]
        <3>1. printed' = [v \in Values |-> IF v = read[w].val THEN printed[v] + 1
                                                              ELSE printed[v]]
            BY <1>6 DEF LogCounter
        <3>2. QED BY <3>1
    <2>2. QED BY <1>6, <2>1, ContinueStep DEF LogCounter
<1>7. CASE UNCHANGED vars
    BY <1>7 DEF vars
<1>8. QED BY <1>1, <1>2, <1>3, <1>4, <1>5, <1>6, <1>7 DEF Next, Run

(* Every state has its type, for every value of the constants.             *)
THEOREM TypeCorrect == Spec => []TypeOK
  BY TypeInit, TypeNext, PTL DEF Spec

-----------------------------------------------------------------------------
(* The inductive invariant of the cas: what has been handed out as a cas   *)
(* lies below nextCas, a counter that exists has been started by someone,  *)
(* and a read without a cas is a read of the absent key.                   *)
CasOrder ==
    /\ data = NotFound <=> restarted = {}
    /\ data # NotFound => data.cas > 0 /\ data.val >= 2
    /\ data.cas < nextCas
    /\ \A w \in Workers : pc[w] = "put" =>
          /\ read[w].cas < nextCas
          /\ read[w].val >= 1
          /\ read[w].cas = 0 => read[w].val = 1
          /\ data = NotFound => read[w].cas = 0

CasInv == CasOrder /\ RestartOnce /\ CasGuardsValue

LEMMA CasNext == TypeOK /\ CasInv /\ [Next]_vars => CasInv'
<1> SUFFICES ASSUME TypeOK, CasInv, [Next]_vars PROVE CasInv'
    OBVIOUS
<1> USE DEF CasInv, CasOrder, RestartOnce, CasGuardsValue, TypeOK, Entry, NotFound
<1>1. ASSUME NEW w \in Workers, Receive(w) PROVE CasInv'
    BY <1>1 DEF Receive
<1>2. ASSUME NEW w \in Workers, GetCounter(w) PROVE CasInv'
    <2>1. CASE data = NotFound
        BY <1>2, <2>1 DEF GetCounter
    <2>2. CASE data # NotFound
        BY <1>2, <2>2 DEF GetCounter
    <2>3. QED BY <2>1, <2>2
<1>3. ASSUME NEW w \in Workers, PutCounter(w) PROVE CasInv'
    <2>1. restarted' # {} /\ data' # NotFound
        BY <1>3 DEF PutCounter, Accepts
    <2>2. CasOrder'
        BY <1>3, <2>1 DEF PutCounter
    <2>3. RestartOnce' /\ CasGuardsValue'
        BY <1>3 DEF PutCounter
    <2>4. QED BY <2>2, <2>3
<1>4. ASSUME NEW w \in Workers, PutMismatch(w) PROVE CasInv'
    BY <1>4, ContinueStep DEF PutMismatch
<1>5. ASSUME NEW w \in Workers, HostFault(w) PROVE CasInv'
    BY <1>5, ContinueStep DEF HostFault
<1>6. ASSUME NEW w \in Workers, LogCounter(w) PROVE CasInv'
    BY <1>6, ContinueStep DEF LogCounter
<1>7. CASE UNCHANGED vars
    BY <1>7 DEF vars
<1>8. QED BY <1>1, <1>2, <1>3, <1>4, <1>5, <1>6, <1>7 DEF Next, Run

LEMMA CasInvariant == Spec => [](TypeOK /\ CasInv)
<1>1. Init => CasInv
    BY DEF Init, CasInv, CasOrder, RestartOnce, CasGuardsValue, NotFound
<1>2. QED BY <1>1, TypeInit, TypeNext, CasNext, PTL DEF Spec

(* Whoever stored without a cas never holds a read of the absent key again *)
(* (the cas of main.go:82 is 0 only before the first store).               *)
THEOREM RestartsOnce == Spec => []RestartOnce
  BY CasInvariant, PTL DEF CasInv

(* A matching cas proves that the counter read is still the stored one.    *)
THEOREM CasGuards == Spec => []CasGuardsValue
  BY CasInvariant, PTL DEF CasInv
-----------------------------------------------------------------------------
(* How each step changes the number of times a value was handed out: only  *)
(* a store hands out a value, and it hands out the one that was read.      *)
GaveOut(w) ==
    HandedOut' = [v \in Values |-> IF v = read[w].val THEN HandedOut[v] + 1
                                                      ELSE HandedOut[v]]

LEMMA PendingFinite ==
    ASSUME TypeOK, NEW v
    PROVE  IsFiniteSet(Pending(v)) /\ Cardinality(Pending(v)) \in Nat
  BY WorkersAssumption, FS_Subset, FS_CardinalityType DEF Pending

LEMMA PutGivesOut ==
    ASSUME TypeOK, NEW w \in Workers, PutCounter(w)
    PROVE  GaveOut(w)
<1> SUFFICES ASSUME NEW v \in Values
             PROVE  HandedOut'[v] = IF v = read[w].val THEN HandedOut[v] + 1
                                                       ELSE HandedOut[v]
    BY DEF GaveOut, HandedOut
<1>1. CASE v = read[w].val
    <2>1. Pending(v)' = Pending(v) \cup {w} /\ w \notin Pending(v)
        BY <1>1 DEF Pending, PutCounter, TypeOK
    <2>2. Cardinality(Pending(v)') = Cardinality(Pending(v)) + 1
        BY <2>1, PendingFinite, FS_AddElement
    <2>3. QED BY <1>1, <2>2, PendingFinite DEF HandedOut, PutCounter, TypeOK
<1>2. CASE v # read[w].val
    <2>1. Pending(v)' = Pending(v)
        BY <1>2 DEF Pending, PutCounter, TypeOK
    <2>2. QED BY <1>2, <2>1 DEF HandedOut, PutCounter
<1>3. QED BY <1>1, <1>2

LEMMA LogKeepsHandedOut ==
    ASSUME TypeOK, NEW w \in Workers, LogCounter(w)
    PROVE  HandedOut' = HandedOut
<1> SUFFICES ASSUME NEW v \in Values PROVE HandedOut'[v] = HandedOut[v]
    BY DEF HandedOut
<1>0. PICK l \in {"idle", "get"} : pc' = [pc EXCEPT ![w] = l]
    BY ContinueStep DEF LogCounter
<1>1. CASE v = read[w].val
    <2>1. Pending(v)' = Pending(v) \ {w} /\ w \in Pending(v)
        BY <1>0, <1>1 DEF Pending, LogCounter, TypeOK
    <2>2. Cardinality(Pending(v)') = Cardinality(Pending(v)) - 1
        BY <2>1, PendingFinite, FS_RemoveElement
    <2>3. printed'[v] = printed[v] + 1
        BY <1>1 DEF LogCounter, TypeOK
    <2>4. QED BY <2>2, <2>3, PendingFinite DEF HandedOut, TypeOK
<1>2. CASE v # read[w].val
    <2>1. Pending(v)' = Pending(v)
        BY <1>0, <1>2 DEF Pending, LogCounter, TypeOK
    <2>2. printed'[v] = printed[v]
        BY <1>2 DEF LogCounter, TypeOK
    <2>3. QED BY <2>1, <2>2 DEF HandedOut
<1>3. QED BY <1>1, <1>2

LEMMA OthersKeepHandedOut ==
    ASSUME TypeOK, NEW w \in Workers,
           \/ Receive(w) \/ GetCounter(w) \/ PutMismatch(w) \/ HostFault(w)
    PROVE  HandedOut' = HandedOut
<1> SUFFICES ASSUME NEW v \in Values PROVE HandedOut'[v] = HandedOut[v]
    BY DEF HandedOut
<1> USE DEF Pending, TypeOK
<1>1. printed' = printed
    BY DEF Receive, GetCounter, PutMismatch, HostFault
<1>2. Pending(v)' = Pending(v)
    <2>1. CASE Receive(w)
        BY <2>1 DEF Receive
    <2>2. CASE GetCounter(w)
        BY <2>2 DEF GetCounter
    <2>3. CASE PutMismatch(w)
        BY <2>3, ContinueStep DEF PutMismatch
    <2>4. CASE HostFault(w)
        BY <2>4, ContinueStep DEF HostFault
    <2>5. QED BY <2>1, <2>2, <2>3, <2>4
<1>3. QED BY <1>1, <1>2 DEF HandedOut

-----------------------------------------------------------------------------
(* The mapped state of RestartingCounter has the types its steps assume.   *)
LEMMA MappedTypes ==
    ASSUME TypeOK, CasInv
    PROVE  /\ HandedOut \in [Values -> Nat]
           /\ Current \in Nat \ {0}
           /\ IsFiniteSet(restarted)
           /\ Cardinality(restarted) \in Nat
           /\ Cardinality(restarted) <= Cardinality(Workers)
           /\ Cardinality(restarted) = 0 <=> data = NotFound
           /\ Cardinality(Workers) \in Nat
<1>1. HandedOut \in [Values -> Nat]
    <2> SUFFICES ASSUME NEW v \in Values PROVE HandedOut[v] \in Nat
        BY DEF HandedOut
    <2>1. QED BY PendingFinite DEF HandedOut, TypeOK
<1>2. Current \in Nat \ {0}
    BY DEF Current, CasInv, CasOrder, TypeOK, Entry
<1>3. IsFiniteSet(restarted) /\ Cardinality(restarted) \in Nat
          /\ Cardinality(restarted) <= Cardinality(Workers)
          /\ Cardinality(Workers) \in Nat
    BY WorkersAssumption, FS_Subset, FS_CardinalityType DEF TypeOK
<1>4. Cardinality(restarted) = 0 <=> data = NotFound
    BY <1>3, FS_EmptySet DEF CasInv, CasOrder
<1>5. QED BY <1>1, <1>2, <1>3, <1>4

(* A store without a cas starts counting again; with one it hands out the  *)
(* next value; no other step touches what RestartingCounter promises.      *)
LEMMA PutImplements ==
    ASSUME TypeOK, CasInv, TypeOK', CasInv', NEW w \in Workers, PutCounter(w)
    PROVE  Promise!HandOut \/ Promise!Restart
<1> USE DEF PutCounter, Promise!Give
<1>0. GaveOut(w) /\ Current' = read[w].val + 1
    BY PutGivesOut DEF Current, NotFound, TypeOK
<1>1. CASE read[w].cas = 0
    <2>1. read[w].val = 1 /\ w \notin restarted
        BY <1>1 DEF CasInv, CasOrder, RestartOnce
    <2>2. Cardinality(restarted') = Cardinality(restarted) + 1
        BY <1>1, <2>1, MappedTypes, FS_AddElement
    <2>3. Cardinality(restarted') <= Cardinality(Workers)
        BY WorkersAssumption, FS_Subset DEF TypeOK
    <2>4. Cardinality(restarted) < Cardinality(Workers)
        BY <2>2, <2>3, MappedTypes
    <2>5. QED BY <1>0, <2>1, <2>2, <2>4 DEF Promise!Restart, GaveOut
<1>2. CASE read[w].cas # 0
    <2>1. data # NotFound /\ read[w].val = data.val
        BY <1>2 DEF CasInv, CasOrder, CasGuardsValue, Accepts
    <2>2. read[w].val = Current
        BY <2>1 DEF Current
    <2>3. Cardinality(restarted) > 0 /\ restarted' = restarted
        BY <1>2, <2>1, MappedTypes
    <2>4. QED BY <1>0, <2>2, <2>3 DEF Promise!HandOut, GaveOut
<1>3. QED BY <1>1, <1>2

LEMMA StepImplements ==
    TypeOK /\ CasInv /\ TypeOK' /\ CasInv' /\ [Next]_vars
        => [Promise!Next]_(Promise!vars)
<1> SUFFICES ASSUME TypeOK, CasInv, TypeOK', CasInv', [Next]_vars
             PROVE  [Promise!Next]_(Promise!vars)
    OBVIOUS
<1>1. ASSUME NEW w \in Workers, PutCounter(w) PROVE Promise!Next
    BY <1>1, PutImplements DEF Promise!Next
<1>2. ASSUME NEW w \in Workers,
             \/ Receive(w) \/ GetCounter(w) \/ PutMismatch(w) \/ HostFault(w)
      PROVE  UNCHANGED Promise!vars
    <2>1. HandedOut' = HandedOut
        BY <1>2, OthersKeepHandedOut
    <2>2. data' = data /\ restarted' = restarted
        BY <1>2 DEF Receive, GetCounter, PutMismatch, HostFault
    <2>3. QED BY <2>1, <2>2 DEF Promise!vars, Current
<1>3. ASSUME NEW w \in Workers, LogCounter(w) PROVE UNCHANGED Promise!vars
    BY <1>3, LogKeepsHandedOut DEF LogCounter, Promise!vars, Current
<1>4. CASE UNCHANGED vars
    BY <1>4 DEF vars, Promise!vars, Current, HandedOut, Pending
<1>5. QED BY <1>1, <1>2, <1>3, <1>4 DEF Next, Run

LEMMA InitImplements == Init => Promise!Init
<1> SUFFICES ASSUME Init PROVE Promise!Init
    OBVIOUS
<1>1. \A v \in Values : Pending(v) = {}
    BY DEF Init, Pending
<1>2. HandedOut = [v \in Values |-> 0]
    BY <1>1, FS_EmptySet DEF HandedOut, Init
<1>3. QED BY <1>2, FS_EmptySet DEF Init, Promise!Init, Current

(* The filters implement the counter that restarts at most once per worker.*)
THEOREM ImplementsPromise == Spec => PromiseSpec
  BY InitImplements, StepImplements, CasInvariant, PTL
  DEF Spec, PromiseSpec, Promise!Spec

-----------------------------------------------------------------------------
(* A step of the promised counter keeps the values apart: since the last   *)
(* start each value below next was handed out, and none from next on.      *)
LEMMA OncePerStartStep ==
    ASSUME TypeOK, CasInv, TypeOK', CasInv', Promise!OncePerStart,
           [Promise!Next]_(Promise!vars)
    PROVE  Promise!OncePerStart'
<1> USE MappedTypes DEF Promise!OncePerStart, Promise!Give, Values
<1>1. CASE Promise!HandOut
    BY <1>1 DEF Promise!HandOut
<1>2. CASE Promise!Restart
    BY <1>2 DEF Promise!Restart
<1>3. CASE UNCHANGED Promise!vars
    BY <1>3 DEF Promise!vars
<1>4. QED BY <1>1, <1>2, <1>3 DEF Promise!Next

LEMMA OncePerStartInvariant == Spec => []Promise!OncePerStart
<1>1. Init => Promise!OncePerStart
    BY InitImplements DEF Promise!Init, Promise!OncePerStart, Values
<1>2. QED
    BY <1>1, StepImplements, OncePerStartStep, CasInvariant, PTL DEF Spec

(* No value is printed by more runs than there are workers, no matter how  *)
(* many requests race for the counter.                                     *)
THEOREM BoundedReprints == Spec => []ReprintBound
<1>1. TypeOK /\ CasInv /\ Promise!OncePerStart => ReprintBound
    BY MappedTypes DEF Promise!OncePerStart, ReprintBound
<1>2. QED BY <1>1, CasInvariant, OncePerStartInvariant, PTL

(* No value below the counter is skipped.                                  *)
THEOREM NoValueSkipped == Spec => []NoGap
<1>1. Promise!OncePerStart => NoGap
    BY DEF Promise!OncePerStart, NoGap
<1>2. QED BY <1>1, OncePerStartInvariant, PTL

(* Only a worker's unguarded store sets the counter back.                  *)
THEOREM GoesBackOnlyByRestart == Spec => OnlyRestartsGoBack
<1>1. TypeOK /\ CasInv /\ TypeOK' /\ CasInv' /\ [Next]_vars
          => (Current' \in {Current, Current + 1} \/ restarted' # restarted)
    <2> SUFFICES ASSUME TypeOK, CasInv, TypeOK', CasInv', [Next]_vars,
                        Current' \notin {Current, Current + 1}
                 PROVE  restarted' # restarted
        OBVIOUS
    <2>1. CASE Promise!HandOut
        BY <2>1 DEF Promise!HandOut
    <2>2. CASE Promise!Restart
        BY <2>2, MappedTypes DEF Promise!Restart
    <2>3. CASE UNCHANGED Promise!vars
        BY <2>3 DEF Promise!vars
    <2>4. QED BY <2>1, <2>2, <2>3, StepImplements DEF Promise!Next
<1>2. QED BY <1>1, CasInvariant, PTL DEF Spec, OnlyRestartsGoBack
-----------------------------------------------------------------------------
(* The runs whose store is bound to fail.  A store can make every other    *)
(* run stale, and nothing else makes one: the stale runs are charged to    *)
(* the stores before they fail.                                            *)
Stale == {w \in Workers : pc[w] = "put" /\ ~ Accepts(read[w].cas)}

StaleCharged ==
    mismatches + Cardinality(Stale) <= (Cardinality(Workers) - 1) * (nextCas - 1)

LEMMA StaleSize ==
    ASSUME NEW w \in Workers
    PROVE  /\ Cardinality(Stale) \in Nat
           /\ Cardinality(Workers) - 1 \in Nat
           /\ Stale' \subseteq Stale =>
                  Cardinality(Stale') \in Nat /\ Cardinality(Stale') <= Cardinality(Stale)
           /\ w \in Stale /\ Stale' \subseteq Stale \ {w} =>
                  Cardinality(Stale') \in Nat /\ Cardinality(Stale') + 1 <= Cardinality(Stale)
           /\ Stale' \subseteq Workers \ {w} =>
                  Cardinality(Stale') \in Nat /\ Cardinality(Stale') <= Cardinality(Workers) - 1
<1>1. IsFiniteSet(Stale) /\ Cardinality(Stale) \in Nat
    BY WorkersAssumption, FS_Subset, FS_CardinalityType DEF Stale
<1>2. /\ IsFiniteSet(Workers \ {w})
      /\ Cardinality(Workers \ {w}) = Cardinality(Workers) - 1
      /\ Cardinality(Workers \ {w}) \in Nat
    BY WorkersAssumption, FS_RemoveElement, FS_CardinalityType
<1>3. ASSUME Stale' \subseteq Stale
      PROVE  Cardinality(Stale') \in Nat /\ Cardinality(Stale') <= Cardinality(Stale)
    BY <1>1, <1>3, FS_Subset, FS_CardinalityType
<1>4. ASSUME w \in Stale, Stale' \subseteq Stale \ {w}
      PROVE  Cardinality(Stale') \in Nat /\ Cardinality(Stale') + 1 <= Cardinality(Stale)
    <2>1. /\ IsFiniteSet(Stale \ {w})
          /\ Cardinality(Stale \ {w}) = Cardinality(Stale) - 1
        BY <1>1, <1>4, FS_RemoveElement
    <2>2. Cardinality(Stale') \in Nat /\ Cardinality(Stale') <= Cardinality(Stale \ {w})
        BY <1>4, <2>1, FS_Subset, FS_CardinalityType
    <2>3. QED BY <1>1, <2>1, <2>2
<1>5. ASSUME Stale' \subseteq Workers \ {w}
      PROVE  Cardinality(Stale') \in Nat /\ Cardinality(Stale') <= Cardinality(Workers) - 1
    <2>1. Cardinality(Stale') \in Nat /\ Cardinality(Stale') <= Cardinality(Workers \ {w})
        BY <1>2, <1>5, FS_Subset, FS_CardinalityType
    <2>2. QED BY <1>2, <2>1
<1>6. QED BY <1>1, <1>2, <1>3, <1>4, <1>5

(* What a step does to the stale runs and to the two counts.               *)
LEMMA StaleStep ==
    ASSUME TypeOK, NEW w \in Workers, Receive(w) \/ Run(w)
    PROVE  \/ Stale' \subseteq Stale /\ UNCHANGED <<mismatches, nextCas>>
           \/ /\ w \in Stale /\ Stale' \subseteq Stale \ {w}
              /\ mismatches' = mismatches + 1 /\ nextCas' = nextCas
           \/ /\ Stale' \subseteq Workers \ {w}
              /\ mismatches' = mismatches /\ nextCas' = nextCas + 1
<1> USE DEF Stale, Accepts, TypeOK
<1>1. CASE Receive(w)
    BY <1>1 DEF Receive
<1>2. CASE GetCounter(w)
    BY <1>2 DEF GetCounter
<1>3. CASE PutCounter(w)
    BY <1>3 DEF PutCounter
<1>4. CASE PutMismatch(w)
    BY <1>4, ContinueStep DEF PutMismatch
<1>5. CASE HostFault(w)
    BY <1>5, ContinueStep DEF HostFault
<1>6. CASE LogCounter(w)
    BY <1>6, ContinueStep DEF LogCounter
<1>7. QED BY <1>1, <1>2, <1>3, <1>4, <1>5, <1>6 DEF Run

LEMMA StaleChargedNext ==
    ASSUME TypeOK, StaleCharged, [Next]_vars
    PROVE  StaleCharged'
<1> DEFINE k == Cardinality(Workers) - 1
<1>1. ASSUME NEW w \in Workers, Receive(w) \/ Run(w) PROVE StaleCharged'
    <2>1. k \in Nat /\ Cardinality(Stale) \in Nat
        BY StaleSize
    <2>2. mismatches \in Nat /\ nextCas \in Nat
          /\ mismatches + Cardinality(Stale) <= k * (nextCas - 1)
        BY DEF TypeOK, StaleCharged
    <2> HIDE DEF k
    <2>3. CASE Stale' \subseteq Stale /\ UNCHANGED <<mismatches, nextCas>>
        <3>1. Cardinality(Stale') \in Nat /\ Cardinality(Stale') <= Cardinality(Stale)
            BY <2>3, StaleSize
        <3>2. mismatches' + Cardinality(Stale') <= k * (nextCas' - 1)
            BY <2>1, <2>2, <2>3, <3>1
        <3>3. QED BY <3>2 DEF StaleCharged, k
    <2>4. CASE /\ w \in Stale /\ Stale' \subseteq Stale \ {w}
               /\ mismatches' = mismatches + 1 /\ nextCas' = nextCas
        <3>1. Cardinality(Stale') \in Nat /\ Cardinality(Stale') + 1 <= Cardinality(Stale)
            BY <2>4, StaleSize
        <3>2. mismatches' + Cardinality(Stale') <= k * (nextCas' - 1)
            BY <2>1, <2>2, <2>4, <3>1
        <3>3. QED BY <3>2 DEF StaleCharged, k
    <2>5. CASE /\ Stale' \subseteq Workers \ {w}
               /\ mismatches' = mismatches /\ nextCas' = nextCas + 1
        <3>1. Cardinality(Stale') \in Nat /\ Cardinality(Stale') <= k
            BY <2>5, StaleSize DEF k
        <3>2. k * (nextCas' - 1) = k * (nextCas - 1) + k
            BY <2>1, <2>2, <2>5
        <3>3. k * (nextCas - 1) \in Int
            BY <2>1, <2>2
        <3>4. mismatches' + Cardinality(Stale') <= k * (nextCas' - 1)
            BY <2>1, <2>2, <2>5, <3>1, <3>2, <3>3
        <3>5. QED BY <3>4 DEF StaleCharged, k
    <2>6. QED BY <1>1, <2>3, <2>4, <2>5, StaleStep
<1>2. CASE UNCHANGED vars
    BY <1>2 DEF vars, StaleCharged, Stale, Accepts
<1>3. QED BY <1>1, <1>2 DEF Next

(* A store makes at most one run of every other worker fail, and nothing   *)
(* else does: so many cas mismatches there are, and no more.               *)
THEOREM MismatchesBounded == Spec => []MismatchesCharged
<1>1. Init => StaleCharged
    <2> SUFFICES ASSUME Init PROVE StaleCharged
        OBVIOUS
    <2>1. Stale = {} /\ mismatches = 0 /\ nextCas - 1 = 0
        BY DEF Init, Stale
    <2>2. Cardinality(Workers) - 1 \in Int
        BY WorkersAssumption, FS_CardinalityType
    <2>3. QED BY <2>1, <2>2, FS_EmptySet DEF StaleCharged
<1>2. TypeOK /\ StaleCharged => MismatchesCharged
    <2> SUFFICES ASSUME TypeOK, StaleCharged PROVE MismatchesCharged
        OBVIOUS
    <2>1. Cardinality(Stale) \in Nat /\ Cardinality(Workers) \in Nat
        BY WorkersAssumption, FS_Subset, FS_CardinalityType DEF Stale
    <2>2. mismatches \in Nat /\ (Cardinality(Workers) - 1) * (nextCas - 1) \in Int
        BY <2>1 DEF TypeOK
    <2>3. QED BY <2>1, <2>2 DEF StaleCharged, MismatchesCharged
<1>3. QED BY <1>1, <1>2, StaleChargedNext, TypeCorrect, PTL DEF Spec
=============================================================================
