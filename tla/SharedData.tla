----------------------------- MODULE SharedData -----------------------------
(***************************************************************************)
(* Envoy/golang_wasm_filters/shared_data: every Envoy worker thread runs   *)
(* its own WASM VM.  A request passes `Filters' instances of the plugin    *)
(* one after the other on one worker; each instance reads the counter from *)
(* the host's shared data, stores its successor and prints the value it    *)
(* read.  The workers share nothing but the host's shared data, so what    *)
(* one reads may be stale by the time it stores.                           *)
(*                                                                         *)
(* Itoa and Atoi are exact inverses on the values that can occur: a value  *)
(* is at most Filters * MaxRequests + 1, far below the 32-bit limit of the *)
(* TinyGo int.                                                             *)
(***************************************************************************)
EXTENDS Integers, FiniteSets

CONSTANTS
    Workers,      \* Envoy worker threads, each with its own WASM VM
    Filters,      \* plugin instances in the filter chain (2 in envoy.yaml)
    MaxRequests,  \* bound: requests that arrive
    MaxFaults     \* bound: host calls that fail for another reason

ASSUME WorkersAssumption == IsFiniteSet(Workers)
ASSUME BoundsAssumption  == /\ Filters \in Nat \ {0}
                            /\ MaxRequests \in Nat
                            /\ MaxFaults \in Nat

VARIABLES
    data,        \* the host's entry for COUNTER_NAME: its value and cas
    nextCas,     \* the cas the host gives to the next store
    pc,          \* where each worker is
    filter,      \* which instance of the chain each worker runs
    read,        \* (counter, cas) as getCounter returned them
    arrived,     \* requests arrived so far
    printed,     \* printed[v]: log lines "Counter value: v"
    mismatches,  \* log lines "failed to putCounter" for a cas mismatch
    faults,      \* log lines for any other failure of a host call
    restarted    \* history: workers that stored without a cas

vars == <<data, nextCas, pc, filter, read, arrived, printed, mismatches,
          faults, restarted>>

Values   == 1..(Filters * MaxRequests)
NotFound == [val |-> 0, cas |-> 0]     \* the host has no such key yet
Entry    == [val : Nat, cas : Nat]

TypeOK ==
    /\ data \in Entry
    /\ nextCas \in Nat \ {0}
    /\ pc \in [Workers -> {"idle", "get", "put", "print"}]
    /\ filter \in [Workers -> 1..Filters]
    /\ read \in [Workers -> Entry]
    /\ arrived \in 0..MaxRequests
    /\ printed \in [Values -> Nat]
    /\ mismatches \in Nat
    /\ faults \in 0..MaxFaults
    /\ restarted \in SUBSET Workers

Init ==
    /\ data = NotFound
    /\ nextCas = 1
    /\ pc = [w \in Workers |-> "idle"]
    /\ filter = [w \in Workers |-> 1]
    /\ read = [w \in Workers |-> NotFound]
    /\ arrived = 0
    /\ printed = [v \in Values |-> 0]
    /\ mismatches = 0
    /\ faults = 0
    /\ restarted = {}

-----------------------------------------------------------------------------
(* Mutant: the chain runs one instance too many.                           *)
ContinuePastEnd(w) ==
    IF filter[w] <= Filters
    THEN /\ filter' = [filter EXCEPT ![w] = @ + 1]
         /\ pc' = [pc EXCEPT ![w] = "get"]
    ELSE pc' = [pc EXCEPT ![w] = "idle"] /\ UNCHANGED filter

(* OnHttpRequestHeaders always returns ActionContinue: the request goes on *)
(* to the next instance of the chain, or leaves the worker.                *)
Continue(w) ==
    IF filter[w] < Filters
    THEN /\ filter' = [filter EXCEPT ![w] = @ + 1]
         /\ pc' = [pc EXCEPT ![w] = "get"]
    ELSE /\ pc' = [pc EXCEPT ![w] = "idle"]
         /\ UNCHANGED filter

(* A request arrives at an idle worker and enters the filter chain.        *)
Receive(w) ==
    /\ pc[w] = "idle"
    /\ arrived < MaxRequests
    /\ arrived' = arrived + 1
    /\ filter' = [filter EXCEPT ![w] = 1]
    /\ pc' = [pc EXCEPT ![w] = "get"]
    /\ UNCHANGED <<data, nextCas, read, printed, mismatches, faults, restarted>>

(* Mutant: the cas of the entry is not returned.                           *)
GetCounterNoCas(w) ==
    /\ pc[w] = "get"
    /\ read' = [read EXCEPT ![w] =
                  [val |-> IF data = NotFound THEN 1 ELSE data.val, cas |-> 0]]
    /\ pc' = [pc EXCEPT ![w] = "put"]
    /\ UNCHANGED <<data, nextCas, filter, arrived, printed, mismatches, faults,
                   restarted>>

(* getCounter: the entry, or value 1 with cas 0 when there is none yet.    *)
GetCounter(w) ==
    /\ pc[w] = "get"
    /\ read' = [read EXCEPT ![w] =
                  IF data = NotFound THEN [val |-> 1, cas |-> 0] ELSE data]
    /\ pc' = [pc EXCEPT ![w] = "put"]
    /\ UNCHANGED <<data, nextCas, filter, arrived, printed, mismatches, faults,
                   restarted>>

(* The host accepts a store without a cas, or with the entry's own cas.    *)
Accepts(cas) == cas = 0 \/ cas = data.cas

(* putCounter succeeds: the host stores counter+1 under a fresh cas.       *)
PutCounter(w) ==
    /\ pc[w] = "put"
    /\ Accepts(read[w].cas)
    /\ data' = [val |-> read[w].val + 1, cas |-> nextCas]
    /\ nextCas' = nextCas + 1
    /\ restarted' = IF read[w].cas = 0 THEN restarted \cup {w} ELSE restarted
    /\ pc' = [pc EXCEPT ![w] = "print"]
    /\ UNCHANGED <<filter, read, arrived, printed, mismatches, faults>>

(* Mutant: the store is retried with the counter and cas already read.     *)
PutMismatchRetry(w) ==
    /\ pc[w] = "put"
    /\ ~Accepts(read[w].cas)
    /\ mismatches' = mismatches + 1
    /\ UNCHANGED <<data, nextCas, pc, filter, read, arrived, printed, faults,
                   restarted>>

(* Mutant: the store is tried until the host accepts the same cas.         *)
PutMismatchSpin(w) == pc[w] = "put" /\ ~Accepts(read[w].cas) /\ UNCHANGED vars

(* putCounter fails because another worker stored in between: the error is *)
(* logged and the run ends; nothing is retried.                            *)
PutMismatch(w) ==
    /\ pc[w] = "put"
    /\ ~Accepts(read[w].cas)
    /\ mismatches' = mismatches + 1
    /\ Continue(w)
    /\ UNCHANGED <<data, nextCas, read, arrived, printed, faults, restarted>>

(* Any other failure of a host call: logged, and the run ends.             *)
HostFault(w) ==
    /\ pc[w] \in {"get", "put"}
    /\ faults < MaxFaults
    /\ faults' = faults + 1
    /\ Continue(w)
    /\ UNCHANGED <<data, nextCas, read, arrived, printed, mismatches, restarted>>

(* Mutant: the value stored is printed.                                    *)
LogCounterStored(w) ==
    /\ pc[w] = "print"
    /\ printed' = [printed EXCEPT ![read[w].val + 1] = @ + 1]
    /\ Continue(w)
    /\ UNCHANGED <<data, nextCas, read, arrived, mismatches, faults, restarted>>

(* The value read (not the one stored) is printed after the store.         *)
LogCounter(w) ==
    /\ pc[w] = "print"
    /\ printed' = [printed EXCEPT ![read[w].val] = @ + 1]
    /\ Continue(w)
    /\ UNCHANGED <<data, nextCas, read, arrived, mismatches, faults, restarted>>

Run(w) == \/ GetCounter(w) \/ PutCounter(w) \/ PutMismatch(w)
          \/ HostFault(w) \/ LogCounter(w)

AllServed == arrived = MaxRequests /\ \A w \in Workers : pc[w] = "idle"

Next == \/ \E w \in Workers : Receive(w) \/ Run(w)
        \/ AllServed /\ UNCHANGED vars

(* A worker thread that serves a request keeps running; nothing obliges a  *)
(* request to arrive.                                                      *)
Spec == Init /\ [][Next]_vars /\ \A w \in Workers : WF_vars(Run(w))

-----------------------------------------------------------------------------
(* Values stored over but not printed yet, and all values given to a run.  *)
Pending(v)  == {w \in Workers : pc[w] = "print" /\ read[w].val = v}
HandedOut   == [v \in Values |-> printed[v] + Cardinality(Pending(v))]
Current     == IF data = NotFound THEN 1 ELSE data.val

(* A worker reads the absent key at most once: whoever has stored without  *)
(* a cas can never be about to do so again.                                *)
RestartOnce ==
    \A w \in restarted : pc[w] = "put" => read[w].cas # 0

(* A cas that still matches guards the value it was read with, so a        *)
(* guarded store always continues from the entry it replaces.              *)
CasGuardsValue ==
    \A w \in Workers :
        pc[w] = "put" /\ read[w].cas # 0 /\ read[w].cas = data.cas
            => read[w].val = data.val

(* However the workers interleave, no value is given to more runs than     *)
(* there are workers: the log repeats a value at most |Workers| times.     *)
ReprintBound ==
    \A v \in Values : HandedOut[v] <= Cardinality(Workers)

(* No value below the counter was skipped: each was printed, or a worker   *)
(* is about to print it.                                                   *)
NoGap == \A v \in Values : v < Current => HandedOut[v] >= 1

(* Contention costs at most this much: every successful store makes at     *)
(* most one run of every other worker fail.                                *)
MismatchesCharged ==
    mismatches <= (Cardinality(Workers) - 1) * (nextCas - 1)

(* Only a worker's first store, made without a cas, can set the counter    *)
(* back; every other step leaves it or moves it on by exactly one.         *)
OnlyRestartsGoBack ==
    [][Current' \in {Current, Current + 1} \/ restarted' # restarted]_vars

(* Contention never holds a request: every request leaves its worker.      *)
EveryRequestLeaves ==
    \A w \in Workers : pc[w] # "idle" ~> pc[w] = "idle"

(* What the filters promise together, whatever the interleaving.           *)
Promise == INSTANCE RestartingCounter WITH
    MaxRestarts <- Cardinality(Workers),
    next <- Current, handed <- HandedOut, restarts <- Cardinality(restarted)
PromiseSpec == Promise!Spec
=============================================================================
