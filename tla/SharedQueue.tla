---------------------------- MODULE SharedQueue ----------------------------
(***************************************************************************)
(* Envoy/golang_wasm_filters/shared_queue: the same counter as SharedData, *)
(* kept in the host's shared queue.  A run takes the counter out of the    *)
(* queue and puts its successor back.  While it is out, the queue is empty *)
(* and another worker's run takes the emptiness for a first start: it      *)
(* counts from 1 again, and from then on two counters are in circulation.  *)
(***************************************************************************)
EXTENDS Integers, Sequences, FiniteSets

CONSTANTS
    Workers,      \* Envoy worker threads, each with its own WASM VM
    Filters,      \* plugin instances in the filter chain (2 in envoy.yaml)
    MaxRequests,  \* bound: requests that arrive
    MaxFaults     \* bound: host calls that fail

ASSUME WorkersAssumption == IsFiniteSet(Workers)
ASSUME BoundsAssumption  == /\ Filters \in Nat \ {0}
                            /\ MaxRequests \in Nat
                            /\ MaxFaults \in Nat

VARIABLES
    registered,  \* the host knows QUEUE_ID
    queue,       \* the counters in the queue, oldest first
    pc,          \* where each worker is
    filter,      \* which instance of the chain each worker runs
    counter,     \* the counter each run took
    arrived,     \* requests arrived so far
    printed,     \* printed[v]: log lines "Counter value: v"
    failed,      \* log lines "failed to getIncCounter"
    lost         \* counters taken out and never put back (a failed enqueue)

vars == <<registered, queue, pc, filter, counter, arrived, printed, failed, lost>>

Values == 1..(Filters * MaxRequests)
Labels == {"idle", "resolve", "register", "dequeue", "enqueue", "print"}

TypeOK ==
    /\ registered \in BOOLEAN
    /\ queue \in Seq(Nat)
    /\ pc \in [Workers -> Labels]
    /\ filter \in [Workers -> 1..Filters]
    /\ counter \in [Workers -> Nat]
    /\ arrived \in 0..MaxRequests
    /\ printed \in [Values -> Nat]
    /\ failed \in Nat
    /\ lost \in Nat

Init ==
    /\ registered = FALSE
    /\ queue = <<>>
    /\ pc = [w \in Workers |-> "idle"]
    /\ filter = [w \in Workers |-> 1]
    /\ counter = [w \in Workers |-> 0]
    /\ arrived = 0
    /\ printed = [v \in Values |-> 0]
    /\ failed = 0
    /\ lost = 0

-----------------------------------------------------------------------------
(* Mutant: the chain runs one instance too many.                           *)
ContinuePastEnd(w) ==
    IF filter[w] <= Filters
    THEN /\ filter' = [filter EXCEPT ![w] = @ + 1]
         /\ pc' = [pc EXCEPT ![w] = "resolve"]
    ELSE pc' = [pc EXCEPT ![w] = "idle"] /\ UNCHANGED filter

(* OnHttpRequestHeaders returns ActionContinue: on to the next instance of *)
(* the chain, or out of the worker.                                        *)
Continue(w) ==
    IF filter[w] < Filters
    THEN /\ filter' = [filter EXCEPT ![w] = @ + 1]
         /\ pc' = [pc EXCEPT ![w] = "resolve"]
    ELSE /\ pc' = [pc EXCEPT ![w] = "idle"]
         /\ UNCHANGED filter

Goto(w, label) == pc' = [pc EXCEPT ![w] = label] /\ UNCHANGED filter

Receive(w) ==
    /\ pc[w] = "idle"
    /\ arrived < MaxRequests
    /\ arrived' = arrived + 1
    /\ filter' = [filter EXCEPT ![w] = 1]
    /\ pc' = [pc EXCEPT ![w] = "resolve"]
    /\ UNCHANGED <<registered, queue, counter, printed, failed, lost>>

(* ResolveSharedQueue: the queue, or NotFound and then a registration.     *)
Resolve(w) ==
    /\ pc[w] = "resolve"
    /\ Goto(w, IF registered THEN "dequeue" ELSE "register")
    /\ UNCHANGED <<registered, queue, counter, arrived, printed, failed, lost>>

(* RegisterSharedQueue by a worker that may no longer be the first: the    *)
(* host returns the queue of that name and keeps its content.              *)
Register(w) ==
    /\ pc[w] = "register"
    /\ registered' = TRUE
    /\ Goto(w, "dequeue")
    /\ UNCHANGED <<queue, counter, arrived, printed, failed, lost>>

(* getCounter: the oldest counter leaves the queue ...                     *)
TakeCounter(w) ==
    /\ pc[w] = "dequeue"
    /\ queue # <<>>
    /\ counter' = [counter EXCEPT ![w] = Head(queue)]
    /\ queue' = Tail(queue)
    /\ Goto(w, "enqueue")
    /\ UNCHANGED <<registered, arrived, printed, failed, lost>>

(* Mutant: a counter is started whenever the queue cannot be read, taken   *)
(* for empty while it holds counters.                                      *)
StartCounterAnytime(w) ==
    /\ pc[w] = "dequeue"
    /\ counter' = [counter EXCEPT ![w] = 1]
    /\ Goto(w, "enqueue")
    /\ UNCHANGED <<registered, queue, arrived, printed, failed, lost>>

(* ... and an empty queue means that counting starts at 1.                 *)
StartCounter(w) ==
    /\ pc[w] = "dequeue"
    /\ queue = <<>>
    /\ counter' = [counter EXCEPT ![w] = 1]
    /\ Goto(w, "enqueue")
    /\ UNCHANGED <<registered, queue, arrived, printed, failed, lost>>

(* Mutant: the counter taken is put back unchanged.                        *)
PutCounterSame(w) ==
    /\ pc[w] = "enqueue"
    /\ queue' = Append(queue, counter[w])
    /\ Goto(w, "print")
    /\ UNCHANGED <<registered, counter, arrived, printed, failed, lost>>

(* Mutant: a counter is put back only into an empty queue; a run that finds *)
(* another counter there drops its own.                                    *)
PutCounterMerges(w) ==
    /\ pc[w] = "enqueue"
    /\ queue' = IF queue = <<>> THEN <<counter[w] + 1>> ELSE queue
    /\ Goto(w, "print")
    /\ UNCHANGED <<registered, counter, arrived, printed, failed, lost>>

(* putCounter: the successor joins the queue.                              *)
PutCounter(w) ==
    /\ pc[w] = "enqueue"
    /\ queue' = Append(queue, counter[w] + 1)
    /\ Goto(w, "print")
    /\ UNCHANGED <<registered, counter, arrived, printed, failed, lost>>

(* A failed enqueue returns an error that getIncCounter drops: the value   *)
(* is printed as if nothing had happened, and the counter is gone.         *)
LoseCounter(w) ==
    /\ pc[w] = "enqueue"
    /\ failed + lost < MaxFaults
    /\ lost' = lost + 1
    /\ Goto(w, "print")
    /\ UNCHANGED <<registered, queue, counter, arrived, printed, failed>>

(* Any other failing host call ends the run with a log line.               *)
HostFault(w) ==
    /\ pc[w] \in {"resolve", "register", "dequeue"}
    /\ failed + lost < MaxFaults
    /\ failed' = failed + 1
    /\ Continue(w)
    /\ UNCHANGED <<registered, queue, counter, arrived, printed, lost>>

(* The value taken (not the one put back) is printed.                      *)
LogCounter(w) ==
    /\ pc[w] = "print"
    /\ printed' = [printed EXCEPT ![counter[w]] = @ + 1]
    /\ Continue(w)
    /\ UNCHANGED <<registered, queue, counter, arrived, failed, lost>>

Run(w) == \/ Resolve(w)     \/ Register(w)   \/ TakeCounter(w) \/ StartCounter(w)
          \/ PutCounter(w)  \/ LoseCounter(w) \/ HostFault(w)  \/ LogCounter(w)

AllServed == arrived = MaxRequests /\ \A w \in Workers : pc[w] = "idle"

Next == \/ \E w \in Workers : Receive(w) \/ Run(w)
        \/ AllServed /\ UNCHANGED vars

Spec == Init /\ [][Next]_vars

-----------------------------------------------------------------------------
Holders       == {w \in Workers : pc[w] = "enqueue"}
Pending(v)    == {w \in Workers : pc[w] = "print" /\ counter[w] = v}
Past(v)       == {i \in 1..Len(queue) : queue[i] > v}
HoldersPast(v) == {w \in Holders : counter[w] > v}
Circulating   == Len(queue) + Cardinality(Holders)
HandedOut(v)  == printed[v] + Cardinality(Pending(v))

(* However many runs fork the counter, no more counters circulate, in the  *)
(* queue and in the hands of runs, than there are workers: the queue       *)
(* cannot grow with the requests.                                          *)
CountersBound == Circulating <= Cardinality(Workers)

(* Every counter passed each value below its own exactly once: a value was *)
(* handed out once by each counter beyond it, and at most once by each     *)
(* counter that was lost.                                                  *)
EachCounterCountsOnce ==
    \A v \in Values :
        LET beyond == Cardinality(Past(v)) + Cardinality(HoldersPast(v))
        IN  HandedOut(v) \in beyond..(beyond + lost)

(* A value is printed by at most as many runs as there are workers, and by *)
(* one more for each counter lost.                                         *)
ReprintBound == \A v \in Values : HandedOut(v) <= Cardinality(Workers) + lost

(* A fork is for good: no step of any run merges two counters, keeps the   *)
(* one it took or drops it from circulation, except an enqueue that fails. *)
ForksNeverHeal ==
    [][Circulating' >= Circulating \/ lost' > lost]_vars

(* README.md:4 and its log "Counter value: 1" ... "Counter value: 6": with *)
(* no failing host call every run prints a value of its own.               *)
EachValueOnce == \A v \in Values : printed[v] <= 1
=============================================================================
