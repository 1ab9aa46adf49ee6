---------------------------- MODULE TwoClusters ----------------------------
(***************************************************************************)
(* Envoy/two-clusters: every city serves HTTP and has a talker thread that *)
(* asks, through Envoy, the cities of another continent for a word: pause, *)
(* ask, print the answer, for ever.  docker-compose runs the cities first  *)
(* and Envoy after them.  Envoy answers for a city that takes longer than  *)
(* the route's timeout, whose handler then works on for nobody.            *)
(*                                                                         *)
(* Time is counted in seconds; what is due happens before time goes on.    *)
(* Latencies below a second count as 0, those above as whole seconds.      *)
(***************************************************************************)
EXTENDS Integers, Sequences

CONSTANTS
    Cities,      \* the services of docker-compose.yml, without Envoy
    Partners,    \* the endpoints behind the listener of each city's TALKERS
    MinLatency,  \* of the handlers that answer each city: those of its
    MaxLatency,  \*   partners' continent, in seconds
    Timeout,     \* of the routes, in seconds (8)
    Pause        \* of a talker, in seconds (1)

ASSUME CitiesAssumption  == Partners \in [Cities -> (SUBSET Cities) \ {{}}]
ASSUME LatencyAssumption ==
    /\ MinLatency \in [Cities -> Nat] /\ MaxLatency \in [Cities -> Nat]
    /\ \A c \in Cities : MinLatency[c] <= MaxLatency[c]
ASSUME TimesAssumption   == Timeout \in Nat \ {0} /\ Pause \in Nat \ {0}

VARIABLES
    envoy,    \* 1 once its listeners are open
    app,      \* each city: no container, loading app.py, loaded, serving
    talker,   \* where the talker thread of each city is
    clock,    \* seconds since it began its pause, or its request
    work,     \* work[c]: seconds left to each handler at work for c's talker,
              \*   oldest first; the last one is awaited while c asks
    printed   \* 1 once the city has printed a line

vars == <<envoy, app, talker, clock, work, printed>>

Latencies(c) == MinLatency[c]..MaxLatency[c]

TypeOK ==
    /\ envoy \in {0, 1}
    /\ app \in [Cities -> {"none", "loading", "loaded", "serving"}]
    /\ talker \in [Cities -> {"none", "pause", "ask", "dead"}]
    /\ clock \in [Cities -> Nat]
    /\ \A c \in Cities : /\ work[c] \in Seq(0..MaxLatency[c])
                         /\ talker[c] = "pause" => clock[c] <= Pause
                         /\ talker[c] = "ask" => clock[c] <= Timeout /\ work[c] # <<>>
    /\ printed \in [Cities -> {0, 1}]

Init ==
    /\ envoy = 0
    /\ app = [c \in Cities |-> "none"]
    /\ talker = [c \in Cities |-> "none"]
    /\ clock = [c \in Cities |-> 0]
    /\ work = [c \in Cities |-> <<>>]
    /\ printed = [c \in Cities |-> 0]

-----------------------------------------------------------------------------
(* docker-compose up.                                                      *)

RunCity(c) ==
    /\ app[c] = "none"
    /\ app' = [app EXCEPT ![c] = "loading"]
    /\ UNCHANGED <<envoy, talker, clock, work, printed>>

(* flask loads app.py, which starts the talker, before it serves.          *)
LoadApp(c) ==
    /\ app[c] = "loading"
    /\ app' = [app EXCEPT ![c] = "loaded"]
    /\ talker' = [talker EXCEPT ![c] = "pause"]
    /\ UNCHANGED <<envoy, clock, work, printed>>

Serve(c) ==
    /\ app[c] = "loaded"
    /\ app' = [app EXCEPT ![c] = "serving"]
    /\ UNCHANGED <<envoy, talker, clock, work, printed>>

(* depends_on: the containers of the cities run, whatever is in them yet.  *)
RunEnvoy ==
    /\ envoy = 0
    /\ \A c \in Cities : app[c] # "none"
    /\ envoy' = 1
    /\ UNCHANGED <<app, talker, clock, work, printed>>

-----------------------------------------------------------------------------
(* Mutant: the pause is not counted anew.                                  *)
PrintLineKeepsClock(c) ==
    /\ printed' = [printed EXCEPT ![c] = 1]
    /\ talker' = [talker EXCEPT ![c] = "pause"]
    /\ UNCHANGED clock

(* What came, an answer or an error, is printed, and the loop begins again *)
(* with time.sleep(1).                                                     *)
PrintLine(c) ==
    /\ printed' = [printed EXCEPT ![c] = 1]
    /\ talker' = [talker EXCEPT ![c] = "pause"]
    /\ clock' = [clock EXCEPT ![c] = 0]

Slept(c) == talker[c] = "pause" /\ clock[c] = Pause

(* requests.get before Envoy listens raises ConnectionError, which nobody  *)
(* catches: the thread ends, and the city only serves from then on.        *)
Die(c) ==
    /\ Slept(c) /\ envoy = 0
    /\ talker' = [talker EXCEPT ![c] = "dead"]
    /\ clock' = [clock EXCEPT ![c] = 0]
    /\ UNCHANGED <<envoy, app, work, printed>>

(* Mutant: the talker does not wait for the answer.                        *)
AskAndGoOn(c) ==
    /\ Slept(c) /\ envoy = 1
    /\ \E s \in Partners[c], seconds \in Latencies(c) :
          app[s] = "serving" /\ work' = [work EXCEPT ![c] = Append(@, seconds)]
    /\ PrintLine(c)
    /\ UNCHANGED <<envoy, app>>

(* Envoy passes the request on to an endpoint, whose handler sleeps.       *)
Ask(c) ==
    /\ Slept(c) /\ envoy = 1
    /\ \E s \in Partners[c], seconds \in Latencies(c) :
          app[s] = "serving" /\ work' = [work EXCEPT ![c] = Append(@, seconds)]
    /\ talker' = [talker EXCEPT ![c] = "ask"]
    /\ clock' = [clock EXCEPT ![c] = 0]
    /\ UNCHANGED <<envoy, app, printed>>

(* An endpoint that does not listen yet: Envoy answers 503 at once.        *)
Unavailable(c) ==
    /\ Slept(c) /\ envoy = 1
    /\ \E s \in Partners[c] : app[s] # "serving"
    /\ PrintLine(c)
    /\ UNCHANGED <<envoy, app, work>>

(* The handler's latency is over: its answer, with whatever status.        *)
Answer(c) ==
    LET n == Len(work[c]) IN
    /\ talker[c] = "ask" /\ work[c][n] = 0
    /\ work' = [work EXCEPT ![c] = SubSeq(@, 1, n - 1)]
    /\ PrintLine(c)
    /\ UNCHANGED <<envoy, app>>

(* Mutant: a reply that is late is an exception.                           *)
TimeOutRaises(c) ==
    /\ talker[c] = "ask" /\ clock[c] = Timeout
    /\ talker' = [talker EXCEPT ![c] = "dead"]
    /\ clock' = [clock EXCEPT ![c] = 0]
    /\ UNCHANGED <<envoy, app, work, printed>>

(* The route's timeout: Envoy answers 504 and leaves the handler alone.    *)
TimeOut(c) ==
    /\ talker[c] = "ask" /\ clock[c] = Timeout
    /\ PrintLine(c)
    /\ UNCHANGED <<envoy, app, work>>

(* A handler nobody waits for any more ends.                               *)
Awaited(c) == IF talker[c] = "ask" THEN {Len(work[c])} ELSE {}
Discard(c) ==
    /\ \E i \in DOMAIN work[c] \ Awaited(c) :
          /\ work[c][i] = 0
          /\ work' = [work EXCEPT ![c] = SubSeq(@, 1, i - 1) \o SubSeq(@, i + 1, Len(@))]
    /\ UNCHANGED <<envoy, app, talker, clock, printed>>

-----------------------------------------------------------------------------
IsDue(c) == \/ Slept(c)
            \/ talker[c] = "ask" /\ clock[c] = Timeout
            \/ \E i \in DOMAIN work[c] : work[c][i] = 0

Tick ==
    /\ \A c \in Cities : ~IsDue(c)
    /\ clock' = [c \in Cities |-> IF talker[c] \in {"pause", "ask"}
                                  THEN clock[c] + 1 ELSE clock[c]]
    /\ work' = [c \in Cities |-> [i \in DOMAIN work[c] |-> work[c][i] - 1]]
    /\ UNCHANGED <<envoy, app, talker, printed>>

BootStep(c) == RunCity(c) \/ LoadApp(c) \/ Serve(c)
TalkStep(c) == Die(c) \/ Ask(c) \/ Unavailable(c) \/ Answer(c) \/ TimeOut(c) \/ Discard(c)

Next == (\E c \in Cities : BootStep(c) \/ TalkStep(c)) \/ RunEnvoy \/ Tick

(* What docker-compose runs keeps running, and time passes.                *)
Spec == /\ Init /\ [][Next]_vars
        /\ \A c \in Cities : WF_vars(BootStep(c)) /\ WF_vars(TalkStep(c))
        /\ WF_vars(RunEnvoy) /\ WF_vars(Tick)

-----------------------------------------------------------------------------
(* Handlers that nobody waits for do not pile up: a talker starts at most  *)
(* one per timeout and pause, so this many are at work for it at once.     *)
HandlersBound ==
    \A c \in Cities :
        Len(work[c]) <= 1 + MaxLatency[c] \div (Timeout + Pause)

(* A talker is lost only before its first line: it asked before Envoy      *)
(* listened.  The log of a silent city is empty, so a line in it tells     *)
(* that the city talks, whatever came late or not at all after it.         *)
SilentFromTheStart == \A c \in Cities : talker[c] = "dead" => printed[c] = 0

(* A city that has printed a line, be it an error, asks for ever: neither  *)
(* a partner that is not up, nor one that is too slow, silences it.        *)
TalksOn == \A c \in Cities : printed[c] = 1 ~> talker[c] = "ask"
=============================================================================
