---------------------------- MODULE DigitPipeline ----------------------------
(***************************************************************************)
(* Kubernetes/DigitRecon, from the webapp to the model and back.  The      *)
(* webapp's TCPServer handles one connection at a time: it posts the image *)
(* to an endpoint of checker-service and waits, without a timeout.  The    *)
(* checker, serial too, sends its 200 header first, has the image          *)
(* converted by the pngconverter of its pod (or falls back to the original *)
(* one), loads the model and recognises the digit.  An exception on the    *)
(* way ends the handler and leaves the body empty.                         *)
(* The checkers' start and the model's files are those of ModelStartup.    *)
(***************************************************************************)
EXTENDS ModelStartup

CONSTANTS
    Requests,     \* POST /checkDigit requests of the page
    Kind,         \* what each of them carries, see Kinds
    MaxWebKills,  \* bound: webapp containers killed and restarted
    MaxStops,     \* bound: times a pngconverter stops
    None          \* no request, no replica, no reply

(* A 28x28 grey PNG, as the test images of digitchecker; the page's canvas *)
(* of 280x280 pixels in colour; anything that is not a picture.  A reply   *)
(* is a digit or "?" in its JSON object, nothing at all, or an error text. *)
Kinds   == {"gray28", "canvas", "notpng"}
Replies == {"json", "", "not ready", "POST exception"}

ASSUME RequestsAssumption == IsFiniteSet(Requests) /\ Kind \in [Requests -> Kinds]
ASSUME PipelineBounds     == MaxWebKills \in Nat /\ MaxStops \in Nat
ASSUME NoneAssumption     == None \notin UNION {Requests, Replicas, Replies, Kinds,
                                               {"empty", "reset"}}

VARIABLES
    stage,      \* how far each request has come
    webapp,     \* the request the webapp handles
    at,         \* the replica a request was posted to
    job,        \* job[r]: the request replica r handles
    image,      \* the image each request is recognised from
    reply,      \* what checkDigit of the webapp got for each request
    answer,     \* what the browser got for each request
    converters, \* replicas whose pngconverter runs
    missed,     \* history: pictures that met no converter, or one that died
    webKills, stops

pipelineVars == <<stage, webapp, at, job, image, reply, answer, converters,
                  missed, webKills, stops>>
vars == <<startupVars, pipelineVars>>

Stages == {"new", "queued", "posting", "waiting", "answered"}

PipelineTypeOK ==
    /\ TypeOK
    /\ stage \in [Requests -> Stages]
    /\ webapp \in Requests \cup {None}
    /\ at \in [Requests -> Replicas \cup {None}]
    /\ job \in [Replicas -> Requests \cup {None}]
    /\ image \in [Requests -> Kinds \cup {"empty", None}]
    /\ reply \in [Requests -> Replies \cup {None}]
    /\ answer \in [Requests -> Replies \cup {"reset", None}]
    /\ converters \in SUBSET Replicas
    /\ missed \in SUBSET Requests
    /\ webKills \in 0..MaxWebKills
    /\ stops \in 0..MaxStops

(* The two containers of a pod start in no order, and only the checker is   *)
(* probed: a converter may come up at any time, or never.                  *)
PipelineInit ==
    /\ Init
    /\ stage = [q \in Requests |-> "new"]
    /\ webapp = None
    /\ at = [q \in Requests |-> None]
    /\ job = [r \in Replicas |-> None]
    /\ image = [q \in Requests |-> None]
    /\ reply = [q \in Requests |-> None]
    /\ answer = [q \in Requests |-> None]
    /\ converters = {}
    /\ missed = {}
    /\ webKills = 0
    /\ stops = 0

Backlog(r) == {q \in Requests : stage[q] = "waiting" /\ at[q] = r
                                 /\ reply[q] = None /\ job[r] # q}

-----------------------------------------------------------------------------
(* The webapp.                                                             *)

(* The page posts a drawing; its connection waits to be accepted.          *)
Submit(q) ==
    /\ stage[q] = "new"
    /\ stage' = [stage EXCEPT ![q] = "queued"]
    /\ UNCHANGED <<startupVars, webapp, at, job, image, reply, answer, converters,
                   missed, webKills, stops>>

(* Mutant: a threading server accepts connections side by side.            *)
AcceptAnytime(q) ==
    /\ stage[q] = "queued"
    /\ webapp' = q
    /\ stage' = [stage EXCEPT ![q] = "posting"]
    /\ UNCHANGED <<startupVars, at, job, image, reply, answer, converters,
                   missed, webKills, stops>>

(* The serial server takes one connection, answers 200 and reads the image.*)
Accept(q) ==
    /\ webapp = None
    /\ stage[q] = "queued"
    /\ webapp' = q
    /\ stage' = [stage EXCEPT ![q] = "posting"]
    /\ UNCHANGED <<startupVars, at, job, image, reply, answer, converters,
                   missed, webKills, stops>>

(* requests.post reaches an endpoint of checker-service ...                *)
Post(q, r) ==
    /\ webapp = q /\ stage[q] = "posting"
    /\ r \in ready
    /\ stage' = [stage EXCEPT ![q] = "waiting"]
    /\ at' = [at EXCEPT ![q] = r]
    /\ UNCHANGED <<startupVars, webapp, job, image, reply, answer, converters,
                   missed, webKills, stops>>

(* No endpoint, or one that died and has not left the service yet.         *)
Unreachable == ready = {} \/ (kills > 0 /\ \E r \in Replicas : pc[r] # "serve")

(* ... or is refused (ConnectionError).                                    *)
PostRefused(q) ==
    /\ webapp = q /\ stage[q] = "posting"
    /\ Unreachable
    /\ stage' = [stage EXCEPT ![q] = "waiting"]
    /\ reply' = [reply EXCEPT ![q] = "not ready"]
    /\ UNCHANGED <<startupVars, webapp, at, job, image, answer, converters,
                   missed, webKills, stops>>

(* The text of the reply, whatever it is, is written to the browser.       *)
Respond(q) ==
    /\ webapp = q /\ reply[q] # None
    /\ answer' = [answer EXCEPT ![q] = reply[q]]
    /\ stage' = [stage EXCEPT ![q] = "answered"]
    /\ webapp' = None
    /\ UNCHANGED <<startupVars, at, job, image, reply, converters, missed,
                   webKills, stops>>

(* The webapp dies and is restarted: the connections it holds are reset; a *)
(* checker goes on with the request it has.                                *)
KillWebapp ==
    /\ webKills < MaxWebKills
    /\ webKills' = webKills + 1
    /\ LET held == {q \in Requests : stage[q] \in {"queued", "posting", "waiting"}}
       IN  /\ answer' = [q \in Requests |-> IF q \in held THEN "reset" ELSE answer[q]]
           /\ stage' = [q \in Requests |-> IF q \in held THEN "answered" ELSE stage[q]]
    /\ webapp' = None
    /\ UNCHANGED <<startupVars, at, job, image, reply, converters, missed, stops>>

-----------------------------------------------------------------------------
(* The checkers.                                                           *)

(* A checker takes a connection and sends its 200 header.                  *)
Take(r, q) ==
    /\ pc[r] = "serve" /\ job[r] = None
    /\ q \in Backlog(r)
    /\ job' = [job EXCEPT ![r] = q]
    /\ UNCHANGED <<startupVars, stage, webapp, at, image, reply, answer, converters,
                   missed, webKills, stops>>

(* A picture that met no converter, or one that died over it.              *)
Miss(r) == missed' = missed \cup {q \in {job[r]} : Kind[q] # "notpng"}

(* Mutant: the converter makes the picture grey but does not resize it.    *)
ConvertKeepsSize(r) ==
    /\ job[r] # None /\ image[job[r]] = None
    /\ image' = [image EXCEPT ![job[r]] =
                   IF r \in converters /\ Kind[job[r]] = "notpng" THEN "empty"
                   ELSE Kind[job[r]]]
    /\ IF r \in converters THEN UNCHANGED missed ELSE Miss(r)
    /\ UNCHANGED <<startupVars, stage, webapp, at, job, reply, answer, converters,
                   webKills, stops>>

ConvertWaits(r) ==            \* mutant: the request waits for a converter to run
    /\ r \in converters
    /\ ConvertKeepsSize(r)

(* pngToGreyscale28x28x8bit: a running converter answers with a 28x28 grey *)
(* PNG, or with an empty body if it cannot read the image; without one,    *)
(* not up yet or stopped, the original image is used.                      *)
Convert(r) ==
    /\ job[r] # None /\ image[job[r]] = None
    /\ \/ /\ r \in converters
          /\ image' = [image EXCEPT ![job[r]] =
                         IF Kind[job[r]] = "notpng" THEN "empty" ELSE "gray28"]
          /\ UNCHANGED missed
       \/ /\ r \notin converters
          /\ image' = [image EXCEPT ![job[r]] = Kind[job[r]]]
          /\ Miss(r)
    /\ UNCHANGED <<startupVars, stage, webapp, at, job, reply, answer, converters,
                   webKills, stops>>

(* Mutant: the digit is not wrapped into the JSON object.                  *)
TextsBare(q) == IF image[q] = "gray28" /\ Loadable THEN {"7"} ELSE {""}

(* The network takes 28x28 grey images only, and the model is loaded for   *)
(* every request; anything else raises an exception and leaves the body    *)
(* empty.                                                                  *)
Texts(q) == IF image[q] = "gray28" /\ Loadable THEN {"json"} ELSE {""}

(* The text goes to whoever waits for it; a webapp that was restarted      *)
(* meanwhile does not.                                                     *)
Recognise(r) ==
    LET q == job[r] IN
    /\ q # None /\ image[q] # None
    /\ \E text \in Texts(q) :
          reply' = IF stage[q] = "waiting" THEN [reply EXCEPT ![q] = text] ELSE reply
    /\ job' = [job EXCEPT ![r] = None]
    /\ UNCHANGED <<startupVars, stage, webapp, at, image, answer, converters,
                   missed, webKills, stops>>

(* A converter that dies over an image has sent its 200 header: the body   *)
(* stays empty, and no exception tells the checker.                        *)
StopConverter(r) ==
    /\ stops < MaxStops /\ r \in converters
    /\ stops' = stops + 1
    /\ converters' = converters \ {r}
    /\ \/ UNCHANGED <<image, missed>>
       \/ /\ job[r] # None /\ image[job[r]] = None
          /\ image' = [image EXCEPT ![job[r]] = "empty"]
          /\ Miss(r)
    /\ UNCHANGED <<startupVars, stage, webapp, at, job, reply, answer, webKills>>

StartConverter(r) ==
    /\ r \notin converters
    /\ converters' = converters \cup {r}
    /\ UNCHANGED <<startupVars, stage, webapp, at, job, image, reply, answer,
                   missed, webKills, stops>>

-----------------------------------------------------------------------------
(* The steps of ModelStartup, with the requests a replica has.             *)

StartUp(r) ==
    /\ Boot(r) \/ Train(r) \/ Save(r)
    /\ UNCHANGED pipelineVars

(* The serial server answers a probe only between two requests; a request  *)
(* that outlasts the probes takes the replica out of the service.          *)
Probe(r) ==
    /\ \/ job[r] = None /\ ProbeOK(r)
       \/ /\ job[r] # None /\ r \in ready
          /\ ready' = ready \ {r}
          /\ UNCHANGED <<disk, pc, kills, torn>>
    /\ UNCHANGED pipelineVars

(* What the webapp gets from a replica that dies: a request it had taken   *)
(* has its 200 header already, so the body is empty or breaks off; one in  *)
(* its backlog is a ConnectionError.                                       *)
LastWords(r, q) == IF job[r] = q THEN {"", "POST exception"} ELSE {"not ready"}
CutOff(r)       == Backlog(r) \cup {q \in Requests : q = job[r] /\ stage[q] = "waiting"}

KillCheckerSilent(r) ==       \* mutant: the connections are not reset
    /\ Kill(r)
    /\ job' = [job EXCEPT ![r] = None]
    /\ UNCHANGED <<stage, webapp, at, image, reply, answer, converters, missed,
                   webKills, stops>>

KillChecker(r) ==
    /\ Kill(r)
    /\ \E words \in [CutOff(r) -> Replies] :
          /\ \A q \in CutOff(r) : words[q] \in LastWords(r, q)
          /\ reply' = [q \in Requests |-> IF q \in CutOff(r) THEN words[q] ELSE reply[q]]
    /\ job' = [job EXCEPT ![r] = None]
    /\ UNCHANGED <<stage, webapp, at, image, answer, converters, missed, webKills,
                   stops>>

-----------------------------------------------------------------------------
WebappStep(q)  == Accept(q) \/ (\E r \in Replicas : Post(q, r)) \/ PostRefused(q)
                      \/ Respond(q)
CheckerStep(r) == (\E q \in Requests : Take(r, q)) \/ Convert(r) \/ Recognise(r)

AllAnswered == \A q \in Requests : stage[q] = "answered"

PipelineNext ==
    \/ \E q \in Requests : Submit(q) \/ WebappStep(q)
    \/ \E r \in Replicas : \/ CheckerStep(r) \/ StartUp(r) \/ Probe(r)
                           \/ KillChecker(r) \/ StopConverter(r) \/ StartConverter(r)
    \/ KillWebapp
    \/ AllAnswered /\ UNCHANGED vars

(* The processes that run keep running, one thread each, and containers    *)
(* are restarted; that a drawing is posted, or anything is killed, is not  *)
(* assumed.                                                                *)
PipelineSpec ==
    /\ PipelineInit /\ [][PipelineNext]_vars
    /\ WF_vars(\E q \in Requests : WebappStep(q))
    /\ \A r \in Replicas : /\ WF_vars(CheckerStep(r) \/ StartUp(r))
                           /\ WF_vars(job[r] = None /\ Probe(r))

-----------------------------------------------------------------------------
(* The request the webapp waits for is always somewhere it can come back   *)
(* from: it has its reply, or a serving replica has it, in hand or in the  *)
(* backlog.  (requests.post has no timeout: a request that got lost would  *)
(* stop the webapp for good.)                                              *)
NeverWaitsInVain ==
    \A q \in Requests :
        stage[q] = "waiting" /\ reply[q] = None
            => /\ webapp = q
               /\ pc[at[q]] = "serve"
               /\ q \in Backlog(at[q]) \/ job[at[q]] = q

(* An empty reply has a cause in the request's own history: it carried no  *)
(* picture; its image met no converter (not up yet, or stopped) and did    *)
(* not fit as it was, or a converter that died over it; there is no model  *)
(* now; or the replica that had it dies in this step.  That some other     *)
(* request met a stopped converter or a dying replica is no cause.         *)
Unfit(q)      == q \in missed /\ image[q] # "gray28"
DiesOver(r,q) == job[r] = q /\ kills' = kills + 1 /\ pc'[r] = "boot"
EmptyReplyStep ==
    \A q \in Requests : reply[q] = None /\ reply'[q] = "" =>
        \/ Kind[q] = "notpng"
        \/ Unfit(q)
        \/ ~Loadable
        \/ \E r \in Replicas : DiesOver(r, q)
EmptyReplyHasCause == [][EmptyReplyStep]_vars

(* The texts a request may be answered with: a digit only for a picture.   *)
PossibleReplies == [q \in Requests |->
    IF Kind[q] = "notpng" THEN Replies \ {"json"} ELSE Replies]

(* Seen from the page, the three servers are one serial server: no request *)
(* overtakes the one in hand, none is answered twice or with what was      *)
(* meant for another, whichever replicas, converters and webapps die.      *)
Server == INSTANCE SerialServer WITH
    Possible <- PossibleReplies,
    Reset    <- "reset",
    NoAnswer <- None,
    stage    <- [q \in Requests |-> IF stage[q] \in {"posting", "waiting"}
                                    THEN "handled" ELSE stage[q]]
ServerSpec == Server!Spec

(* Every drawing posted is answered in the end, if only by an error.       *)
EveryDrawingAnswered ==
    \A q \in Requests : stage[q] = "queued" ~> stage[q] = "answered"

(* digitcheckerapi.py:5 'result as JSON: { "value" : "?" }': what the      *)
(* webapp passes on is never an empty text.                                *)
ResultIsJSON == \A q \in Requests : reply[q] # ""
=============================================================================
