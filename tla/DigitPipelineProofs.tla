------------------------- MODULE DigitPipelineProofs -------------------------
(***************************************************************************)
(* For any number of requests, replicas, kills and stops: the type         *)
(* invariant, that the webapp never waits in vain, where empty replies     *)
(* come from, and that the three servers together are one serial server.   *)
(***************************************************************************)
EXTENDS DigitPipeline, ModelStartupProofs

(* Beside the steps of ModelStartup a busy replica may fail its probe.     *)
LeavesService(r) == ready' = ready \ {r} /\ UNCHANGED <<disk, pc, kills, torn>>

LEMMA StartupSteps ==
    ASSUME [PipelineNext]_vars
    PROVE  [Next]_startupVars \/ \E r \in Replicas : LeavesService(r)
<1>1. ASSUME NEW q \in Requests, Submit(q) \/ WebappStep(q)
      PROVE  UNCHANGED startupVars
    BY <1>1 DEF Submit, WebappStep, Accept, Post, PostRefused, Respond
<1>2. ASSUME NEW r \in Replicas, CheckerStep(r) PROVE UNCHANGED startupVars
    BY <1>2 DEF CheckerStep, Take, Convert, Recognise
<1>3. ASSUME NEW r \in Replicas, StartUp(r) PROVE Next
    BY <1>3 DEF StartUp, Next, Progress
<1>4. ASSUME NEW r \in Replicas, Probe(r) PROVE Next \/ LeavesService(r)
    BY <1>4 DEF Probe, Next, Progress, LeavesService
<1>5. ASSUME NEW r \in Replicas, KillChecker(r) PROVE Next
    BY <1>5 DEF KillChecker, Next
<1>6. ASSUME NEW r \in Replicas, StopConverter(r) \/ StartConverter(r)
      PROVE  UNCHANGED startupVars
    BY <1>6 DEF StopConverter, StartConverter
<1>7. ASSUME KillWebapp PROVE UNCHANGED startupVars
    BY <1>7 DEF KillWebapp
<1>8. CASE UNCHANGED vars
    BY <1>8 DEF vars
<1>9. QED BY <1>1, <1>2, <1>3, <1>4, <1>5, <1>6, <1>7, <1>8 DEF PipelineNext

LEMMA StartupTypes == TypeOK /\ [PipelineNext]_vars => TypeOK'
<1> SUFFICES ASSUME TypeOK, [PipelineNext]_vars PROVE TypeOK'
    OBVIOUS
<1>1. CASE [Next]_startupVars
    BY <1>1, TypeNext
<1>2. ASSUME NEW r \in Replicas, LeavesService(r) PROVE TypeOK'
    BY <1>2 DEF LeavesService, TypeOK
<1>3. QED BY <1>1, <1>2, StartupSteps

-----------------------------------------------------------------------------
(* A bounded counter that is below its bound stays in its range.           *)
LEMMA CountUp == ASSUME NEW m \in Nat, NEW n \in 0..m, n < m PROVE n + 1 \in 0..m
  OBVIOUS

LEMMA PipelineTypeNext ==
    ASSUME PipelineTypeOK, [PipelineNext]_vars
    PROVE  PipelineTypeOK'
<1>0. TypeOK'
    BY StartupTypes DEF PipelineTypeOK
<1> USE PipelineBounds, RequestsAssumption DEF PipelineTypeOK, Stages, Kinds, Replies
<1>1. ASSUME NEW q \in Requests, Submit(q) PROVE PipelineTypeOK'
    BY <1>0, <1>1 DEF Submit
<1>2. ASSUME NEW q \in Requests, Accept(q) PROVE PipelineTypeOK'
    BY <1>0, <1>2 DEF Accept
<1>3. ASSUME NEW q \in Requests, NEW r \in Replicas, Post(q, r) PROVE PipelineTypeOK'
    BY <1>0, <1>3 DEF Post
<1>4. ASSUME NEW q \in Requests, PostRefused(q) PROVE PipelineTypeOK'
    BY <1>0, <1>4 DEF PostRefused
<1>5. ASSUME NEW q \in Requests, Respond(q) PROVE PipelineTypeOK'
    BY <1>0, <1>5 DEF Respond
<1>6. ASSUME KillWebapp PROVE PipelineTypeOK'
    <2>1. /\ stage' \in [Requests -> Stages]
          /\ answer' \in [Requests -> Replies \cup {"reset", None}]
        BY <1>6 DEF KillWebapp
    <2>2. webKills' \in 0..MaxWebKills
        BY <1>6, CountUp DEF KillWebapp
    <2>3. webapp' \in Requests \cup {None}
        BY <1>6 DEF KillWebapp
    <2>4. UNCHANGED <<at, job, image, reply, converters, missed, stops>>
        BY <1>6 DEF KillWebapp
    <2>5. QED BY <1>0, <2>1, <2>2, <2>3, <2>4
<1>7. ASSUME NEW r \in Replicas, NEW q \in Requests, Take(r, q) PROVE PipelineTypeOK'
    BY <1>0, <1>7 DEF Take
<1>8. ASSUME NEW r \in Replicas, Convert(r) PROVE PipelineTypeOK'
    <2>1. missed' \in SUBSET Requests
        BY <1>8 DEF Convert, Miss
    <2>2. image' \in [Requests -> Kinds \cup {"empty", None}]
        BY <1>8 DEF Convert
    <2>3. QED BY <1>0, <1>8, <2>1, <2>2 DEF Convert
<1>9. ASSUME NEW r \in Replicas, Recognise(r) PROVE PipelineTypeOK'
    BY <1>0, <1>9 DEF Recognise, Texts
<1>10. ASSUME NEW r \in Replicas, StartUp(r) \/ Probe(r) PROVE PipelineTypeOK'
    BY <1>0, <1>10 DEF StartUp, Probe, pipelineVars
<1>11. ASSUME NEW r \in Replicas, KillChecker(r) PROVE PipelineTypeOK'
    <2>1. PICK words \in [CutOff(r) -> Replies] :
             reply' = [q \in Requests |-> IF q \in CutOff(r) THEN words[q] ELSE reply[q]]
        BY <1>11 DEF KillChecker
    <2>2. reply' \in [Requests -> Replies \cup {None}]
        BY <2>1
    <2>3. QED BY <1>0, <1>11, <2>2 DEF KillChecker
<1>12. ASSUME NEW r \in Replicas, StopConverter(r) PROVE PipelineTypeOK'
    <2>1. stops' \in 0..MaxStops
        BY <1>12, CountUp DEF StopConverter
    <2>2. image' \in [Requests -> Kinds \cup {"empty", None}]
        BY <1>12 DEF StopConverter
    <2>3. converters' \in SUBSET Replicas
        BY <1>12 DEF StopConverter
    <2>4. missed' \in SUBSET Requests
        BY <1>12 DEF StopConverter, Miss
    <2>5. QED BY <1>0, <1>12, <2>1, <2>2, <2>3, <2>4 DEF StopConverter
<1>13. ASSUME NEW r \in Replicas, StartConverter(r) PROVE PipelineTypeOK'
    BY <1>0, <1>13 DEF StartConverter
<1>14. CASE UNCHANGED vars
    BY <1>0, <1>14 DEF vars, pipelineVars
<1>15. QED
    BY <1>1, <1>2, <1>3, <1>4, <1>5, <1>6, <1>7, <1>8, <1>9, <1>10, <1>11, <1>12,
       <1>13, <1>14 DEF PipelineNext, WebappStep, CheckerStep

(* Every state has its type, for every value of the constants.             *)
THEOREM PipelineTypeCorrect == PipelineSpec => []PipelineTypeOK
<1>1. PipelineInit => PipelineTypeOK
    BY KillsAssumption, PipelineBounds DEF PipelineInit, Init, PipelineTypeOK, TypeOK,
       Parts, Stages
<1>2. QED BY <1>1, PipelineTypeNext, PTL DEF PipelineSpec

-----------------------------------------------------------------------------
(* The inductive invariant, beside the one of ModelStartup.  Replicas: one *)
(* with a request in hand serves.                                          *)
BusyServes == \A r \in Replicas : job[r] # None => pc[r] = "serve"

(* The webapp: the request in hand, and only that one, is being posted or  *)
(* waited for.                                                             *)
OneInHand == \A q \in Requests : stage[q] \in {"posting", "waiting"} <=> webapp = q

(* A request that was not posted yet is nowhere else.                      *)
NotPostedYet ==
    \A q \in Requests :
        stage[q] \in {"new", "queued", "posting"} => at[q] = None /\ reply[q] = None

(* What a replica has in hand was posted to it and has no reply yet.       *)
JobWasPosted ==
    \A r \in Replicas : job[r] # None => at[job[r]] = r /\ reply[job[r]] = None

(* What is waited for is with a replica that serves.                       *)
WaitsAtServer ==
    \A q \in Requests :
        stage[q] = "waiting" /\ reply[q] = None
            => at[q] \in Replicas /\ pc[at[q]] = "serve"

(* Only a picture is recognised.                                           *)
DigitNeedsPicture ==
    \A q \in Requests :
        Kind[q] = "notpng" => image[q] # "gray28" /\ reply[q] # "json"

(* A picture that a running converter has seen to the end is grey and      *)
(* small, and so is one that fitted as it was.                             *)
ImagesFit ==
    \A q \in Requests :
        Kind[q] # "notpng" /\ image[q] # None /\ q \notin missed => image[q] = "gray28"

PipelineInv ==
    /\ SaveInv /\ BusyServes /\ OneInHand /\ NotPostedYet /\ JobWasPosted
    /\ WaitsAtServer /\ DigitNeedsPicture /\ ImagesFit

LEMMA SaveInvSteps ==
    ASSUME TypeOK, SaveInv, [PipelineNext]_vars
    PROVE  SaveInv'
<1>1. CASE [Next]_startupVars
    BY <1>1, SaveInvNext
<1>2. ASSUME NEW r \in Replicas, LeavesService(r) PROVE SaveInv'
    BY <1>2 DEF LeavesService, SaveInv, WrittenBefore, BegunHasWriter, Loadable,
       Writers, EndpointsServe
<1>3. QED BY <1>1, <1>2, StartupSteps

LEMMA BusyServesNext ==
    ASSUME PipelineTypeOK, PipelineInv, [PipelineNext]_vars
    PROVE  BusyServes'
<1> USE NoneAssumption DEF PipelineTypeOK, TypeOK, Stages, PipelineInv,
        BusyServes
<1>1. ASSUME NEW q \in Requests, NEW r \in Replicas, Take(r, q) PROVE BusyServes'
    BY <1>1 DEF Take, Backlog, startupVars
<1>2. ASSUME NEW r \in Replicas, Recognise(r) PROVE BusyServes'
    BY <1>2 DEF Recognise, Texts, startupVars
<1>3. ASSUME NEW r \in Replicas, StartUp(r) PROVE BusyServes'
    BY <1>3 DEF StartUp, Boot, Train, Save, Saving, pipelineVars
<1>4. ASSUME NEW r \in Replicas, KillChecker(r) PROVE BusyServes'
    BY <1>4 DEF KillChecker, Kill
<1>5. ASSUME NEW q \in Requests, Submit(q) \/ Accept(q) \/ PostRefused(q) \/
         Respond(q)
      PROVE  BusyServes'
    BY <1>5 DEF Submit, Accept, PostRefused, Respond, startupVars
<1>6. ASSUME NEW q \in Requests, NEW r \in Replicas, Post(q, r)
      PROVE  BusyServes'
    BY <1>6 DEF Post, startupVars
<1>7. ASSUME NEW r \in Replicas, Convert(r) \/ Probe(r) \/ StopConverter(r) \/
         StartConverter(r)
      PROVE  BusyServes'
    BY <1>7 DEF Convert, Probe, ProbeOK, StopConverter, StartConverter,
       startupVars, pipelineVars
<1>8. ASSUME KillWebapp PROVE BusyServes'
    BY <1>8 DEF KillWebapp, startupVars
<1>9. CASE UNCHANGED vars
    BY <1>9 DEF vars, startupVars, pipelineVars
<1>10. QED
    BY <1>1, <1>2, <1>3, <1>4, <1>5, <1>6, <1>7, <1>8, <1>9 DEF PipelineNext,
       WebappStep, CheckerStep

LEMMA OneInHandNext ==
    ASSUME PipelineTypeOK, PipelineInv, [PipelineNext]_vars
    PROVE  OneInHand'
<1> USE NoneAssumption DEF PipelineTypeOK, Stages, PipelineInv, OneInHand
<1>1. ASSUME NEW q \in Requests, Submit(q) PROVE OneInHand'
    BY <1>1 DEF Submit
<1>2. ASSUME NEW q \in Requests, Accept(q) PROVE OneInHand'
    BY <1>2 DEF Accept
<1>3. ASSUME NEW q \in Requests, NEW r \in Replicas, Post(q, r) PROVE OneInHand'
    BY <1>3 DEF Post
<1>4. ASSUME NEW q \in Requests, PostRefused(q) PROVE OneInHand'
    BY <1>4 DEF PostRefused
<1>5. ASSUME NEW q \in Requests, Respond(q) PROVE OneInHand'
    BY <1>5 DEF Respond
<1>6. ASSUME KillWebapp PROVE OneInHand'
    BY <1>6 DEF KillWebapp
<1>7. ASSUME NEW q \in Requests, NEW r \in Replicas, Take(r, q)
      PROVE  OneInHand'
    BY <1>7 DEF Take
<1>8. ASSUME NEW r \in Replicas, Convert(r) \/ Recognise(r) \/ StartUp(r) \/
         Probe(r) \/ KillChecker(r) \/ StopConverter(r) \/ StartConverter(r)
      PROVE  OneInHand'
    BY <1>8 DEF Convert, Recognise, StartUp, Probe, KillChecker,
       StopConverter, StartConverter, pipelineVars
<1>9. CASE UNCHANGED vars
    BY <1>9 DEF vars, pipelineVars
<1>10. QED
    BY <1>1, <1>2, <1>3, <1>4, <1>5, <1>6, <1>7, <1>8, <1>9 DEF PipelineNext,
       WebappStep, CheckerStep

LEMMA NotPostedYetNext ==
    ASSUME PipelineTypeOK, PipelineInv, [PipelineNext]_vars
    PROVE  NotPostedYet'
<1> USE NoneAssumption DEF PipelineTypeOK, Stages, PipelineInv, NotPostedYet
<1>1. ASSUME NEW q \in Requests, Submit(q) PROVE NotPostedYet'
    BY <1>1 DEF Submit
<1>2. ASSUME NEW q \in Requests, Accept(q) PROVE NotPostedYet'
    BY <1>2 DEF Accept
<1>3. ASSUME NEW q \in Requests, NEW r \in Replicas, Post(q, r) PROVE NotPostedYet'
    BY <1>3 DEF Post
<1>4. ASSUME NEW q \in Requests, PostRefused(q) PROVE NotPostedYet'
    BY <1>4 DEF PostRefused
<1>5. ASSUME NEW q \in Requests, Respond(q) PROVE NotPostedYet'
    BY <1>5 DEF Respond
<1>6. ASSUME KillWebapp PROVE NotPostedYet'
    BY <1>6 DEF KillWebapp
<1>7. ASSUME NEW r \in Replicas, Recognise(r) PROVE NotPostedYet'
    BY <1>7 DEF Recognise, Texts
<1>8. ASSUME NEW r \in Replicas, KillChecker(r) PROVE NotPostedYet'
    <2>1. \A q \in Requests : stage[q] # "waiting" => reply'[q] = reply[q]
        BY <1>8 DEF KillChecker, CutOff, Backlog
    <2>2. QED BY <1>8, <2>1 DEF KillChecker
<1>9. ASSUME NEW q \in Requests, NEW r \in Replicas, Take(r, q)
      PROVE  NotPostedYet'
    BY <1>9 DEF Take
<1>10. ASSUME NEW r \in Replicas, Convert(r) \/ StartUp(r) \/ Probe(r) \/
         StopConverter(r) \/ StartConverter(r)
      PROVE  NotPostedYet'
    BY <1>10 DEF Convert, StartUp, Probe, StopConverter, StartConverter,
       pipelineVars
<1>11. CASE UNCHANGED vars
    BY <1>11 DEF vars, pipelineVars
<1>12. QED
    BY <1>1, <1>2, <1>3, <1>4, <1>5, <1>6, <1>7, <1>8, <1>9, <1>10, <1>11 DEF
       PipelineNext, WebappStep, CheckerStep

LEMMA JobWasPostedNext ==
    ASSUME PipelineTypeOK, PipelineInv, [PipelineNext]_vars
    PROVE  JobWasPosted'
<1> USE NoneAssumption DEF PipelineTypeOK, Stages, PipelineInv, JobWasPosted
<1>1. ASSUME NEW q \in Requests, NEW r \in Replicas, Post(q, r) PROVE JobWasPosted'
    <2>1. \A p \in Replicas : job[p] # q
        BY <1>1 DEF Post, NotPostedYet
    <2>2. QED BY <1>1, <2>1 DEF Post, startupVars
<1>2. ASSUME NEW q \in Requests, PostRefused(q) PROVE JobWasPosted'
    <2>1. at[q] = None
        BY <1>2 DEF PostRefused, NotPostedYet
    <2>2. \A p \in Replicas : job[p] # q
        BY <2>1
    <2>3. \A p \in Requests : p # q => reply'[p] = reply[p]
        BY <1>2 DEF PostRefused
    <2>4. UNCHANGED <<at, job>>
        BY <1>2 DEF PostRefused
    <2>5. QED BY <2>2, <2>3, <2>4
<1>3. ASSUME NEW q \in Requests, NEW r \in Replicas, Take(r, q) PROVE JobWasPosted'
    BY <1>3 DEF Take, Backlog
<1>4. ASSUME NEW r \in Replicas, Recognise(r) PROVE JobWasPosted'
    <2>1. \A p \in Replicas : job'[p] # None => job'[p] = job[p] /\ p # r
        BY <1>4 DEF Recognise
    <2>2. \A p \in Replicas : job'[p] # None => job[p] # job[r]
        BY <2>1
    <2>3. \A q \in Requests : q # job[r] => reply'[q] = reply[q]
        BY <1>4 DEF Recognise
    <2>4. UNCHANGED at
        BY <1>4 DEF Recognise
    <2>5. QED BY <2>1, <2>2, <2>3, <2>4
<1>5. ASSUME NEW r \in Replicas, KillChecker(r) PROVE JobWasPosted'
    <2>1. \A p \in Replicas : job'[p] # None => job'[p] = job[p] /\ p # r
        BY <1>5 DEF KillChecker
    <2>2. \A q \in Requests : at[q] # r => reply'[q] = reply[q]
        BY <1>5 DEF KillChecker, CutOff, Backlog
    <2>3. UNCHANGED at
        BY <1>5 DEF KillChecker
    <2>4. QED BY <2>1, <2>2, <2>3
<1>6. ASSUME NEW q \in Requests, Submit(q) \/ Accept(q) \/ Respond(q)
      PROVE  JobWasPosted'
    BY <1>6 DEF Submit, Accept, Respond
<1>7. ASSUME NEW r \in Replicas, Convert(r) \/ StartUp(r) \/ Probe(r) \/
         StopConverter(r) \/ StartConverter(r)
      PROVE  JobWasPosted'
    BY <1>7 DEF Convert, StartUp, Probe, StopConverter, StartConverter,
       pipelineVars
<1>8. ASSUME KillWebapp PROVE JobWasPosted'
    BY <1>8 DEF KillWebapp
<1>9. CASE UNCHANGED vars
    BY <1>9 DEF vars, pipelineVars
<1>10. QED
    BY <1>1, <1>2, <1>3, <1>4, <1>5, <1>6, <1>7, <1>8, <1>9 DEF PipelineNext,
       WebappStep, CheckerStep

LEMMA WaitsAtServerNext ==
    ASSUME PipelineTypeOK, PipelineInv, [PipelineNext]_vars
    PROVE  WaitsAtServer'
<1> USE NoneAssumption DEF PipelineTypeOK, TypeOK, Stages, PipelineInv,
        WaitsAtServer, SaveInv, EndpointsServe, Replies
<1>1. ASSUME NEW q \in Requests, Submit(q) PROVE WaitsAtServer'
    BY <1>1 DEF Submit, startupVars
<1>2. ASSUME NEW q \in Requests, Accept(q) PROVE WaitsAtServer'
    BY <1>2 DEF Accept, startupVars
<1>3. ASSUME NEW q \in Requests, NEW r \in Replicas, Post(q, r) PROVE WaitsAtServer'
    BY <1>3 DEF Post, startupVars
<1>4. ASSUME NEW q \in Requests, PostRefused(q) PROVE WaitsAtServer'
    BY <1>4 DEF PostRefused, startupVars
<1>5. ASSUME NEW q \in Requests, Respond(q) PROVE WaitsAtServer'
    BY <1>5 DEF Respond, startupVars
<1>6. ASSUME KillWebapp PROVE WaitsAtServer'
    BY <1>6 DEF KillWebapp, startupVars
<1>7. ASSUME NEW r \in Replicas, Recognise(r) PROVE WaitsAtServer'
    <2>1. PICK text \in Texts(job[r]) :
             reply' = IF stage[job[r]] = "waiting" THEN [reply EXCEPT ![job[r]] = text]
                      ELSE reply
        BY <1>7 DEF Recognise
    <2>2. text # None
        BY DEF Texts, Replies
    <2>3. \A q \in Requests : reply'[q] = None => reply[q] = None
        BY <1>7, <2>1, <2>2 DEF Recognise
    <2>4. QED BY <1>7, <2>3 DEF Recognise, startupVars
<1>8. ASSUME NEW r \in Replicas, StartUp(r) PROVE WaitsAtServer'
    <2>1. \A p \in Replicas : pc[p] = "serve" => pc'[p] = "serve"
        BY <1>8 DEF StartUp, Boot, Train, Save, Saving
    <2>2. QED BY <1>8, <2>1 DEF StartUp, pipelineVars
<1>9. ASSUME NEW r \in Replicas, KillChecker(r) PROVE WaitsAtServer'
    <2>1. \A q \in CutOff(r) : reply'[q] \in Replies
        BY <1>9 DEF KillChecker, CutOff, Backlog
    <2>2. \A q \in Requests : q \notin CutOff(r) => reply'[q] = reply[q]
        BY <1>9 DEF KillChecker
    <2>3. \A q \in Requests : stage[q] = "waiting" /\ reply'[q] = None => at[q] # r
        BY <2>1, <2>2 DEF CutOff, Backlog
    <2>4. \A p \in Replicas : p # r => pc'[p] = pc[p]
        BY <1>9 DEF KillChecker, Kill
    <2>5. UNCHANGED <<stage, at>> /\ \A q \in Requests : reply[q] # None => reply'[q] # None
        BY <1>9, <2>1, <2>2 DEF KillChecker
    <2>6. QED BY <2>3, <2>4, <2>5
<1>10. ASSUME NEW q \in Requests, NEW r \in Replicas, Take(r, q)
      PROVE  WaitsAtServer'
    BY <1>10 DEF Take, startupVars
<1>11. ASSUME NEW r \in Replicas, Convert(r) \/ Probe(r) \/ StopConverter(r) \/
         StartConverter(r)
      PROVE  WaitsAtServer'
    BY <1>11 DEF Convert, Probe, ProbeOK, StopConverter, StartConverter,
       startupVars, pipelineVars
<1>12. CASE UNCHANGED vars
    BY <1>12 DEF vars, startupVars, pipelineVars
<1>13. QED
    BY <1>1, <1>2, <1>3, <1>4, <1>5, <1>6, <1>7, <1>8, <1>9, <1>10, <1>11,
       <1>12 DEF PipelineNext, WebappStep, CheckerStep

LEMMA DigitNeedsPictureNext ==
    ASSUME PipelineTypeOK, PipelineInv, [PipelineNext]_vars
    PROVE  DigitNeedsPicture'
<1> USE NoneAssumption DEF PipelineTypeOK, Stages, PipelineInv,
        DigitNeedsPicture
<1>1. ASSUME NEW q \in Requests, PostRefused(q) PROVE DigitNeedsPicture'
    BY <1>1 DEF PostRefused
<1>2. ASSUME NEW r \in Replicas, Convert(r) PROVE DigitNeedsPicture'
    BY <1>2 DEF Convert
<1>3. ASSUME NEW r \in Replicas, Recognise(r) PROVE DigitNeedsPicture'
    BY <1>3 DEF Recognise, Texts
<1>4. ASSUME NEW r \in Replicas, KillChecker(r) PROVE DigitNeedsPicture'
    <2>1. PICK words \in [CutOff(r) -> Replies] :
             /\ \A q \in CutOff(r) : words[q] \in LastWords(r, q)
             /\ reply' = [q \in Requests |-> IF q \in CutOff(r) THEN words[q] ELSE reply[q]]
        BY <1>4 DEF KillChecker
    <2>2. \A q \in CutOff(r) : words[q] # "json"
        BY <2>1 DEF LastWords
    <2>3. \A q \in Requests : reply'[q] = "json" => reply[q] = "json"
        BY <2>1, <2>2
    <2>4. QED BY <1>4, <2>3 DEF KillChecker
<1>5. ASSUME NEW r \in Replicas, StopConverter(r) PROVE DigitNeedsPicture'
    BY <1>5 DEF StopConverter
<1>6. ASSUME NEW q \in Requests, Submit(q) \/ Accept(q) \/ Respond(q)
      PROVE  DigitNeedsPicture'
    BY <1>6 DEF Submit, Accept, Respond
<1>7. ASSUME NEW q \in Requests, NEW r \in Replicas, Post(q, r) \/ Take(r, q)
      PROVE  DigitNeedsPicture'
    BY <1>7 DEF Post, Take
<1>8. ASSUME NEW r \in Replicas, StartUp(r) \/ Probe(r) \/ StartConverter(r)
      PROVE  DigitNeedsPicture'
    BY <1>8 DEF StartUp, Probe, StartConverter, pipelineVars
<1>9. ASSUME KillWebapp PROVE DigitNeedsPicture'
    BY <1>9 DEF KillWebapp
<1>10. CASE UNCHANGED vars
    BY <1>10 DEF vars, pipelineVars
<1>11. QED
    BY <1>1, <1>2, <1>3, <1>4, <1>5, <1>6, <1>7, <1>8, <1>9, <1>10 DEF
       PipelineNext, WebappStep, CheckerStep

LEMMA ImagesFitNext ==
    ASSUME PipelineTypeOK, PipelineInv, [PipelineNext]_vars
    PROVE  ImagesFit'
<1> USE NoneAssumption DEF PipelineTypeOK, Stages, PipelineInv, ImagesFit, Kinds
<1>1. ASSUME NEW r \in Replicas, Convert(r) PROVE ImagesFit'
    BY <1>1 DEF Convert, Miss
<1>2. ASSUME NEW r \in Replicas, StopConverter(r) PROVE ImagesFit'
    BY <1>2 DEF StopConverter, Miss
<1>3. ASSUME NEW r \in Replicas, StartConverter(r) PROVE ImagesFit'
    BY <1>3 DEF StartConverter
<1>4. ASSUME NEW q \in Requests, Submit(q) \/ Accept(q) \/ PostRefused(q) \/
         Respond(q)
      PROVE  ImagesFit'
    BY <1>4 DEF Submit, Accept, PostRefused, Respond
<1>5. ASSUME NEW q \in Requests, NEW r \in Replicas, Post(q, r) \/ Take(r, q)
      PROVE  ImagesFit'
    BY <1>5 DEF Post, Take
<1>6. ASSUME NEW r \in Replicas, Recognise(r) \/ StartUp(r) \/ Probe(r) \/
         KillChecker(r)
      PROVE  ImagesFit'
    BY <1>6 DEF Recognise, StartUp, Probe, KillChecker, pipelineVars
<1>7. ASSUME KillWebapp PROVE ImagesFit'
    BY <1>7 DEF KillWebapp
<1>8. CASE UNCHANGED vars
    BY <1>8 DEF vars, pipelineVars
<1>9. QED
    BY <1>1, <1>2, <1>3, <1>4, <1>5, <1>6, <1>7, <1>8 DEF PipelineNext,
       WebappStep, CheckerStep

LEMMA PipelineInvariant == PipelineSpec => [](PipelineTypeOK /\ PipelineInv)
<1>1. PipelineInit => PipelineInv
    <2> SUFFICES ASSUME PipelineInit PROVE PipelineInv
        OBVIOUS
    <2>1. SaveInv
        BY DEF PipelineInit, Init, SaveInv, WrittenBefore, BegunHasWriter, Loadable, Parts, EndpointsServe
    <2>2. BusyServes /\ OneInHand /\ NotPostedYet /\ JobWasPosted
        BY NoneAssumption DEF PipelineInit, BusyServes, OneInHand, NotPostedYet,
           JobWasPosted
    <2>3. WaitsAtServer
        BY NoneAssumption DEF PipelineInit, WaitsAtServer
    <2>4. DigitNeedsPicture
        BY NoneAssumption DEF PipelineInit, DigitNeedsPicture, Replies, Kinds
    <2>5. ImagesFit
        BY DEF PipelineInit, ImagesFit
    <2>6. QED BY <2>1, <2>2, <2>3, <2>4, <2>5 DEF PipelineInv
<1>2. PipelineTypeOK /\ PipelineInv /\ [PipelineNext]_vars => PipelineInv'
    BY SaveInvSteps, BusyServesNext, OneInHandNext, NotPostedYetNext,
       JobWasPostedNext, WaitsAtServerNext, DigitNeedsPictureNext,
       ImagesFitNext DEF PipelineInv, PipelineTypeOK
<1>3. QED BY <1>1, <1>2, PipelineTypeCorrect, PTL DEF PipelineSpec

-----------------------------------------------------------------------------
(* The request the webapp waits for (requests.post without a timeout) can  *)
(* always come back: it has its reply, or a replica that serves has it.    *)
THEOREM NeverInVain == PipelineSpec => []NeverWaitsInVain
<1>1. PipelineTypeOK /\ PipelineInv => NeverWaitsInVain
    BY DEF PipelineTypeOK, PipelineInv, OneInHand, WaitsAtServer, NeverWaitsInVain,
       Backlog
<1>2. QED BY <1>1, PipelineInvariant, PTL

(* What ModelStartup promises of its replicas holds for replicas that have *)
(* requests to answer, and that probes take out of the service, as well.   *)
THEOREM OnlySaveWindowWithRequests == PipelineSpec => []OnlyTheSaveWindow
<1>1. PipelineInv => OnlyTheSaveWindow
    BY DEF PipelineInv, SaveInv, WrittenBefore, BegunHasWriter, OnlyTheSaveWindow
<1>2. QED BY <1>1, PipelineInvariant, PTL

-----------------------------------------------------------------------------
(* The replica that a kill takes the request from dies over it.            *)
LEMMA KillCutsOff ==
    ASSUME PipelineTypeOK, NEW r \in Replicas, KillChecker(r), NEW q \in Requests,
           reply[q] = None, reply'[q] = ""
    PROVE  DiesOver(r, q)
<1>1. PICK words \in [CutOff(r) -> Replies] :
         /\ \A p \in CutOff(r) : words[p] \in LastWords(r, p)
         /\ reply' = [p \in Requests |-> IF p \in CutOff(r) THEN words[p] ELSE reply[p]]
    BY DEF KillChecker
<1>2. q \in CutOff(r) /\ "" \in LastWords(r, q)
    BY <1>1, NoneAssumption DEF Replies
<1>3. job[r] = q
    BY <1>2 DEF LastWords
<1>4. kills' = kills + 1 /\ pc'[r] = "boot"
    BY DEF KillChecker, Kill, PipelineTypeOK, TypeOK
<1>5. QED BY <1>3, <1>4 DEF DiesOver

LEMMA EmptyReplies ==
    ASSUME PipelineTypeOK, PipelineInv, [PipelineNext]_vars
    PROVE  EmptyReplyStep
<1> USE NoneAssumption DEF EmptyReplyStep, Replies
<1>1. CASE UNCHANGED reply
    BY <1>1
<1>2. ASSUME NEW q \in Requests, PostRefused(q) PROVE EmptyReplyStep
    BY <1>2 DEF PostRefused, PipelineTypeOK
<1>3. ASSUME NEW r \in Replicas, Recognise(r) PROVE EmptyReplyStep
    <2>1. SUFFICES ASSUME NEW q \in Requests, reply[q] = None, reply'[q] = "",
                          Kind[q] # "notpng", ~Unfit(q), Loadable
                   PROVE  FALSE
        OBVIOUS
    <2>2. PICK text \in Texts(job[r]) :
             reply' = IF stage[job[r]] = "waiting" THEN [reply EXCEPT ![job[r]] = text]
                      ELSE reply
        BY <1>3 DEF Recognise
    <2>3. q = job[r] /\ text = ""
        BY <2>1, <2>2 DEF PipelineTypeOK
    <2>4. image[job[r]] # None
        BY <1>3 DEF Recognise
    <2>5. image[q] = "gray28"
        BY <2>1, <2>3, <2>4 DEF PipelineInv, ImagesFit, Unfit
    <2>6. QED BY <2>1, <2>2, <2>3, <2>5 DEF Texts
<1>4. ASSUME NEW r \in Replicas, KillChecker(r) PROVE EmptyReplyStep
    BY <1>4, KillCutsOff
<1>5. QED
    BY <1>1, <1>2, <1>3, <1>4 DEF PipelineNext, WebappStep, CheckerStep, vars,
       pipelineVars, Submit, Accept, Post, Respond, KillWebapp, Take, Convert,
       StartUp, Probe, StopConverter, StartConverter

(* An empty reply has a cause of the request's own: it is no picture; its  *)
(* image, which did not fit, met no converter, or a converter died over    *)
(* it; there is no model now; or the replica that had it dies right now.   *)
THEOREM EmptyRepliesHaveCauses == PipelineSpec => EmptyReplyHasCause
  BY EmptyReplies, PipelineInvariant, PTL DEF PipelineSpec, EmptyReplyHasCause

-----------------------------------------------------------------------------
(* The refinement: how far each request is, seen from the page.            *)
ServerStage == [q \in Requests |-> IF stage[q] \in {"posting", "waiting"}
                                   THEN "handled" ELSE stage[q]]

LEMMA ServerInit == PipelineInit => Server!Init
  BY DEF PipelineInit, Server!Init

LEMMA ServerNext ==
    ASSUME PipelineTypeOK, PipelineInv, [PipelineNext]_vars
    PROVE  [Server!Next]_(Server!serverVars)
<1> USE NoneAssumption DEF PipelineTypeOK, Stages, Server!serverVars
<1>1. ASSUME NEW q \in Requests, Submit(q) PROVE Server!Arrive(q)
    BY <1>1 DEF Submit, Server!Arrive
<1>2. ASSUME NEW q \in Requests, Accept(q) PROVE Server!Begin(q)
    BY <1>2 DEF Accept, Server!Begin, PipelineInv, OneInHand
<1>3. ASSUME NEW q \in Requests,
             PostRefused(q) \/ \E r \in Replicas : Post(q, r)
      PROVE  UNCHANGED Server!serverVars
    BY <1>3 DEF Post, PostRefused
<1>4. ASSUME NEW q \in Requests, Respond(q) PROVE Server!Finish(q)
    <2>1. reply[q] \in PossibleReplies[q]
        BY <1>4 DEF Respond, PipelineInv, DigitNeedsPicture, PossibleReplies
    <2>2. stage[q] \in {"posting", "waiting"}
        BY <1>4 DEF Respond, PipelineInv, OneInHand
    <2>3. QED BY <1>4, <2>1, <2>2 DEF Respond, Server!Finish
<1>5. ASSUME KillWebapp PROVE Server!Restart
    BY <1>5 DEF KillWebapp, Server!Restart
<1>6. CASE UNCHANGED <<stage, answer>>
    BY <1>6
<1>7. QED
    BY <1>1, <1>2, <1>3, <1>4, <1>5, <1>6 DEF PipelineNext, WebappStep, CheckerStep,
       vars, pipelineVars, Take, Convert, Recognise, StartUp, Probe, KillChecker,
       StopConverter, StartConverter, Server!Next

(* Webapp, checkers and converters together are one serial web server that *)
(* is restarted at times: what the page sees of them is a run of it.       *)
THEOREM ImplementsServer == PipelineSpec => ServerSpec
  BY ServerInit, ServerNext, PipelineInvariant, PTL
     DEF PipelineSpec, ServerSpec, Server!Spec
=============================================================================
