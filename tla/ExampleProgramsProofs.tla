------------------------ MODULE ExampleProgramsProofs ------------------------
(***************************************************************************)
(* For any number of requests, users, sessions, faults and outages: the    *)
(* type invariant of the example programs, and the safety invariant of     *)
(* each of them.  One section per program, with the inductive invariant of *)
(* that program (BodyInv, FibbInv, KubeInv, S3Inv); the last section puts  *)
(* them together.                                                          *)
(***************************************************************************)
EXTENDS ExamplePrograms, FiniteSetTheorems, SequenceTheorems, WellFoundedInduction, TLAPS

-----------------------------------------------------------------------------
(* Counting.                                                               *)
LEMMA Fewer ==
    ASSUME NEW T, IsFiniteSet(T), NEW S, S \subseteq T
    PROVE  Cardinality(S) \in Nat /\ Cardinality(T) \in Nat
           /\ Cardinality(S) <= Cardinality(T)
  BY FS_Subset, FS_CardinalityType

LEMMA OneFewer ==
    ASSUME NEW T, IsFiniteSet(T), NEW x \in T, NEW S, S \subseteq T \ {x}
    PROVE  Cardinality(S) \in Nat /\ Cardinality(T) \in Nat
           /\ Cardinality(S) + 1 <= Cardinality(T)
<1>1. IsFiniteSet(T \ {x}) /\ Cardinality(T \ {x}) = Cardinality(T) - 1
    BY FS_RemoveElement
<1>2. QED BY <1>1, Fewer, FS_CardinalityType

LEMMA OneMore ==
    ASSUME NEW T, IsFiniteSet(T), NEW x, NEW S, S \subseteq T \cup {x}
    PROVE  Cardinality(S) \in Nat /\ Cardinality(T) \in Nat
           /\ Cardinality(S) <= Cardinality(T) + 1
<1>1. Cardinality(T) \in Nat
    BY FS_CardinalityType
<1>2. /\ IsFiniteSet(T \cup {x})
      /\ \/ Cardinality(T \cup {x}) = Cardinality(T)
         \/ Cardinality(T \cup {x}) = Cardinality(T) + 1
    BY FS_AddElement
<1>3. Cardinality(S) \in Nat /\ Cardinality(S) <= Cardinality(T \cup {x})
    BY <1>2, Fewer
<1>4. QED BY <1>1, <1>2, <1>3

-----------------------------------------------------------------------------
(* Body filter: the sum of the sizes told never falls short of the bytes   *)
(* that have arrived, and nothing is printed or passed on before a request *)
(* leaves.                                                                 *)
SumsSuffice ==
    \A q \in Requests : Receiving(q) => totalRequestBodySize[q] >= arrived[q]

NothingEarly ==
    \A q \in Requests :
        /\ stream[q] # "gone" => logged[q] = Nothing /\ passed[q] = 0
        /\ stream[q] = "new" => arrived[q] = 0 /\ totalRequestBodySize[q] = 0

AllOrNothing ==
    \A q \in Requests : /\ logged[q] \in {body[q], Nothing}
                        /\ passed[q] \in {body[q], 0}
                        /\ logged[q] # Nothing => passed[q] = body[q]

Unprinted(q) == /\ stream[q] = "gone" /\ logged[q] = Nothing
                /\ body[q] > 0 /\ trailers[q] = 0
UnprintedFew == Cardinality({q \in Requests : Unprinted(q)}) <= hostFaults

BodyInv == BodyTypeOK /\ SumsSuffice /\ NothingEarly /\ AllOrNothing /\ UnprintedFew

LEMMA BodyNumbers ==
    /\ MaxBody \in Nat /\ BufferLimit \in Nat /\ MaxHostFaults \in Nat
    /\ IsFiniteSet(Requests)
    /\ \A n \in Int : n # Nothing
  BY BodyAssumption

(* What the handler adds to the sum.                                       *)
Told(q, piece) == IF tells = "piece" THEN piece ELSE arrived[q] + piece

(* A piece is counted at least once.                                       *)
LEMMA ArrivesCounted ==
    ASSUME BodyTypeOK, NEW q \in Requests, NEW piece, BodyArrives(q, piece)
    PROVE  /\ piece \in Nat /\ Receiving(q) /\ Told(q, piece) \in Nat
           /\ arrived' = [arrived EXCEPT ![q] = arrived[q] + piece]
           /\ totalRequestBodySize' = [totalRequestBodySize EXCEPT
                 ![q] = totalRequestBodySize[q] + Told(q, piece)]
           /\ arrived[q] + piece \in 0..MaxBody /\ arrived[q] + piece <= body[q]
           /\ Told(q, piece) >= piece
           /\ totalRequestBodySize[q] + Told(q, piece) \in Nat
<1>1. arrived[q] \in 0..MaxBody /\ body[q] \in 0..MaxBody /\ MaxBody \in Nat
      /\ totalRequestBodySize[q] \in Nat
    BY BodyNumbers DEF BodyTypeOK
<1>2. piece \in 0..(body[q] - arrived[q])
    BY DEF BodyArrives
<1>3. piece \in Nat /\ arrived[q] + piece \in 0..MaxBody /\ arrived[q] + piece <= body[q]
    BY <1>1, <1>2
<1>4. Told(q, piece) \in Nat /\ Told(q, piece) >= piece
    BY <1>1, <1>3 DEF Told
<1>5. totalRequestBodySize[q] + Told(q, piece) \in Nat
    BY <1>1, <1>4
<1>6. QED
    BY <1>3, <1>4, <1>5 DEF BodyArrives, AddUp, Buffered, Told

(* The bytes asked for at the end are all of the body.                     *)
LEMMA WholeBodyRead ==
    ASSUME BodyTypeOK, SumsSuffice, NEW q \in Requests, EndOfStream(q)
    PROVE  LeastOf(totalRequestBodySize'[q], body[q]) = body[q]
<1> DEFINE piece == body[q] - arrived[q]
<1>1. BodyArrives(q, piece)
    BY DEF EndOfStream
<1>2. arrived[q] \in Nat /\ body[q] \in Nat /\ totalRequestBodySize[q] \in Nat
      /\ totalRequestBodySize \in [Requests -> Nat]
    BY BodyNumbers DEF BodyTypeOK
<1>3. totalRequestBodySize[q] >= arrived[q]
    BY <1>1 DEF SumsSuffice, BodyArrives
<1>4. totalRequestBodySize'[q] = totalRequestBodySize[q] + Told(q, piece)
      /\ Told(q, piece) \in Nat /\ Told(q, piece) >= piece
    BY <1>1, <1>2, ArrivesCounted
<1>5. totalRequestBodySize'[q] \in Nat /\ totalRequestBodySize'[q] >= body[q]
    BY <1>2, <1>3, <1>4
<1>6. QED BY <1>2, <1>5 DEF LeastOf

LEMMA BodyTypeNext ==
    ASSUME BodyTypeOK, SumsSuffice, BodyNext
    PROVE  BodyTypeOK'
<1>1. PICK q \in Requests : OnHttpRequestHeaders(q) \/ Arrives(q) \/ ClientLeaves(q)
    BY DEF BodyNext
<1>2. CASE OnHttpRequestHeaders(q)
    BY <1>2 DEF OnHttpRequestHeaders, BodyTypeOK
<1>3. ASSUME NEW piece, MoreToCome(q, piece) PROVE BodyTypeOK'
    <2>1. BodyArrives(q, piece)
        BY <1>3 DEF MoreToCome
    <2>2. arrived' \in [Requests -> 0..MaxBody]
          /\ totalRequestBodySize' \in [Requests -> Nat]
        BY <2>1, ArrivesCounted DEF BodyTypeOK
    <2>3. QED BY <1>3, <2>2 DEF MoreToCome, BodyTypeOK
<1>4. ASSUME EndOfStream(q)
      PROVE  /\ arrived' \in [Requests -> 0..MaxBody]
             /\ totalRequestBodySize' \in [Requests -> Nat]
             /\ passed' \in [Requests -> 0..MaxBody]
    <2>1. BodyArrives(q, body[q] - arrived[q])
        BY <1>4 DEF EndOfStream
    <2>2. arrived' \in [Requests -> 0..MaxBody]
          /\ totalRequestBodySize' \in [Requests -> Nat]
        BY <2>1, ArrivesCounted DEF BodyTypeOK
    <2>3. QED BY <1>4, <2>2 DEF EndOfStream, BodyTypeOK
<1>5. CASE BodyRead(q)
    <2>1. logged' = [logged EXCEPT ![q] = body[q]]
        BY <1>5, WholeBodyRead DEF BodyRead
    <2>2. QED BY <1>4, <1>5, <2>1 DEF BodyRead, EndOfStream, BodyTypeOK
<1>6. CASE BodyUnread(q)
    <2>1. hostFaults' \in 0..MaxHostFaults
        BY <1>6, BodyNumbers DEF BodyUnread, BodyTypeOK
    <2>2. QED BY <1>4, <1>6, <2>1 DEF BodyUnread, EndOfStream, BodyTypeOK
<1>7. CASE OnHttpRequestTrailers(q)
    BY <1>7 DEF OnHttpRequestTrailers, BodyTypeOK
<1>8. CASE Refuse(q)
    BY <1>8 DEF Refuse, BodyTypeOK
<1>9. QED
    BY <1>1, <1>2, <1>3, <1>5, <1>6, <1>7, <1>8 DEF Arrives, Overflows, ClientLeaves

LEMMA SumsNext ==
    ASSUME BodyTypeOK, SumsSuffice, NothingEarly, BodyNext
    PROVE  SumsSuffice'
<1>1. PICK q \in Requests : OnHttpRequestHeaders(q) \/ Arrives(q) \/ ClientLeaves(q)
    BY DEF BodyNext
<1>2. CASE OnHttpRequestHeaders(q)
    <2>1. arrived[q] = 0 /\ totalRequestBodySize[q] = 0
        BY <1>2 DEF OnHttpRequestHeaders, NothingEarly
    <2>2. QED
        BY <1>2, <2>1 DEF OnHttpRequestHeaders, BodyTypeOK, SumsSuffice, Receiving
<1>3. ASSUME NEW piece, MoreToCome(q, piece) PROVE SumsSuffice'
    <2>1. BodyArrives(q, piece)
        BY <1>3 DEF MoreToCome
    <2>2. totalRequestBodySize[q] >= arrived[q]
        BY <2>1 DEF BodyArrives, SumsSuffice
    <2>3. /\ arrived'[q] = arrived[q] + piece
          /\ totalRequestBodySize'[q] = totalRequestBodySize[q] + Told(q, piece)
          /\ Told(q, piece) \in Nat /\ piece \in Nat /\ Told(q, piece) >= piece
          /\ \A r \in Requests \ {q} : /\ arrived'[r] = arrived[r]
                                       /\ totalRequestBodySize'[r] = totalRequestBodySize[r]
        BY <2>1, ArrivesCounted DEF BodyTypeOK
    <2>4. arrived[q] \in Nat /\ totalRequestBodySize[q] \in Nat
        BY BodyNumbers DEF BodyTypeOK
    <2>5. totalRequestBodySize'[q] >= arrived'[q]
        BY <2>2, <2>3, <2>4
    <2>6. QED BY <1>3, <2>3, <2>5 DEF MoreToCome, SumsSuffice, Receiving, BodyTypeOK
<1>4. CASE BodyRead(q) \/ BodyUnread(q)
    <2>1. EndOfStream(q) /\ stream' = [stream EXCEPT ![q] = "gone"]
        BY <1>4 DEF BodyRead, BodyUnread
    <2>2. BodyArrives(q, body[q] - arrived[q])
        BY <2>1 DEF EndOfStream
    <2>3. \A r \in Requests \ {q} : /\ arrived'[r] = arrived[r]
                                    /\ totalRequestBodySize'[r] = totalRequestBodySize[r]
        BY <2>2, ArrivesCounted DEF BodyTypeOK
    <2>4. QED BY <2>1, <2>3 DEF SumsSuffice, Receiving, BodyTypeOK
<1>5. CASE OnHttpRequestTrailers(q)
    BY <1>5 DEF OnHttpRequestTrailers, BodyTypeOK, SumsSuffice, Receiving
<1>6. CASE Refuse(q)
    BY <1>6 DEF Refuse, BodyTypeOK, SumsSuffice, Receiving
<1>7. QED
    BY <1>1, <1>2, <1>3, <1>4, <1>5, <1>6 DEF Arrives, Overflows, ClientLeaves

(* Of the request a step is about: what it leaves with.                    *)
LEMMA EarlyAndAllNext ==
    ASSUME BodyTypeOK, SumsSuffice, NothingEarly, AllOrNothing, BodyNext
    PROVE  NothingEarly' /\ AllOrNothing'
<1>1. PICK q \in Requests : OnHttpRequestHeaders(q) \/ Arrives(q) \/ ClientLeaves(q)
    BY DEF BodyNext
<1>2. CASE OnHttpRequestHeaders(q)
    BY <1>2 DEF OnHttpRequestHeaders, BodyTypeOK, NothingEarly, AllOrNothing
<1>3. ASSUME NEW piece, MoreToCome(q, piece) PROVE NothingEarly' /\ AllOrNothing'
    <2>1. BodyArrives(q, piece)
        BY <1>3 DEF MoreToCome
    <2>2. stream[q] \in {"open", "paused"}
          /\ \A r \in Requests \ {q} : /\ arrived'[r] = arrived[r]
                                       /\ totalRequestBodySize'[r] = totalRequestBodySize[r]
        BY <2>1, ArrivesCounted DEF BodyTypeOK, Receiving
    <2>3. QED BY <1>3, <2>2 DEF MoreToCome, BodyTypeOK, NothingEarly, AllOrNothing
<1>4. CASE BodyRead(q) \/ BodyUnread(q)
    <2>1. EndOfStream(q) /\ stream' = [stream EXCEPT ![q] = "gone"]
        BY <1>4 DEF BodyRead, BodyUnread
    <2>2. BodyArrives(q, body[q] - arrived[q])
        BY <2>1 DEF EndOfStream
    <2>3. stream[q] # "gone" /\ \A r \in Requests \ {q} :
              /\ arrived'[r] = arrived[r]
              /\ totalRequestBodySize'[r] = totalRequestBodySize[r]
        BY <2>2, ArrivesCounted DEF BodyTypeOK, Receiving
    <2>4. logged' = [logged EXCEPT ![q] = body[q]] \/ logged' = logged
        BY <1>4, WholeBodyRead DEF BodyRead, BodyUnread
    <2>5. QED BY <2>1, <2>3, <2>4 DEF EndOfStream, BodyTypeOK, NothingEarly, AllOrNothing
<1>5. CASE OnHttpRequestTrailers(q)
    BY <1>5 DEF OnHttpRequestTrailers, Receiving, BodyTypeOK, NothingEarly, AllOrNothing
<1>6. CASE Refuse(q)
    BY <1>6 DEF Refuse, Receiving, BodyTypeOK, NothingEarly, AllOrNothing
<1>7. QED
    BY <1>1, <1>2, <1>3, <1>4, <1>5, <1>6 DEF Arrives, Overflows, ClientLeaves

LEMMA UnprintedNext ==
    ASSUME BodyTypeOK, SumsSuffice, NothingEarly, UnprintedFew, BodyNext
    PROVE  UnprintedFew'
<1> DEFINE U == {r \in Requests : Unprinted(r)}
<1>1. PICK q \in Requests : OnHttpRequestHeaders(q) \/ Arrives(q) \/ ClientLeaves(q)
    BY DEF BodyNext
<1>2. IsFiniteSet(U) /\ hostFaults \in Nat
    BY BodyNumbers, FS_Subset DEF BodyTypeOK
<1>3. ASSUME U' \subseteq U, hostFaults' = hostFaults PROVE UnprintedFew'
    <2>1. Cardinality(U') \in Nat /\ Cardinality(U) \in Nat
          /\ Cardinality(U') <= Cardinality(U)
        BY <1>2, <1>3, Fewer
    <2>2. QED BY <1>2, <1>3, <2>1 DEF UnprintedFew
<1>4. CASE BodyUnread(q)
    <2>1. U' \subseteq U \cup {q} /\ hostFaults' = hostFaults + 1
        BY <1>4 DEF BodyUnread, EndOfStream, Unprinted, BodyTypeOK
    <2>2. Cardinality(U') \in Nat /\ Cardinality(U) \in Nat
          /\ Cardinality(U') <= Cardinality(U) + 1
        BY <1>2, <2>1, OneMore
    <2>3. QED BY <1>2, <2>1, <2>2 DEF UnprintedFew
<1>5. CASE OnHttpRequestHeaders(q)
    <2>1. U' \subseteq U /\ hostFaults' = hostFaults
        BY <1>5 DEF OnHttpRequestHeaders, Unprinted, BodyTypeOK
    <2>2. QED BY <1>3, <2>1
<1>6. CASE \E piece \in 1..MaxBody : MoreToCome(q, piece)
    <2>1. U' \subseteq U /\ hostFaults' = hostFaults
        BY <1>6 DEF MoreToCome, Unprinted, BodyTypeOK
    <2>2. QED BY <1>3, <2>1
<1>7. CASE BodyRead(q)
    <2>1. logged' = [logged EXCEPT ![q] = body[q]]
        BY <1>7, WholeBodyRead DEF BodyRead
    <2>2. body[q] # Nothing
        BY BodyNumbers DEF BodyTypeOK
    <2>3. U' \subseteq U /\ hostFaults' = hostFaults
        BY <1>7, <2>1, <2>2 DEF BodyRead, EndOfStream, Unprinted, BodyTypeOK
    <2>4. QED BY <1>3, <2>3
<1>8. CASE OnHttpRequestTrailers(q)
    <2>1. U' \subseteq U /\ hostFaults' = hostFaults
        BY <1>8 DEF OnHttpRequestTrailers, Unprinted, BodyTypeOK
    <2>2. QED BY <1>3, <2>1
<1>9. CASE Refuse(q)
    <2>1. U' \subseteq U /\ hostFaults' = hostFaults
        BY <1>9 DEF Refuse, Unprinted, BodyTypeOK
    <2>2. QED BY <1>3, <2>1
<1>10. QED
    BY <1>1, <1>4, <1>5, <1>6, <1>7, <1>8, <1>9 DEF Arrives, Overflows, ClientLeaves

LEMMA BodyInvInit == BodyInit => BodyInv
<1> SUFFICES ASSUME BodyInit PROVE BodyInv
    OBVIOUS
<1>1. BodyTypeOK
    BY BodyNumbers DEF BodyInit, BodyTypeOK
<1>2. SumsSuffice /\ NothingEarly /\ AllOrNothing
    BY DEF BodyInit, SumsSuffice, Receiving, NothingEarly, AllOrNothing
<1>3. {q \in Requests : Unprinted(q)} = {}
    BY DEF BodyInit, Unprinted
<1>4. UnprintedFew
    BY <1>3, FS_EmptySet DEF BodyInit, UnprintedFew
<1>5. QED BY <1>1, <1>2, <1>4 DEF BodyInv

LEMMA BodyInvNext ==
    ASSUME BodyInv, BodyNext \/ UNCHANGED bodyVars
    PROVE  BodyInv'
<1>1. CASE BodyNext
    BY <1>1, BodyTypeNext, SumsNext, EarlyAndAllNext, UnprintedNext DEF BodyInv
<1>2. CASE UNCHANGED bodyVars
    BY <1>2 DEF bodyVars, BodyInv, BodyTypeOK, SumsSuffice, Receiving, NothingEarly,
       AllOrNothing, UnprintedFew, Unprinted
<1>3. QED BY <1>1, <1>2

LEMMA BodyInvAccounts == BodyInv => BodyAccounted
  BY DEF BodyInv, AllOrNothing, UnprintedFew, Unprinted, BodyAccounted

-----------------------------------------------------------------------------
(* Kubernetes clients: a client that is about to list the pods was let in, *)
(* so a server that is not up has gone away since; after the patch the     *)
(* plugin is as patched unless it was applied or deleted.                  *)
LetIn   == core = "pods" /\ api # "up" => gone = 1
Patched == crd = "list again" => plugin = "updated" \/ applied = 1

KubeInv == KubeTypeOK /\ LetIn /\ Patched /\ OutcomesHaveCauses

LEMMA KubeNumbers == MaxOutages \in Nat /\ MaxApplies \in Nat
  BY KubeAssumption

KubeCounts == outages \in 0..MaxOutages /\ applies \in 0..MaxApplies
KubePlaces ==
    /\ api \in {"refusing", "failing", "up"}
    /\ configs \in SUBSET {"core", "crd"}
    /\ core \in {"start", "nodes", "sleep", "pods", "done", "fatal"}
    /\ crd \in {"start", "list", "patch", "list again", "done", "gave up", "fatal"}
    /\ {plugin, shown} \subseteq {"absent", "deployed", "updated"}
    /\ {podsShown, gone, applied} \subseteq {0, 1}

LEMMA KubeTypeParts == KubeTypeOK <=> KubePlaces /\ KubeCounts
  BY Zenon DEF KubeTypeOK, KubePlaces, KubeCounts

(* One more outage, one more change of the plugin.                         *)
LEMMA KubeCounting ==
    ASSUME KubeCounts
    PROVE  /\ outages < MaxOutages => outages + 1 \in 0..MaxOutages
           /\ applies < MaxApplies => applies + 1 \in 0..MaxApplies
  BY KubeNumbers DEF KubeCounts

LEMMA KubeTypeNext ==
    ASSUME KubePlaces, KubeCounts, KubeNext
    PROVE  KubePlaces' /\ KubeCounts'
<1>1. CASE ApiWorsens
    <2>1. KubeCounts'
        BY <1>1, KubeCounting, Zenon DEF ApiWorsens, KubeCounts
    <2>2. QED BY <1>1, <2>1 DEF ApiWorsens, KubePlaces
<1>2. CASE ApiRecovers
    BY <1>2 DEF ApiRecovers, KubePlaces, KubeCounts
<1>3. CASE ApplyPlugin
    <2>1. KubeCounts'
        BY <1>3, KubeCounting, Zenon DEF ApplyPlugin, KubeCounts
    <2>2. QED BY <1>3, <2>1 DEF ApplyPlugin, KubePlaces
<1>4. CASE CoreStep
    <2>1. UNCHANGED <<api, configs, gone, crd, plugin, shown, applied>> /\ KubeCounts'
        BY <1>4 DEF CoreStep, GetClient, ListNodes, Wake, ListPods, CoreCall, KubeCounts
    <2>2. /\ core' \in {"start", "nodes", "sleep", "pods", "done", "fatal"}
          /\ podsShown' \in {0, 1}
        BY <1>4 DEF CoreStep, GetClient, ListNodes, Wake, ListPods, KubePlaces
    <2>3. QED BY <2>1, <2>2 DEF KubePlaces
<1>5. CASE CrdStep
    <2>1. UNCHANGED <<api, configs, core, podsShown, gone, applied>> /\ KubeCounts'
        BY <1>5 DEF CrdStep, GetInClusterClient, ListWasmPlugins, PatchWasmPluginConfig,
           ListWasmPluginsAgain, CrdCall, KubeCounts
    <2>2. /\ crd' \in {"start", "list", "patch", "list again", "done", "gave up", "fatal"}
          /\ {plugin', shown'} \subseteq {"absent", "deployed", "updated"}
        BY <1>5 DEF CrdStep, GetInClusterClient, ListWasmPlugins, PatchWasmPluginConfig,
           ListWasmPluginsAgain, KubePlaces
    <2>3. QED BY <2>1, <2>2 DEF KubePlaces
<1>6. QED BY <1>1, <1>2, <1>3, <1>4, <1>5 DEF KubeNext

LEMMA ShownOrNot == (IF api = "up" THEN 1 ELSE 0) = 0 => api # "up"
  OBVIOUS

(* The pods are listed by a client that was let in.                        *)
LEMMA PodsListed ==
    ASSUME LetIn, ListPods
    PROVE  /\ core' = "done" /\ (podsShown' = 0 => gone' = 1)
           /\ UNCHANGED <<crd, plugin, shown, applied>>
<1>1. UNCHANGED <<gone, crd, plugin, shown, applied>>
    BY DEF ListPods, CoreCall
<1>2. /\ core = "pods" /\ core' = "done"
      /\ podsShown' = (IF api = "up" THEN 1 ELSE 0)
    BY DEF ListPods
<1>3. podsShown' = 0 => gone = 1
    BY <1>2, ShownOrNot, Zenon DEF LetIn
<1>4. QED BY <1>1, <1>2, <1>3

LEMMA KubeCausesNext ==
    ASSUME KubePlaces, LetIn, Patched, OutcomesHaveCauses, KubeNext
    PROVE  LetIn' /\ Patched' /\ OutcomesHaveCauses'
<1> USE DEF LetIn, Patched, OutcomesHaveCauses
<1>1. CASE ApiWorsens
    BY <1>1 DEF ApiWorsens
<1>2. CASE ApiRecovers
    BY <1>2 DEF ApiRecovers
<1>3. CASE ApplyPlugin
    BY <1>3 DEF ApplyPlugin
<1>4. ASSUME CoreCall PROVE UNCHANGED <<api, gone, crd, plugin, shown, applied>>
    BY <1>4 DEF CoreCall
<1>5. CASE GetClient \/ Wake
    BY <1>4, <1>5 DEF GetClient, Wake
<1>6. CASE ListNodes
    BY <1>4, <1>6 DEF ListNodes, KubePlaces
<1>7. CASE ListPods
    BY <1>7, PodsListed, Zenon
<1>8. CASE CrdStep
    BY <1>8 DEF CrdStep, GetInClusterClient, ListWasmPlugins, PatchWasmPluginConfig,
       ListWasmPluginsAgain, CrdCall
<1>9. QED BY <1>1, <1>2, <1>3, <1>5, <1>6, <1>7, <1>8 DEF KubeNext, CoreStep

LEMMA KubeInvInit == KubeInit => KubeInv
  BY KubeNumbers DEF KubeInit, KubeInv, KubeTypeOK, LetIn, Patched, OutcomesHaveCauses

LEMMA KubeInvNext ==
    ASSUME KubeInv, KubeNext \/ UNCHANGED kubeVars
    PROVE  KubeInv'
<1>1. CASE KubeNext
    BY <1>1, KubeTypeParts, KubeTypeNext, KubeCausesNext, PTL DEF KubeInv
<1>2. CASE UNCHANGED kubeVars
    BY <1>2 DEF kubeVars, KubeInv, KubeTypeOK, LetIn, Patched, OutcomesHaveCauses
<1>3. QED BY <1>1, <1>2

-----------------------------------------------------------------------------
(* Fibb: induction over the numbers, for sets of them.                     *)
LEMMA LeastElement ==
    ASSUME NEW T \in SUBSET Nat, T # {}
    PROVE  \E m \in T : \A n \in T : ~ (n < m)
<1> DEFINE R == {ss \in Nat \X Nat : ss[1] < ss[2]}
<1>1. IsWellFoundedOn(R, Nat)
    BY NatLessThanWellFounded DEF OpToRel
<1>2. PICK m \in T : \A n \in T : ~ (<<n, m>> \in R)
    <2> HIDE DEF R
    <2> QED BY <1>1, WFMin
<1>3. QED BY <1>2

LEMMA SetInduction ==
    ASSUME NEW S \in SUBSET Nat, 0 \in S, \A n \in S : n + 1 \in S
    PROVE  \A n \in Nat : n \in S
<1>1. SUFFICES ASSUME Nat \ S # {} PROVE FALSE
    OBVIOUS
<1>2. PICK m \in Nat \ S : \A n \in Nat \ S : ~ (n < m)
    <2> DEFINE T == Nat \ S
    <2>1. T \in SUBSET Nat /\ T # {}
        BY <1>1
    <2> HIDE DEF T
    <2>2. \E m \in T : \A n \in T : ~ (n < m)
        BY <2>1, LeastElement
    <2>3. QED BY <2>2 DEF T
<1>3. m # 0 /\ m - 1 \in Nat /\ m - 1 < m
    OBVIOUS
<1>4. m - 1 \in S
    BY <1>2, <1>3
<1>5. (m - 1) + 1 \in S
    BY <1>4
<1>6. QED BY <1>5

(* A sequence of values, each the step of the one before, begins somewhere *)
(* and goes on for as long as one likes; and there is only one.            *)
Runs(f, n, V, s0, step) ==
    /\ f \in [0..n -> V]
    /\ f[0] = s0
    /\ \A i \in 0..n : i + 1 \in 0..n => f[i + 1] = step[f[i]]

LEMMA SomeRun ==
    ASSUME NEW V, NEW s0 \in V, NEW step \in [V -> V]
    PROVE  \A n \in Nat : \E f : Runs(f, n, V, s0, step)
<1> DEFINE S == {n \in Nat : \E f : Runs(f, n, V, s0, step)}
<1>1. 0 \in S
    <2> DEFINE f == [i \in 0..0 |-> s0]
    <2>1. Runs(f, 0, V, s0, step)
        BY DEF Runs
    <2>2. QED BY <2>1
<1>2. ASSUME NEW n \in S PROVE n + 1 \in S
    <2>1. PICK f : Runs(f, n, V, s0, step)
        OBVIOUS
    <2> DEFINE g == [i \in 0..(n + 1) |-> IF i \in 0..n THEN f[i] ELSE step[f[n]]]
    <2>2. n \in Nat /\ n \in 0..n /\ f[n] \in V
        BY <2>1 DEF Runs
    <2>3. g \in [0..(n + 1) -> V]
        BY <2>1, <2>2 DEF Runs
    <2>4. g[0] = s0
        BY <2>1, <2>2 DEF Runs
    <2>5. ASSUME NEW i \in 0..(n + 1), i + 1 \in 0..(n + 1) PROVE g[i + 1] = step[g[i]]
        <3>1. CASE i = n
            BY <2>2, <3>1
        <3>2. CASE i # n
            <4>1. i \in 0..n /\ i + 1 \in 0..n
                BY <2>2, <2>5, <3>2
            <4>2. f[i + 1] = step[f[i]]
                BY <2>1, <4>1 DEF Runs
            <4>3. QED BY <4>1, <4>2, <2>5
        <3>3. QED BY <3>1, <3>2
    <2>6. Runs(g, n + 1, V, s0, step)
        BY <2>3, <2>4, <2>5 DEF Runs
    <2>7. QED BY <2>2, <2>6
<1>3. S \in SUBSET Nat
    OBVIOUS
<1> HIDE DEF S
<1>4. \A n \in Nat : n \in S
    BY <1>1, <1>2, <1>3, SetInduction
<1>5. QED BY <1>4 DEF S

LEMMA OneRun ==
    ASSUME NEW V, NEW s0, NEW step, NEW f, NEW g, NEW m \in Nat, NEW n \in Nat,
           Runs(f, m, V, s0, step), Runs(g, n, V, s0, step)
    PROVE  \A i \in Nat : i <= m /\ i <= n => f[i] = g[i]
<1> DEFINE S == {i \in Nat : i <= m /\ i <= n => f[i] = g[i]}
<1>1. 0 \in S
    BY DEF Runs
<1>2. ASSUME NEW i \in S PROVE i + 1 \in S
    <2>1. SUFFICES ASSUME i + 1 <= m, i + 1 <= n PROVE f[i + 1] = g[i + 1]
        OBVIOUS
    <2>2. i \in Nat /\ i \in 0..m /\ i + 1 \in 0..m /\ i \in 0..n /\ i + 1 \in 0..n
        BY <2>1
    <2>3. f[i] = g[i]
        BY <2>2
    <2>4. f[i + 1] = step[f[i]] /\ g[i + 1] = step[g[i]]
        BY <2>2 DEF Runs
    <2>5. QED BY <2>3, <2>4
<1>3. S \in SUBSET Nat
    OBVIOUS
<1> HIDE DEF S
<1>4. \A n_1 \in Nat : n_1 \in S
    BY <1>1, <1>2, <1>3, SetInduction
<1>5. QED BY <1>4 DEF S

LEMMA Unending ==
    ASSUME NEW V, NEW s0 \in V, NEW step \in [V -> V]
    PROVE  \E f \in [Nat -> V] : f[0] = s0 /\ \A n \in Nat : f[n + 1] = step[f[n]]
<1> DEFINE part(n) == CHOOSE f : Runs(f, n, V, s0, step)
<1> DEFINE F == [n \in Nat |-> part(n)[n]]
<1>1. \A n \in Nat : Runs(part(n), n, V, s0, step)
    BY SomeRun
<1>2. ASSUME NEW n \in Nat
      PROVE  part(n)[n] \in V /\ part(n + 1)[n + 1] = step[part(n)[n]]
    <2>1. Runs(part(n), n, V, s0, step) /\ Runs(part(n + 1), n + 1, V, s0, step)
        BY <1>1
    <2> HIDE DEF part
    <2>2. part(n)[n] = part(n + 1)[n]
        BY <2>1, OneRun
    <2>3. part(n + 1)[n + 1] = step[part(n + 1)[n]]
        BY <2>1 DEF Runs
    <2>4. part(n)[n] \in V
        BY <2>1 DEF Runs
    <2>5. QED BY <2>2, <2>3, <2>4
<1>3. part(0)[0] = s0
    BY <1>1 DEF Runs
<1> HIDE DEF part
<1>4. F \in [Nat -> V] /\ F[0] = s0 /\ \A n \in Nat : F[n + 1] = step[F[n]]
    BY <1>2, <1>3
<1>5. QED BY <1>4

-----------------------------------------------------------------------------
(* The width of an int.                                                    *)
LEMMA PowerOfTwo ==
    ASSUME NEW w \in Nat, w > 0
    PROVE  2 ^ w \in Nat /\ 2 ^ w > 1
<1> DEFINE S == 1..w
<1>1. IsFiniteSet(S) /\ Cardinality(S) = w
    BY FS_Interval
<1>2. IsFiniteSet(SUBSET S) /\ Cardinality(SUBSET S) = 2 ^ w
    BY <1>1, FS_SUBSET
<1>3. Cardinality(SUBSET S) \in Nat
    BY <1>2, FS_CardinalityType
<1>4. {} \in SUBSET S /\ S \in SUBSET S /\ S # {}
    OBVIOUS
<1> HIDE DEF S
<1>5. /\ Cardinality(SUBSET S) # 0
      /\ Cardinality(SUBSET S) # 1
    BY <1>2, <1>4, FS_EmptySet, FS_Singleton
<1>6. QED BY <1>2, <1>3, <1>5

(* Numbers that differ by a multiple of the modulus are one int.           *)
LEMMA SameRemainder ==
    ASSUME NEW M \in Nat, M > 0, NEW i \in Int, NEW k \in Int
    PROVE  (i - M * k) % M = i % M
<1> DEFINE q == i \div M
<1> DEFINE r == i % M
<1>1. q \in Int /\ r \in 0..(M - 1) /\ i = M * q + r
    OBVIOUS
<1> HIDE DEF q, r
<1>2. i - M * k = M * (q - k) + r
    BY <1>1
<1>3. q - k \in Int
    BY <1>1
<1>4. (M * (q - k) + r) % M = r
    BY <1>1, <1>3
<1>5. QED BY <1>2, <1>4 DEF r

LEMMA GoIntBasics ==
    /\ \A i \in Int : /\ GoInt(i) \in Int
                      /\ \E k \in Int : GoInt(i) = i - 2 ^ Width * k
    /\ GoInt(0) = 0 /\ GoInt(1) = 1
<1> DEFINE M == 2 ^ Width
<1> DEFINE H == 2 ^ (Width - 1)
<1>1. M \in Nat /\ M > 1 /\ H \in Nat /\ H > 1
    <2>1. Width \in Nat /\ Width > 0 /\ Width - 1 \in Nat /\ Width - 1 > 0
        BY FibbAssumption
    <2>2. QED BY <2>1, PowerOfTwo
<1>2. \A i : GoInt(i) = IF i % M < H THEN i % M ELSE (i % M) - M
    BY DEF GoInt
<1> HIDE DEF M, H
<1>3. ASSUME NEW i \in Int
      PROVE  GoInt(i) \in Int /\ \E k \in Int : GoInt(i) = i - M * k
    <2> DEFINE q == i \div M
    <2> DEFINE r == i % M
    <2>1. q \in Int /\ r \in Int /\ i = M * q + r
        BY <1>1
    <2>2. GoInt(i) = r \/ GoInt(i) = r - M
        BY <1>2
    <2> HIDE DEF q, r
    <2>3. r = i - M * q /\ r - M = i - M * (q + 1) /\ q + 1 \in Int
        BY <1>1, <2>1
    <2>4. CASE GoInt(i) = r
        BY <2>1, <2>3, <2>4
    <2>5. CASE GoInt(i) = r - M
        <3>1. GoInt(i) \in Int
            BY <1>1, <2>1, <2>5
        <3>2. QED BY <2>3, <2>5, <3>1
    <2>6. QED BY <2>2, <2>4, <2>5
<1>4. 0 % M = 0 /\ 1 % M = 1
    BY <1>1
<1>5. GoInt(0) = 0 /\ GoInt(1) = 1
    BY <1>1, <1>2, <1>4
<1>6. QED BY <1>3, <1>5 DEF M

(* A sum of cut numbers, cut, is their sum, cut.                           *)
LEMMA GoIntOfSum ==
    ASSUME NEW i \in Int, NEW j \in Int
    PROVE  GoInt(GoInt(i) + GoInt(j)) = GoInt(i + j)
<1> DEFINE M == 2 ^ Width
<1>1. M \in Nat /\ M > 0
    BY FibbAssumption, PowerOfTwo
<1>2. PICK k \in Int : GoInt(i) = i - M * k
    BY GoIntBasics
<1>3. PICK l \in Int : GoInt(j) = j - M * l
    BY GoIntBasics
<1> HIDE DEF M
<1>4. GoInt(i) + GoInt(j) = (i + j) - M * (k + l) /\ k + l \in Int /\ i + j \in Int
    BY <1>1, <1>2, <1>3
<1>5. (GoInt(i) + GoInt(j)) % M = (i + j) % M
    BY <1>1, <1>4, SameRemainder
<1>6. QED BY <1>5 DEF GoInt, M

-----------------------------------------------------------------------------
(* Both recursive definitions say what they seem to: the functions exist.  *)
LEMMA FibonacciPairDef ==
    /\ FibonacciPair \in [Nat -> Nat \X Nat]
    /\ FibonacciPair[0] = <<0, 1>>
    /\ \A n \in Nat : FibonacciPair[n + 1] =
           <<FibonacciPair[n][2], FibonacciPair[n][1] + FibonacciPair[n][2]>>
<1> DEFINE V == Nat \X Nat
<1> DEFINE step == [p \in V |-> <<p[2], p[1] + p[2]>>]
<1> DEFINE Body(f, n) == IF n = 0 THEN <<0, 1>>
                         ELSE LET p == f[n - 1] IN <<p[2], p[1] + p[2]>>
<1> DEFINE s0 == <<0, 1>>
<1>1. s0 \in V /\ step \in [V -> V] /\ \A a, b \in Nat : <<a, b>> \in V
    OBVIOUS
<1> HIDE DEF V, step, s0
<1>2. PICK f \in [Nat -> V] : f[0] = s0 /\ \A n \in Nat : f[n + 1] = step[f[n]]
    BY <1>1, Unending
<1>3. ASSUME NEW n \in Nat PROVE f[n] = Body(f, n)
    <2>1. CASE n = 0
        BY <1>2, <2>1 DEF s0
    <2>2. CASE n # 0
        <3>1. n - 1 \in Nat /\ (n - 1) + 1 = n /\ f[n - 1] \in V
            BY <1>2, <2>2
        <3>2. f[n] = step[f[n - 1]]
            BY <1>2, <3>1
        <3>3. QED BY <2>2, <3>1, <3>2 DEF step
    <2>3. QED BY <2>1, <2>2
<1>4. f = [n \in Nat |-> Body(f, n)]
    BY <1>2, <1>3
<1>5. FibonacciPair = [n \in Nat |-> Body(FibonacciPair, n)]
    BY <1>4 DEF FibonacciPair
<1> DEFINE S == {n \in Nat : FibonacciPair[n] \in V}
<1>6. ASSUME NEW n \in Nat
      PROVE  FibonacciPair[n + 1] =
                 <<FibonacciPair[n][2], FibonacciPair[n][1] + FibonacciPair[n][2]>>
    <2>1. n + 1 \in Nat /\ n + 1 # 0 /\ (n + 1) - 1 = n
        OBVIOUS
    <2>2. FibonacciPair[n + 1] = Body(FibonacciPair, n + 1)
        BY <1>5, <2>1
    <2>3. QED BY <2>1, <2>2
<1>7. FibonacciPair[0] = <<0, 1>>
    BY <1>5
<1>8. 0 \in S /\ \A n \in S : n + 1 \in S
    <2>1. 0 \in S
        BY <1>1, <1>7 DEF s0
    <2>2. ASSUME NEW n \in S PROVE n + 1 \in S
        <3>1. n \in Nat /\ n + 1 \in Nat
              /\ FibonacciPair[n][1] \in Nat /\ FibonacciPair[n][2] \in Nat
            BY DEF V
        <3>2. FibonacciPair[n][1] + FibonacciPair[n][2] \in Nat
            BY <3>1
        <3>3. FibonacciPair[n + 1] \in V
            BY <1>1, <1>6, <3>1, <3>2
        <3>4. QED BY <3>1, <3>3
    <2>3. QED BY <2>1, <2>2
<1>9. S \in SUBSET Nat
    OBVIOUS
<1> HIDE DEF S, Body
<1>10. \A n \in Nat : n \in S
    BY <1>8, <1>9, SetInduction
<1>11. FibonacciPair \in [Nat -> V]
    BY <1>5, <1>10 DEF S
<1>12. QED BY <1>6, <1>7, <1>11 DEF V

LEMMA FibbDef ==
    /\ fibb[0] = 0 /\ fibb[1] = 1
    /\ \A n \in Nat : fibb[n + 2] = GoInt(fibb[n + 1] + fibb[n])
<1> DEFINE V == Int \X Int
<1> DEFINE step == [p \in V |-> <<p[2], GoInt(p[2] + p[1])>>]
<1> DEFINE Body(f, n) == IF n = 0 THEN 0
                         ELSE IF n = 1 THEN 1 ELSE GoInt(f[n - 1] + f[n - 2])
<1> DEFINE s0 == <<0, 1>>
<1>1. s0 \in V /\ step \in [V -> V]
    BY GoIntBasics
<1> HIDE DEF V, step, s0
<1>2. PICK g \in [Nat -> V] : g[0] = s0 /\ \A n \in Nat : g[n + 1] = step[g[n]]
    BY <1>1, Unending
<1> DEFINE f == [n \in Nat |-> g[n][1]]
<1>3. ASSUME NEW n \in Nat
      PROVE  /\ n + 1 \in Nat /\ g[n + 1][1] = g[n][2]
             /\ g[n + 1][2] = GoInt(g[n][2] + g[n][1])
    <2>1. g[n] \in V /\ g[n + 1] = step[g[n]]
        BY <1>2
    <2>2. QED BY <2>1 DEF step
<1>4. ASSUME NEW n \in Nat PROVE f[n] = Body(f, n)
    <2>1. CASE n = 0
        BY <1>2, <2>1 DEF s0
    <2>2. CASE n = 1
        <3>1. g[0 + 1][1] = g[0][2]
            BY <1>3
        <3>2. g[1][1] = 1
            BY <1>2, <3>1 DEF s0
        <3>3. QED BY <2>2, <3>2
    <2>3. CASE n # 0 /\ n # 1
        <3>1. n - 2 \in Nat /\ n - 1 \in Nat /\ (n - 2) + 1 = n - 1 /\ (n - 1) + 1 = n
            BY <2>3
        <3>2. /\ g[n - 1][1] = g[n - 2][2] /\ g[n][1] = g[n - 1][2]
              /\ g[n - 1][2] = GoInt(g[n - 2][2] + g[n - 2][1])
            BY <1>3, <3>1
        <3>3. g[n][1] = GoInt(g[n - 1][1] + g[n - 2][1])
            BY <3>2
        <3>4. QED BY <2>3, <3>1, <3>3
    <2>4. QED BY <2>1, <2>2, <2>3
<1>5. f = [n \in Nat |-> Body(f, n)]
    BY <1>4
<1> HIDE DEF f
<1>6. fibb = [n \in Nat |-> Body(fibb, n)]
    BY <1>5 DEF fibb
<1>7. fibb[0] = 0 /\ fibb[1] = 1
    BY <1>6
<1>8. ASSUME NEW n \in Nat PROVE fibb[n + 2] = GoInt(fibb[n + 1] + fibb[n])
    <2>1. /\ n + 2 \in Nat /\ n + 2 # 0 /\ n + 2 # 1
          /\ (n + 2) - 1 = n + 1 /\ (n + 2) - 2 = n
        OBVIOUS
    <2>2. fibb[n + 2] = Body(fibb, n + 2)
        BY <1>6, <2>1
    <2>3. QED BY <2>1, <2>2
<1>9. QED BY <1>7, <1>8

(* The function of the provider computes the Fibonacci numbers, each cut   *)
(* to the width of an int: that every sum on the way is cut does no harm.  *)
THEOREM FibbIsFibonacci ==
    \A n \in Nat : fibb[n] = GoInt(Fibonacci(n)) /\ Fibonacci(n) \in Nat
<1> DEFINE P(n) == FibonacciPair[n]
<1> DEFINE S == {n \in Nat : fibb[n] = GoInt(P(n)[1]) /\ fibb[n + 1] = GoInt(P(n)[2])}
<1>1. \A n \in Nat : /\ P(n)[1] \in Nat /\ P(n)[2] \in Nat
                     /\ P(n + 1) = <<P(n)[2], P(n)[1] + P(n)[2]>>
    BY FibonacciPairDef
<1>2. 0 \in S
    <2>1. P(0)[1] = 0 /\ P(0)[2] = 1 /\ 0 + 1 = 1
        BY FibonacciPairDef
    <2>2. QED BY <2>1, FibbDef, GoIntBasics
<1>3. ASSUME NEW n \in S PROVE n + 1 \in S
    <2>1. n \in Nat /\ n + 1 \in Nat /\ (n + 1) + 1 = n + 2
        OBVIOUS
    <2>2. P(n + 1)[1] = P(n)[2] /\ P(n + 1)[2] = P(n)[1] + P(n)[2]
          /\ P(n)[1] \in Int /\ P(n)[2] \in Int
        BY <1>1, <2>1
    <2>3. fibb[n] = GoInt(P(n)[1]) /\ fibb[n + 1] = GoInt(P(n)[2])
        OBVIOUS
    <2> HIDE DEF P
    <2>4. GoInt(fibb[n + 1] + fibb[n]) = GoInt(P(n)[2] + P(n)[1])
        BY <2>2, <2>3, GoIntOfSum
    <2>5. P(n)[2] + P(n)[1] = P(n + 1)[2]
        BY <2>2
    <2>6. fibb[n + 2] = GoInt(P(n + 1)[2])
        BY <2>1, <2>4, <2>5, FibbDef
    <2>7. QED BY <2>1, <2>2, <2>3, <2>6
<1>4. S \in SUBSET Nat
    OBVIOUS
<1> HIDE DEF S, P
<1>5. \A n \in Nat : n \in S
    BY <1>2, <1>3, <1>4, SetInduction
<1>6. QED BY <1>1, <1>5 DEF S, P, Fibonacci

-----------------------------------------------------------------------------
(* A planned update is of a resource that is there.                        *)
UpdateOfResource == plan # Absent /\ plan.call = "update" => fibbState # Absent

FibbInv == FibbTypeOK /\ UpdateOfResource /\ ResultOfN

LEMMA FibbInvInit == FibbInit => FibbInv
  BY FibbAssumption DEF FibbInit, FibbInv, FibbTypeOK, UpdateOfResource, ResultOfN

LEMMA ResultType ==
    ASSUME NEW n \in Int, checkn(n)
    PROVE  n \in Nat /\ updateResult(n) = GoInt(Fibonacci(n)) /\ updateResult(n) \in Int
<1>1. n \in Nat
    BY DEF checkn
<1>2. QED BY <1>1, FibbIsFibonacci, GoIntBasics DEF updateResult

LEMMA FibbInvNext ==
    ASSUME FibbInv, FibbNext \/ UNCHANGED fibbVars
    PROVE  FibbInv'
<1> USE DEF FibbInv
<1>1. Arguments \subseteq Int /\ Absent \notin Int
    BY FibbAssumption
<1>2. CASE Edit
    BY <1>2 DEF Edit, FibbTypeOK, UpdateOfResource, ResultOfN
<1>3. CASE Plan
    <2>1. (main # Absent => main \in Int) /\ (fibbState # Absent => fibbState.n \in Int)
        BY <1>1 DEF FibbTypeOK, Resources
    <2>2. /\ plan' \in [call : {"create", "update", "delete"}, n : Int]
          /\ plan'.call = "update" => fibbState # Absent
        BY <1>3, <2>1 DEF Plan
    <2>3. QED BY <1>3, <2>2 DEF Plan, FibbTypeOK, UpdateOfResource, ResultOfN
<1>4. CASE Killed
    BY <1>4 DEF Killed, FibbTypeOK, UpdateOfResource, ResultOfN
<1>5. CASE Create
    <2>1. plan.n \in Int
        BY <1>5 DEF Create, FibbTypeOK
    <2>2. checkn(plan.n) => plan.n \in Nat /\ updateResult(plan.n) \in Int
                            /\ updateResult(plan.n) = GoInt(Fibonacci(plan.n))
        BY <2>1, ResultType
    <2>3. fibbState' # Absent =>
              /\ fibbState' \in Resources
              /\ fibbState'.n >= 0 /\ fibbState'.result = GoInt(Fibonacci(fibbState'.n))
        BY <1>5, <2>1, <2>2 DEF Create, Resources
    <2>4. QED BY <1>5, <2>3 DEF Create, FibbTypeOK, UpdateOfResource, ResultOfN
<1>6. CASE Update
    <2>1. plan.n \in Int
        BY <1>6 DEF Update, FibbTypeOK
    <2>2. CASE ~checkn(plan.n)
        BY <1>6, <2>2 DEF Update, FibbTypeOK, UpdateOfResource, ResultOfN
    <2>3. CASE checkn(plan.n)
        <3>1. plan.n \in Nat /\ updateResult(plan.n) \in Int
              /\ updateResult(plan.n) = GoInt(Fibonacci(plan.n))
            BY <2>1, <2>3, ResultType
        <3>2. fibbState' = [fibbState EXCEPT !.n = plan.n, !.result = updateResult(plan.n)]
            BY <1>6, <2>3 DEF Update
        <3>3. fibbState \in Resources
            BY <1>6 DEF Update, UpdateOfResource, FibbTypeOK
        <3>4. /\ fibbState' \in Resources /\ fibbState'.n = plan.n
              /\ fibbState'.result = updateResult(plan.n)
            BY <2>1, <3>1, <3>2, <3>3 DEF Resources
        <3>5. QED
            BY <1>6, <3>1, <3>4 DEF Update, FibbTypeOK, UpdateOfResource, ResultOfN
    <2>4. QED BY <2>2, <2>3
<1>7. CASE Delete
    BY <1>7 DEF Delete, FibbTypeOK, UpdateOfResource, ResultOfN
<1>8. CASE UNCHANGED fibbVars
    BY <1>8 DEF fibbVars, FibbTypeOK, UpdateOfResource, ResultOfN
<1>9. QED BY <1>2, <1>3, <1>4, <1>5, <1>6, <1>7, <1>8 DEF FibbNext

-----------------------------------------------------------------------------
(* S3 backend: the commands of the script, in order.                       *)
Script == Main \o TearDown

LEMMA Commands ==
    /\ DOMAIN Script = 1..7 /\ Len(Script) = 7
    /\ Script[1] = "mb" /\ Script[2] = "init" /\ Script[3] = "apply"
    /\ Script[4] = "dns" /\ Script[5] = "alive" /\ Script[6] = "destroy"
    /\ Script[7] = "rb"
  BY DEF Script, Main, TearDown

LEMMA AfterAt ==
    ASSUME NEW i \in 1..7
    PROVE  After(Script[i]) = IF i = 7 THEN "off" ELSE Script[i + 1]
<1> DEFINE place == CHOOSE k \in DOMAIN Script : Script[k] = Script[i]
<1>1. \A k \in 1..7 : Script[k] = Script[i] => k = i
    <2>1. i \in {1, 2, 3, 4, 5, 6, 7}
        OBVIOUS
    <2>2. SUFFICES ASSUME NEW k \in {1, 2, 3, 4, 5, 6, 7}, Script[k] = Script[i]
                   PROVE  k = i
        OBVIOUS
    <2>3. QED BY <2>1, <2>2, Commands
<1>2. i \in DOMAIN Script /\ \A k \in DOMAIN Script : Script[k] = Script[i] => k = i
    BY <1>1, Commands
<1>3. place = i
    BY <1>2
<1>4. After(Script[i]) = IF place = Len(Script) THEN "off" ELSE Script[place + 1]
    BY DEF After, Script
<1>5. QED BY <1>3, <1>4, Commands

LEMMA AfterCases ==
    /\ After("mb") = "init" /\ After("init") = "apply" /\ After("apply") = "dns"
    /\ After("dns") = "alive" /\ After("alive") = "destroy"
    /\ After("destroy") = "rb" /\ After("rb") = "off"
  BY AfterAt, Commands

(* What comes after the command of u.                                      *)
NextOf(u) == IF pressed[u] = 1 THEN "destroy" ELSE After(command[u])

LEMMA EndCommandEffect ==
    ASSUME NEW u \in Users, EndCommand(u)
    PROVE  /\ command' = [command EXCEPT ![u] = NextOf(u)]
           /\ inited' = IF NextOf(u) = "off" THEN [inited EXCEPT ![u] = 0] ELSE inited
           /\ pressed' = [pressed EXCEPT ![u] = 0]
           /\ terraform' = [terraform EXCEPT ![u] = "off"]
           /\ memory' = [memory EXCEPT ![u] = {}]
<1>1. Head(TearDown) = "destroy"
    BY DEF TearDown
<1>2. QED BY <1>1 DEF EndCommand, NextOf

CommandNames == {"off", "mb", "init", "apply", "dns", "alive", "destroy", "rb"}

LEMMA NextOfType ==
    ASSUME S3TypeOK, NEW u \in Users, command[u] # "off"
    PROVE  NextOf(u) \in CommandNames \ {"mb"}
  BY AfterCases DEF S3TypeOK, NextOf, CommandNames

(* The part of the type invariant an ended command is about.               *)
LEMMA EndCommandTypes ==
    ASSUME S3TypeOK, NEW u \in Users, command[u] # "off", EndCommand(u)
    PROVE  /\ command' \in [Users -> CommandNames]
           /\ inited' \in [Users -> {0, 1}]
           /\ pressed' \in [Users -> {0, 1}]
           /\ terraform' \in [Users -> {"off", "read", "changed"}]
           /\ memory' \in [Users -> SUBSET (1..sessions)]
  BY EndCommandEffect, NextOfType DEF S3TypeOK, CommandNames

-----------------------------------------------------------------------------
(* A terraform at work belongs to apply or destroy in an inited clone.     *)
AtWork ==
    \A u \in Users : terraform[u] # "off" => /\ command[u] \in {"apply", "destroy"}
                                             /\ inited[u] = 1

(* Users who have yet to pass terraform init: each may put a stale copy in *)
(* its place once.                                                         *)
Starting == {u \in Users : command[u] \in {"mb", "init"}}

(* The counters keep within their types: sessions bound them.              *)
CountsBounded ==
    /\ overlaps <= sessions /\ aborts <= presses
    /\ stale + Cardinality(Starting) <= sessions

LEMMA UsersFinite ==
    /\ \A S \in SUBSET Users : IsFiniteSet(S) /\ Cardinality(S) \in Nat
    /\ MaxSessions \in Nat /\ MaxAwsFaults \in Nat /\ MaxPresses \in Nat
  BY S3Assumption, FS_Subset, FS_CardinalityType

LEMMA Counters ==
    ASSUME S3TypeOK
    PROVE  {sessions, overlaps, awsFaults, aborts, presses, stale} \subseteq Nat
  BY UsersFinite DEF S3TypeOK

S3Sets ==
    /\ bucket \in {0, 1}
    /\ instances \cup tfstate \subseteq 1..sessions
    /\ command \in [Users -> CommandNames]
    /\ inited \in [Users -> {0, 1}]
    /\ terraform \in [Users -> {"off", "read", "changed"}]
    /\ memory \in [Users -> SUBSET (1..sessions)]
    /\ copy \in [Users -> SUBSET (1..sessions)]
    /\ pressed \in [Users -> {0, 1}]

S3Counters ==
    /\ sessions \in 0..MaxSessions /\ overlaps \in 0..MaxSessions
    /\ awsFaults \in 0..MaxAwsFaults
    /\ presses \in 0..MaxPresses /\ aborts \in 0..MaxPresses
    /\ stale \in 0..MaxSessions

LEMMA S3TypeParts == S3TypeOK <=> S3Sets /\ S3Counters
  BY DEF S3TypeOK, S3Sets, S3Counters, CommandNames

(* A command ends, whatever else happens to the bucket and the state.      *)
EndsCommand(u) ==
    \/ MakeBucket(u) \/ InitNotDone(u) \/ PrintDNS(u) \/ RemoveBucket(u)
    \/ CannotRead(u) \/ NothingDone(u) \/ AwsFault(u) \/ WriteState(u) \/ PressAgain(u)

LEMMA EndsCommandEffect ==
    ASSUME S3TypeOK, AtWork, NEW u \in Users, EndsCommand(u)
    PROVE  /\ EndCommand(u) /\ command[u] # "off"
           /\ UNCHANGED <<instances, sessions>>
<1>1. command[u] # "off"
    BY DEF EndsCommand, AtWork, MakeBucket, InitNotDone, PrintDNS, RemoveBucket,
       CannotRead, AtTerraform, NothingDone, AwsFault, WriteState, PressAgain
<1>2. EndCommand(u) /\ UNCHANGED <<instances, sessions>>
    BY DEF EndsCommand, MakeBucket, InitNotDone, PrintDNS, RemoveBucket, CannotRead,
       NothingDone, AwsFault, WriteState, PressAgain, s3Charges
<1>3. QED BY <1>1, <1>2

LEMMA SetsNext ==
    ASSUME S3TypeOK, AtWork, NEW u \in Users, S3Step(u)
    PROVE  S3Sets'
<1> USE DEF S3Sets
<1>0. S3Sets
    BY S3TypeParts
<1>1. CASE RunExample(u)
    <2>1. sessions \in Nat /\ sessions' = sessions + 1
        BY <1>1, Counters DEF RunExample
    <2>2. 1..sessions \subseteq 1..sessions'
        BY <2>1
    <2>3. QED BY <1>0, <1>1, <2>2 DEF RunExample, CommandNames
<1>2. CASE EndsCommand(u)
    <2>1. EndCommand(u) /\ command[u] # "off" /\ UNCHANGED <<instances, sessions>>
        BY <1>2, EndsCommandEffect
    <2>2. /\ bucket' \in {0, 1} /\ tfstate' \subseteq 1..sessions
          /\ copy' \in [Users -> SUBSET (1..sessions)]
        BY <1>0, <1>2 DEF EndsCommand, MakeBucket, InitNotDone, PrintDNS, RemoveBucket,
           CannotRead, NothingDone, AwsFault, WriteState, PressAgain
    <2>3. QED BY <1>0, <2>1, <2>2, EndCommandTypes
<1>3. CASE InitDone(u)
    <2>1. command' \in [Users -> CommandNames]
        BY <1>0, <1>3, AfterCases DEF InitDone, CommandNames, TearDown
    <2>2. tfstate' \subseteq 1..sessions /\ copy' \in [Users -> SUBSET (1..sessions)]
        BY <1>0, <1>3 DEF InitDone
    <2>3. QED BY <1>0, <1>3, <2>1, <2>2 DEF InitDone
<1>4. CASE ReadState(u)
    BY <1>0, <1>4 DEF ReadState, s3Charges
<1>5. CASE MakeInstance(u)
    BY <1>0, <1>5 DEF MakeInstance, s3Charges
<1>6. CASE DestroyInstance(u)
    BY <1>0, <1>6 DEF DestroyInstance, s3Charges
<1>7. CASE Press(u)
    BY <1>0, <1>7 DEF Press, CommandNames, TearDown
<1>8. QED
    BY <1>1, <1>2, <1>3, <1>4, <1>5, <1>6, <1>7 DEF S3Step, EndsCommand

-----------------------------------------------------------------------------
(* Of the users who start, all but the one who steps stay where they are.  *)
LEMMA StartingNext ==
    ASSUME S3TypeOK, AtWork, NEW u \in Users, S3Step(u)
    PROVE  /\ Starting' \subseteq Starting \cup {u}
           /\ ~RunExample(u) => Starting' \subseteq Starting
           /\ InitDone(u) => u \in Starting /\ Starting' \subseteq Starting \ {u}
<1>1. CASE RunExample(u)
    BY <1>1 DEF RunExample, InitDone, Starting, S3TypeOK
<1>2. CASE EndsCommand(u)
    <2>1. command' = [command EXCEPT ![u] = NextOf(u)] /\ command[u] # "off"
        BY <1>2, EndsCommandEffect, EndCommandEffect
    <2>2. NextOf(u) \in {"mb", "init"} => command[u] = "mb"
        BY <2>1, AfterCases DEF NextOf, S3TypeOK
    <2>3. ~InitDone(u) \/ NextOf(u) \notin {"mb", "init"}
        BY <2>2 DEF InitDone
    <2>4. QED BY <2>1, <2>2, <2>3 DEF Starting, S3TypeOK, InitDone
<1>3. CASE InitDone(u)
    BY <1>3, AfterCases DEF InitDone, Starting, S3TypeOK, TearDown
<1>4. CASE ReadState(u) \/ MakeInstance(u) \/ DestroyInstance(u)
    BY <1>4 DEF ReadState, MakeInstance, DestroyInstance, Starting, InitDone,
       AtTerraform
<1>5. CASE Press(u)
    BY <1>5 DEF Press, Starting, InitDone, S3TypeOK, TearDown
<1>6. QED
    BY <1>1, <1>2, <1>3, <1>4, <1>5 DEF S3Step, EndsCommand

LEMMA CountersNext ==
    ASSUME S3TypeOK, AtWork, CountsBounded, NEW u \in Users, S3Step(u)
    PROVE  S3Counters' /\ CountsBounded'
<1> USE UsersFinite, Counters DEF S3Counters, CountsBounded
<1>0. S3Counters
    BY S3TypeParts
<1>1. IsFiniteSet(Starting) /\ Cardinality(Starting) \in Nat
    BY DEF Starting
<1>2. CASE RunExample(u)
    <2>1. /\ sessions < MaxSessions /\ sessions' = sessions + 1
          /\ overlaps' \in {overlaps, overlaps + 1}
          /\ UNCHANGED <<awsFaults, aborts, presses, stale>>
        BY <1>2 DEF RunExample
    <2>2. /\ Cardinality(Starting') <= Cardinality(Starting) + 1
          /\ Cardinality(Starting') \in Nat
        BY <1>1, StartingNext, OneMore
    <2>3. QED BY <1>0, <1>1, <2>1, <2>2
<1>3. CASE InitDone(u)
    <2>1. /\ stale' \in {stale, stale + 1}
          /\ UNCHANGED <<sessions, overlaps, awsFaults, aborts, presses>>
        BY <1>3 DEF InitDone
    <2>2. /\ Cardinality(Starting') + 1 <= Cardinality(Starting)
          /\ Cardinality(Starting') \in Nat
        BY <1>1, <1>3, StartingNext, OneFewer
    <2>3. QED BY <1>0, <1>1, <2>1, <2>2
<1>4. CASE ~RunExample(u) /\ ~InitDone(u)
    <2>1. /\ Cardinality(Starting') <= Cardinality(Starting)
          /\ Cardinality(Starting') \in Nat
        BY <1>1, <1>4, StartingNext, Fewer
    <2>2. CASE AwsFault(u)
        BY <1>0, <1>1, <2>1, <2>2 DEF AwsFault
    <2>3. CASE Press(u) \/ PressAgain(u)
        BY <1>0, <1>1, <2>1, <2>3 DEF Press, PressAgain
    <2>4. CASE UNCHANGED s3Charges
        BY <1>0, <1>1, <2>1, <2>4 DEF s3Charges
    <2>5. QED
        BY <1>4, <2>2, <2>3, <2>4 DEF S3Step, MakeBucket, InitNotDone, PrintDNS,
           RemoveBucket, ReadState, CannotRead, MakeInstance, DestroyInstance,
           NothingDone, WriteState
<1>5. QED BY <1>2, <1>3, <1>4

LEMMA AtWorkNext ==
    ASSUME S3TypeOK, AtWork, NEW u \in Users, S3Step(u)
    PROVE  AtWork'
<1> USE DEF AtWork, S3TypeOK
<1>1. CASE RunExample(u)
    BY <1>1 DEF RunExample
<1>2. CASE EndsCommand(u)
    <2>1. EndCommand(u)
        BY <1>2, EndsCommandEffect
    <2>2. QED BY <2>1, EndCommandEffect
<1>3. CASE InitDone(u)
    BY <1>3 DEF InitDone
<1>4. CASE ReadState(u)
    BY <1>4 DEF ReadState, AtTerraform
<1>5. CASE MakeInstance(u) \/ DestroyInstance(u)
    BY <1>5 DEF MakeInstance, DestroyInstance
<1>6. CASE Press(u)
    BY <1>6 DEF Press
<1>7. QED BY <1>1, <1>2, <1>3, <1>4, <1>5, <1>6 DEF S3Step, EndsCommand

-----------------------------------------------------------------------------
(* Every session makes one instance at most: those that run, and those     *)
(* that the active users have yet to make, are no more than the charges,   *)
(* but for one that is safe as long as nobody passed it by.                *)
Charges == overlaps + awsFaults + aborts + stale
ToMake  == {u \in Users : \/ command[u] \in {"mb", "init"}
                          \/ command[u] = "apply" /\ terraform[u] # "changed"}
Making  == Cardinality(instances) + Cardinality(ToMake)

(* The one to spare: nobody removes the bucket, those who are past apply   *)
(* find an instance in the state, and those at work know of one.           *)
Past == {u \in Users : command[u] \in {"dns", "alive", "destroy"}}
Safe ==
    /\ \E u \in Users : command[u] # "off"
    /\ \A u \in Users : command[u] # "rb"
    /\ Past # {} => bucket = 1 /\ tfstate \cap instances # {}
    /\ \A u \in Past : inited[u] = 1
    /\ \A u \in Users : terraform[u] # "off" => bucket = 1
    /\ \A u \in Users : terraform[u] = "changed" =>
           command[u] = "apply" /\ memory[u] \cap instances # {}
    /\ \A u \in Users : command[u] = "destroy" /\ terraform[u] = "read" =>
           memory[u] \cap instances # {}

Spare == Making <= Charges \/ (Making = Charges + 1 /\ Safe)

LEMMA SetsFinite ==
    ASSUME S3TypeOK
    PROVE  IsFiniteSet(instances) /\ IsFiniteSet(ToMake) /\ Charges \in Nat /\ Making \in Nat
<1>1. IsFiniteSet(1..sessions)
    <2>1. sessions \in Int /\ 1 \in Int
        BY Counters
    <2>2. QED BY <2>1, FS_Interval
<1>2. IsFiniteSet(instances)
    BY <1>1, FS_Subset DEF S3TypeOK
<1>3. IsFiniteSet(ToMake)
    BY UsersFinite DEF ToMake
<1>4. QED BY <1>2, <1>3, Counters, FS_CardinalityType DEF Charges, Making

LEMMA ChargesNext ==
    ASSUME S3TypeOK, NEW u \in Users, S3Step(u)
    PROVE  /\ Charges' \in Nat /\ Charges' >= Charges
           /\ AwsFault(u) \/ PressAgain(u) => Charges' = Charges + 1
           /\ InitDone(u) /\ stale' # stale => Charges' = Charges + 1
<1> USE Counters DEF Charges
<1>1. CASE RunExample(u)
    BY <1>1 DEF RunExample, AwsFault, PressAgain, InitDone, S3TypeOK
<1>2. CASE InitDone(u)
    BY <1>2 DEF InitDone, AwsFault, PressAgain, S3TypeOK
<1>3. CASE AwsFault(u)
    BY <1>3 DEF InitDone, AwsFault, PressAgain, S3TypeOK
<1>4. CASE PressAgain(u)
    BY <1>4 DEF InitDone, AwsFault, PressAgain, S3TypeOK
<1>5. CASE Press(u)
    BY <1>5 DEF InitDone, AwsFault, PressAgain, Press, S3TypeOK
<1>6. CASE UNCHANGED s3Charges /\ ~AwsFault(u) /\ ~PressAgain(u)
    BY <1>6 DEF InitDone, s3Charges
<1>7. QED
    BY <1>1, <1>2, <1>3, <1>4, <1>5, <1>6 DEF S3Step, MakeBucket, InitNotDone, PrintDNS,
       RemoveBucket, ReadState, CannotRead, MakeInstance, DestroyInstance,
       NothingDone, WriteState

(* Only a new session adds to those who have yet to make an instance.      *)
LEMMA ToMakeNext ==
    ASSUME S3TypeOK, AtWork, NEW u \in Users, S3Step(u)
    PROVE  /\ RunExample(u) => ToMake' \subseteq ToMake \cup {u}
           /\ ~RunExample(u) => ToMake' \subseteq ToMake
           /\ MakeInstance(u) => u \in ToMake /\ ToMake' \subseteq ToMake \ {u}
<1> USE DEF ToMake, S3TypeOK
<1>1. CASE RunExample(u)
    BY <1>1 DEF RunExample, MakeInstance
<1>2. CASE EndsCommand(u) /\ ~MakeInstance(u)
    <2>1. /\ command' = [command EXCEPT ![u] = NextOf(u)] /\ command[u] # "off"
          /\ terraform' = [terraform EXCEPT ![u] = "off"]
        BY <1>2, EndsCommandEffect, EndCommandEffect
    <2>2. /\ NextOf(u) \in {"mb", "init"} => command[u] = "mb"
          /\ NextOf(u) = "apply" => command[u] = "init"
        BY <2>1, AfterCases DEF NextOf
    <2>3. QED BY <1>2, <2>1, <2>2
<1>3. CASE InitDone(u)
    BY <1>3 DEF InitDone, MakeInstance, TearDown
<1>4. CASE ReadState(u)
    BY <1>4 DEF ReadState, MakeInstance
<1>5. CASE MakeInstance(u)
    BY <1>5 DEF MakeInstance, RunExample
<1>6. CASE DestroyInstance(u)
    BY <1>6 DEF DestroyInstance, MakeInstance
<1>7. CASE Press(u)
    BY <1>7 DEF Press, MakeInstance, TearDown
<1>8. EndsCommand(u) => ~MakeInstance(u)
    <2>1. MakeInstance(u) => terraform'[u] = "changed"
        BY DEF MakeInstance
    <2>2. EndsCommand(u) => terraform'[u] = "off"
        BY EndsCommandEffect, EndCommandEffect
    <2>3. QED BY <2>1, <2>2
<1>9. QED
    BY <1>1, <1>2, <1>3, <1>4, <1>5, <1>6, <1>7, <1>8 DEF S3Step, EndsCommand

(* Without a new session the sum never grows.                              *)
LEMMA MakingNext ==
    ASSUME S3TypeOK, AtWork, NEW u \in Users, S3Step(u), ~RunExample(u)
    PROVE  /\ Making' \in Nat /\ Making' <= Making
           /\ u \in ToMake /\ u \notin ToMake' /\ UNCHANGED instances => Making' < Making
           /\ DestroyInstance(u) /\ memory[u] \cap instances # {} => Making' < Making
<1> USE SetsFinite, ToMakeNext DEF Making
<1>1. Cardinality(ToMake') \in Nat /\ Cardinality(ToMake) \in Nat
      /\ Cardinality(ToMake') <= Cardinality(ToMake)
    BY Fewer
<1>2. Cardinality(instances) \in Nat
    BY FS_CardinalityType
<1>3. CASE MakeInstance(u)
    <2>1. Cardinality(ToMake') + 1 <= Cardinality(ToMake)
        BY <1>3, OneFewer
    <2>2. /\ Cardinality(instances') \in Nat
          /\ Cardinality(instances') <= Cardinality(instances) + 1
        <3>1. PICK i : instances' = instances \cup {i}
            BY <1>3 DEF MakeInstance
        <3>2. QED BY <3>1, OneMore
    <2>3. u \in ToMake => ~UNCHANGED instances
        BY <1>3 DEF MakeInstance, Numbered
    <2>4. ~DestroyInstance(u)
        BY <1>3 DEF MakeInstance, DestroyInstance
    <2>5. QED BY <1>1, <1>2, <2>1, <2>2, <2>3, <2>4
<1>4. CASE DestroyInstance(u)
    <2>1. instances' = instances \ memory[u]
        BY <1>4 DEF DestroyInstance
    <2>2. /\ Cardinality(instances') \in Nat
          /\ Cardinality(instances') <= Cardinality(instances)
        BY <2>1, Fewer
    <2>3. ASSUME memory[u] \cap instances # {}
          PROVE  Cardinality(instances') + 1 <= Cardinality(instances)
        <3>1. PICK i \in instances : i \in memory[u]
            BY <2>3
        <3>2. QED BY <2>1, <3>1, OneFewer
    <2>4. ToMake' = ToMake
        BY <1>4 DEF DestroyInstance, ToMake, S3TypeOK
    <2>5. QED BY <1>1, <1>2, <2>2, <2>3, <2>4
<1>5. CASE UNCHANGED instances /\ ~DestroyInstance(u)
    <2>1. ASSUME u \in ToMake, u \notin ToMake'
          PROVE  Cardinality(ToMake') + 1 <= Cardinality(ToMake)
        BY <2>1, OneFewer
    <2>2. QED BY <1>1, <1>2, <1>5, <2>1
<1>6. QED
    BY <1>3, <1>4, <1>5, EndsCommandEffect DEF S3Step, EndsCommand, InitDone, ReadState,
       Press

(* A step that neither loses one of the sum nor is charged for keeps the   *)
(* spare instance safe.                                                    *)
Pays(u) == \/ u \in ToMake /\ u \notin ToMake' /\ UNCHANGED instances
           \/ DestroyInstance(u) /\ memory[u] \cap instances # {}
           \/ Charges' > Charges

LEMMA EndedSafe ==
    ASSUME S3TypeOK, AtWork, Safe, NEW u \in Users, EndCommand(u), command[u] # "off",
           UNCHANGED instances, bucket' = bucket \/ bucket' = 1,
           tfstate \cap instances # {} => tfstate' \cap instances # {},
           NextOf(u) # "rb",
           NextOf(u) \in {"dns", "alive", "destroy"} =>
               inited[u] = 1 /\ bucket' = 1 /\ tfstate' \cap instances # {}
    PROVE  Safe'
<1> USE DEF S3TypeOK, Safe, AtWork
<1>1. /\ command' = [command EXCEPT ![u] = NextOf(u)]
      /\ terraform' = [terraform EXCEPT ![u] = "off"]
      /\ memory' = [memory EXCEPT ![u] = {}]
    BY EndCommandEffect
<1>2. NextOf(u) # "off"
    BY AfterCases DEF NextOf
<1>3. inited' = inited
    BY <1>2, EndCommandEffect
<1>4. \A v \in Users : v # u => /\ command'[v] = command[v]
                               /\ terraform'[v] = terraform[v]
                               /\ memory'[v] = memory[v]
    BY <1>1
<1>5. command'[u] = NextOf(u) /\ terraform'[u] = "off"
    BY <1>1
<1>6. (\E v \in Users : command'[v] # "off") /\ \A v \in Users : command'[v] # "rb"
    BY <1>2, <1>4, <1>5
<1>7. \A v \in Users : v \in Past' => v = u \/ v \in Past
    BY <1>4 DEF Past
<1>8. u \in Past' => inited[u] = 1 /\ bucket' = 1 /\ tfstate' \cap instances # {}
    BY <1>5 DEF Past
<1>9. Past' # {} => bucket' = 1 /\ tfstate' \cap instances' # {}
    BY <1>7, <1>8 DEF Past
<1>10. \A v \in Past' : inited'[v] = 1
    BY <1>3, <1>7, <1>8 DEF Past
<1>11. \A v \in Users : terraform'[v] # "off" => bucket' = 1
    BY <1>4, <1>5
<1>12. \A v \in Users : terraform'[v] = "changed" =>
           command'[v] = "apply" /\ memory'[v] \cap instances' # {}
    BY <1>4, <1>5
<1>13. \A v \in Users : command'[v] = "destroy" /\ terraform'[v] = "read" =>
           memory'[v] \cap instances' # {}
    BY <1>4, <1>5
<1>14. QED BY <1>6, <1>9, <1>10, <1>11, <1>12, <1>13

(* Who passes apply by without an instance pays for it.                    *)
LEMMA PassedBy ==
    ASSUME S3TypeOK, AtWork, NEW u \in Users, EndsCommand(u), u \in ToMake,
           NextOf(u) \notin {"init", "apply"}
    PROVE  Pays(u)
<1>1. /\ UNCHANGED instances /\ command[u] # "off"
      /\ command' = [command EXCEPT ![u] = NextOf(u)]
    BY EndsCommandEffect, EndCommandEffect
<1>2. NextOf(u) # "mb"
    BY <1>1, NextOfType
<1>3. u \notin ToMake'
    BY <1>1, <1>2 DEF ToMake, S3TypeOK
<1>4. QED BY <1>1, <1>3 DEF Pays

LEMMA SafeNext ==
    ASSUME S3TypeOK, AtWork, Safe, NEW u \in Users, S3Step(u), ~RunExample(u), ~Pays(u)
    PROVE  Safe'
<1>1. CASE AwsFault(u) \/ PressAgain(u)
    <2>1. Charges' > Charges
        BY <1>1, ChargesNext, SetsFinite
    <2>2. QED BY <2>1 DEF Pays
<1>2. CASE RemoveBucket(u)
    BY <1>2 DEF RemoveBucket, Safe
<1>3. CASE MakeBucket(u)
    <2>1. u \in ToMake /\ EndsCommand(u)
        BY <1>3 DEF MakeBucket, ToMake, EndsCommand
    <2>2. NextOf(u) \in {"init", "apply"}
        BY <2>1, PassedBy
    <2>3. /\ EndCommand(u) /\ command[u] # "off" /\ UNCHANGED <<instances, tfstate>>
          /\ bucket' = bucket \/ bucket' = 1
        BY <1>3 DEF MakeBucket
    <2>4. QED BY <2>2, <2>3, EndedSafe
<1>4. CASE InitNotDone(u)
    <2>1. u \in ToMake /\ EndsCommand(u)
        BY <1>4 DEF InitNotDone, ToMake, EndsCommand
    <2>2. NextOf(u) \in {"init", "apply"}
        BY <2>1, PassedBy
    <2>3. /\ EndCommand(u) /\ command[u] # "off"
          /\ UNCHANGED <<instances, tfstate, bucket>>
        BY <1>4 DEF InitNotDone
    <2>4. QED BY <2>2, <2>3, EndedSafe
<1>5. CASE PrintDNS(u)
    <2>1. u \in Past
        BY <1>5 DEF PrintDNS, Past
    <2>2. NextOf(u) \in {"alive", "destroy"}
        BY <1>5, AfterCases DEF PrintDNS, NextOf
    <2>3. /\ EndCommand(u) /\ command[u] # "off"
          /\ UNCHANGED <<instances, tfstate, bucket>>
        BY <1>5 DEF PrintDNS
    <2>4. inited[u] = 1 /\ bucket = 1 /\ tfstate \cap instances # {}
        BY <2>1 DEF Safe
    <2>5. QED BY <2>2, <2>3, <2>4, EndedSafe
<1>6. CASE CannotRead(u)
    <2>1. EndsCommand(u)
        BY <1>6 DEF EndsCommand
    <2>2. CASE command[u] = "apply"
        <3>1. u \in ToMake
            BY <1>6, <2>2 DEF CannotRead, ToMake
        <3>2. NextOf(u) \notin {"init", "apply"}
            BY <2>2, AfterCases DEF NextOf
        <3>3. QED BY <2>1, <3>1, <3>2, PassedBy
    <2>3. CASE command[u] = "destroy"
        <3>1. u \in Past
            BY <2>3 DEF Past
        <3>2. QED BY <1>6, <3>1 DEF CannotRead, Safe
    <2>4. QED BY <1>6, <2>2, <2>3 DEF CannotRead, AtTerraform
<1>7. CASE NothingDone(u)
    <2>1. EndsCommand(u) /\ terraform[u] = "read"
        BY <1>7 DEF EndsCommand, NothingDone
    <2>2. CASE command[u] = "apply"
        <3>1. u \in ToMake
            BY <2>1, <2>2 DEF ToMake
        <3>2. NextOf(u) \notin {"init", "apply"}
            BY <2>2, AfterCases DEF NextOf
        <3>3. QED BY <2>1, <3>1, <3>2, PassedBy
    <2>3. CASE command[u] = "destroy"
        <3>1. u \in Past /\ memory[u] # {}
            BY <2>1, <2>3 DEF Past, Safe
        <3>2. ToDo(u)
            BY <2>3, <3>1 DEF ToDo
        <3>3. NextOf(u) = "destroy"
            BY <1>7, <3>2 DEF NothingDone, NextOf
        <3>4. inited[u] = 1 /\ bucket = 1 /\ tfstate \cap instances # {}
            BY <3>1 DEF Safe
        <3>5. /\ EndCommand(u) /\ command[u] # "off"
              /\ UNCHANGED <<instances, tfstate, bucket>>
            BY <1>7, <2>3 DEF NothingDone
        <3>6. QED BY <3>3, <3>4, <3>5, EndedSafe
    <2>4. QED BY <2>1, <2>2, <2>3 DEF AtWork
<1>8. CASE WriteState(u)
    <2>1. terraform[u] = "changed"
        BY <1>8 DEF WriteState
    <2>2. command[u] = "apply" /\ memory[u] \cap instances # {} /\ bucket = 1
        BY <2>1 DEF Safe
    <2>3. /\ EndCommand(u) /\ command[u] # "off" /\ tfstate' = memory[u]
          /\ UNCHANGED <<instances, bucket>>
        BY <1>8, <2>2 DEF WriteState
    <2>4. inited[u] = 1
        BY <2>1 DEF AtWork
    <2>5. NextOf(u) # "rb"
        BY <2>2, AfterCases DEF NextOf
    <2>6. QED BY <2>2, <2>3, <2>4, <2>5, EndedSafe
<1>9. CASE InitDone(u)
    <2>1. u \in ToMake
        BY <1>9 DEF InitDone, ToMake
    <2>2. u \in ToMake'
        BY <1>9, <2>1 DEF InitDone, Pays
    <2>3. command' = [command EXCEPT ![u] = "apply"]
        <3>1. Head(TearDown) = "destroy"
            BY DEF TearDown
        <3>2. \/ command' = [command EXCEPT ![u] = "apply"]
              \/ command' = [command EXCEPT ![u] = "destroy"]
            BY <1>9, <3>1, AfterCases DEF InitDone
        <3>3. command'[u] \in {"mb", "init", "apply"}
            BY <2>2 DEF ToMake
        <3>4. QED BY <3>2, <3>3 DEF S3TypeOK
    <2>4. stale' = stale
        BY <1>9, ChargesNext, SetsFinite DEF Pays
    <2>5. tfstate \cap instances # {} => tfstate' \cap instances # {}
        <3>1. CASE UNCHANGED tfstate
            BY <3>1
        <3>2. CASE tfstate' = copy[u] /\ tfstate \subseteq copy[u]
            BY <3>2
        <3>3. stale + 1 # stale
            BY Counters
        <3>4. QED BY <1>9, <2>4, <3>1, <3>2, <3>3 DEF InitDone
    <2>6. /\ UNCHANGED <<bucket, instances, terraform, memory>>
          /\ inited' = [inited EXCEPT ![u] = 1]
        BY <1>9 DEF InitDone
    <2>7. Past' = Past /\ u \notin Past
        BY <1>9, <2>3 DEF InitDone, Past, S3TypeOK
    <2>8. command[u] = "init"
        BY <1>9 DEF InitDone
    <2>9. QED BY <2>3, <2>5, <2>6, <2>7, <2>8 DEF Safe, S3TypeOK, Past
<1>10. CASE ReadState(u)
    BY <1>10 DEF ReadState, Safe, S3TypeOK, Past, AtTerraform
<1>11. CASE MakeInstance(u)
    BY <1>11 DEF MakeInstance, Safe, S3TypeOK, Past
<1>12. CASE DestroyInstance(u)
    BY <1>12 DEF DestroyInstance, Safe, Pays
<1>13. CASE Press(u)
    <2>1. \A v \in Users :
              /\ \/ command'[v] = command[v]
                 \/ command[v] = "alive" /\ command'[v] = "destroy"
              /\ terraform'[v] = terraform[v]
        BY <1>13 DEF Press, TearDown, S3TypeOK
    <2>2. UNCHANGED <<bucket, tfstate, instances, inited, memory>>
        BY <1>13 DEF Press
    <2>3. Past' = Past
        BY <2>1 DEF Past
    <2>4. \A v \in Users : command[v] = "alive" => terraform[v] = "off"
        BY DEF AtWork, S3TypeOK
    <2>5. QED BY <2>1, <2>2, <2>3, <2>4 DEF Safe
<1>14. QED
    BY <1>1, <1>2, <1>3, <1>4, <1>5, <1>6, <1>7, <1>8, <1>9, <1>10, <1>11, <1>12, <1>13
       DEF S3Step

(* A step that adds no instance leaves at most one too many.               *)
LEMMA StillOneOver ==
    ASSUME NEW m \in Nat, NEW c \in Nat, NEW n \in Nat, NEW d \in Nat,
           n <= m, m = c + 1, d >= c
    PROVE  n <= d \/ n = d + 1
OBVIOUS

(* Nor does one that adds an instance, and runs the example too.           *)
LEMMA NowOneOver ==
    ASSUME NEW m \in Nat, NEW c \in Nat, NEW n \in Nat, NEW d \in Nat,
           n <= m + 1, m <= c, d >= c
    PROVE  n <= d \/ n = d + 1
OBVIOUS

LEMMA SpareNext ==
    ASSUME S3TypeOK, AtWork, Spare, NEW u \in Users, S3Step(u)
    PROVE  Spare'
<1>1. /\ Making \in Nat /\ Charges \in Nat
      /\ Charges' \in Nat /\ Charges' >= Charges
    BY SetsFinite, ChargesNext
<1>2. CASE ~RunExample(u)
    <2>1. Making' \in Nat /\ Making' <= Making
        BY <1>2, MakingNext
    <2>2. ASSUME Pays(u) PROVE Making' < Making \/ Charges' > Charges
        <3>1. CASE u \in ToMake /\ u \notin ToMake' /\ UNCHANGED instances
            BY <1>2, <3>1, MakingNext
        <3>2. CASE DestroyInstance(u) /\ memory[u] \cap instances # {}
            BY <1>2, <3>2, MakingNext
        <3>3. QED BY <2>2, <3>1, <3>2 DEF Pays
    <2>3. CASE Making <= Charges
        <3>1. Making' <= Charges'
            BY <1>1, <2>1, <2>3
        <3>2. QED BY <3>1 DEF Spare
    <2>4. CASE Making = Charges + 1 /\ Safe /\ Pays(u)
        <3>1. Making' < Making \/ Charges' > Charges
            BY <2>2, <2>4
        <3>2. Making = Charges + 1
            BY <2>4
        <3>3. Making' <= Charges'
            BY <1>1, <2>1, <3>1, <3>2
        <3>4. QED BY <3>3 DEF Spare
    <2>5. CASE Making = Charges + 1 /\ Safe /\ ~Pays(u)
        <3>1. Safe'
            BY <1>2, <2>5, SafeNext
        <3>2. Making = Charges + 1
            BY <2>5
        <3>3. Making' <= Charges' \/ Making' = Charges' + 1
            BY <1>1, <2>1, <3>2, StillOneOver
        <3>4. QED BY <3>1, <3>3 DEF Spare
    <2>6. QED BY <2>3, <2>4, <2>5 DEF Spare
<1>3. CASE RunExample(u)
    <2>1. instances' = instances
        BY <1>3 DEF RunExample
    <2>2. Making' \in Nat /\ Making' <= Making + 1
        <3>1. IsFiniteSet(ToMake) /\ ToMake' \subseteq ToMake \cup {u}
            BY <1>3, SetsFinite, ToMakeNext
        <3>2. Cardinality(ToMake') \in Nat /\ Cardinality(ToMake) \in Nat
              /\ Cardinality(ToMake') <= Cardinality(ToMake) + 1
            BY <3>1, OneMore
        <3>3. Cardinality(instances) \in Nat
            BY SetsFinite, FS_CardinalityType
        <3>4. QED BY <2>1, <3>2, <3>3 DEF Making
    <2>3. CASE \E v \in Users : command[v] # "off"
        <3>1. Charges' = Charges + 1
            BY <1>3, <2>3, Counters DEF RunExample, Charges
        <3>2. Safe => Safe'
            BY <1>3 DEF RunExample, Safe, S3TypeOK, Past
        <3>3. /\ Making <= Charges => Making' <= Charges'
              /\ Making = Charges + 1 => Making' <= Charges' \/ Making' = Charges' + 1
            BY <1>1, <2>2, <3>1
        <3>4. QED BY <3>2, <3>3 DEF Spare
    <2>4. CASE \A v \in Users : command[v] = "off"
        <3>1. Making <= Charges
            BY <2>4 DEF Spare, Safe
        <3>2. \A v \in Users : terraform[v] = "off"
            BY <2>4 DEF AtWork, S3TypeOK
        <3>3. command' = [command EXCEPT ![u] = "mb"] /\ UNCHANGED terraform
            BY <1>3 DEF RunExample
        <3>4. Safe'
            BY <1>3, <2>4, <3>2, <3>3 DEF Safe, S3TypeOK, Past
        <3>5. Making' <= Charges' \/ Making' = Charges' + 1
            BY <1>1, <2>2, <3>1, NowOneOver
        <3>6. QED BY <3>4, <3>5 DEF Spare
    <2>5. QED BY <2>3, <2>4
<1>4. QED BY <1>2, <1>3

(* The spare instance is known, or somebody has yet to make one.           *)
LEMMA SpareIsEnough ==
    ASSUME S3TypeOK, AtWork, Spare
    PROVE  OrphansCharged
<1>1. /\ IsFiniteSet(instances) /\ IsFiniteSet(ToMake) /\ IsFiniteSet(Orphans)
      /\ Cardinality(Orphans) \in Nat /\ Cardinality(instances) \in Nat
      /\ Cardinality(ToMake) \in Nat /\ Cardinality(Orphans) <= Cardinality(instances)
    BY SetsFinite, FS_Subset, FS_CardinalityType DEF Orphans
<1>2. Charges \in Nat
    BY SetsFinite
<1>3. CASE Making <= Charges
    BY <1>1, <1>2, <1>3 DEF Making, OrphansCharged, Charges
<1>4. CASE Making = Charges + 1 /\ Safe
    <2>1. PICK u \in Users : command[u] # "off"
        BY <1>4 DEF Safe
    <2>2. CASE u \in ToMake
        <3>1. Cardinality(ToMake \ {u}) + 1 <= Cardinality(ToMake)
              /\ Cardinality(ToMake \ {u}) \in Nat
            BY <1>1, <2>2, OneFewer
        <3>2. QED BY <1>1, <1>2, <1>4, <3>1 DEF Making, OrphansCharged, Charges
    <2>3. CASE u \notin ToMake
        <3>1. Known \cap instances # {}
            <4>1. CASE u \in Past
                BY <1>4, <4>1 DEF Safe, Known
            <4>2. CASE terraform[u] = "changed"
                BY <1>4, <4>2 DEF Safe, Known
            <4>3. QED
                BY <1>4, <2>1, <2>3, <4>1, <4>2 DEF ToMake, Past, Safe, S3TypeOK
        <3>2. PICK i \in instances : i \in Known
            BY <3>1
        <3>3. Cardinality(Orphans) + 1 <= Cardinality(instances)
            BY <1>1, <3>2, OneFewer DEF Orphans
        <3>4. QED BY <1>1, <1>2, <1>4, <3>3 DEF Making, OrphansCharged, Charges
    <2>4. QED BY <2>2, <2>3
<1>5. QED BY <1>3, <1>4 DEF Spare

S3Inv == S3TypeOK /\ CountsBounded /\ AtWork /\ Spare

LEMMA S3InvInit == S3Init => S3Inv
<1> SUFFICES ASSUME S3Init PROVE S3Inv
    OBVIOUS
<1>1. S3TypeOK /\ AtWork
    BY UsersFinite DEF S3Init, S3TypeOK, AtWork
<1>2. Starting = {} /\ ToMake = {}
    BY DEF S3Init, Starting, ToMake
<1>3. CountsBounded /\ Spare
    BY <1>2, FS_EmptySet DEF S3Init, CountsBounded, Spare, Making, Charges
<1>4. QED BY <1>1, <1>3 DEF S3Inv

LEMMA S3InvNext ==
    ASSUME S3Inv, S3Next \/ UNCHANGED s3Vars
    PROVE  S3Inv'
<1>1. ASSUME NEW u \in Users, S3Step(u) PROVE S3Inv'
    <2>1. S3TypeOK'
        BY <1>1, SetsNext, CountersNext, S3TypeParts, PTL DEF S3Inv
    <2>2. QED BY <1>1, <2>1, CountersNext, AtWorkNext, SpareNext DEF S3Inv
<1>2. CASE UNCHANGED s3Vars
    BY <1>2 DEF s3Vars, s3Charges, S3Inv, S3TypeOK, CountsBounded, Starting, AtWork,
       Spare, Making, ToMake, Charges, Safe, Past
<1>3. QED BY <1>1, <1>2 DEF S3Next

-----------------------------------------------------------------------------
(* The programs together: each keeps its own invariant, run or not.        *)
ProgramsInv == program \in Programs /\ BodyInv /\ FibbInv /\ KubeInv /\ S3Inv

LEMMA ProgramsInvInit == ProgramsInit => ProgramsInv
  BY BodyInvInit, FibbInvInit, KubeInvInit, S3InvInit DEF ProgramsInit, ProgramsInv

LEMMA ProgramsInvNext == ProgramsInv /\ [ProgramsNext]_programVars => ProgramsInv'
<1> SUFFICES ASSUME ProgramsInv, [ProgramsNext]_programVars PROVE ProgramsInv'
    OBVIOUS
<1>1. /\ program' = program
      /\ BodyNext \/ UNCHANGED bodyVars
      /\ FibbNext \/ UNCHANGED fibbVars
      /\ KubeNext \/ UNCHANGED kubeVars
      /\ S3Next \/ UNCHANGED s3Vars
    BY DEF ProgramsNext, RunBodyFilter, RunFibb, RunKubeClients, RunS3Backend,
       programVars
<1>2. BodyInv' /\ FibbInv' /\ KubeInv' /\ S3Inv'
    BY <1>1, BodyInvNext, FibbInvNext, KubeInvNext, S3InvNext DEF ProgramsInv
<1>3. QED BY <1>1, <1>2 DEF ProgramsInv

LEMMA ProgramsAlways == ProgramsSpec => []ProgramsInv
  BY ProgramsInvInit, ProgramsInvNext, PTL DEF ProgramsSpec

(* Type correctness of the four example programs, for any width of an int, *)
(* any bodies, and any number of users, requests, faults and outages.      *)
THEOREM ProgramsTypeCorrect == ProgramsSpec => []ProgramsTypeOK
<1>1. ProgramsInv => ProgramsTypeOK
    BY DEF ProgramsInv, ProgramsTypeOK, BodyInv, FibbInv, KubeInv, S3Inv
<1>2. QED BY <1>1, ProgramsAlways, PTL

(* The filter prints, and the service gets, all of a body or nothing of    *)
(* it, and an unprinted body has a failed call of the host behind it.      *)
THEOREM BodiesAccountedFor == ProgramsSpec => []BodyAccounted
<1>1. ProgramsInv => BodyAccounted
    BY BodyInvAccounts DEF ProgramsInv
<1>2. QED BY <1>1, ProgramsAlways, PTL

(* The result in terraform's state is the Fibonacci number of the n next   *)
(* to it, cut to an int, whatever was applied, refused or interrupted.     *)
THEOREM StateHoldsResultOfN == ProgramsSpec => []ResultOfN
<1>1. ProgramsInv => ResultOfN
    BY DEF ProgramsInv, FibbInv
<1>2. QED BY <1>1, ProgramsAlways, PTL

(* The pods stay unlisted only if the server has left a client it had let  *)
(* in, and another config than the patched one is shown only after an      *)
(* apply between the calls.                                                *)
THEOREM KubeOutcomesHaveCauses == ProgramsSpec => []OutcomesHaveCauses
<1>1. ProgramsInv => OutcomesHaveCauses
    BY DEF ProgramsInv, KubeInv
<1>2. QED BY <1>1, ProgramsAlways, PTL

(* No more instances are orphaned than there were overlapping sessions,    *)
(* failures of AWS, commands broken off and stale states put back.         *)
THEOREM EveryOrphanCharged == ProgramsSpec => []OrphansCharged
<1>1. ProgramsInv => OrphansCharged
    BY SpareIsEnough DEF ProgramsInv, S3Inv
<1>2. QED BY <1>1, ProgramsAlways, PTL

=============================================================================
