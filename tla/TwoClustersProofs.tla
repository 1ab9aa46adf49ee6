-------------------------- MODULE TwoClustersProofs --------------------------
(***************************************************************************)
(* For any cities, partners, latencies, timeout and pause: the type        *)
(* invariant, and the bound on the handlers at work for one talker.        *)
(***************************************************************************)
EXTENDS TwoClusters, SequenceTheorems, TLAPS

(* The least time between two requests of a talker that are not answered.  *)
Round == Timeout + Pause
Rounds(k) == k * Round

(* Handlers that leave `max' seconds at most to work, the last one asked   *)
(* `age' seconds ago at least, and each of the others a round before the   *)
(* one that follows it.                                                    *)
Paced(handlers, age, max) ==
    \A i \in 1..Len(handlers) :
        handlers[i] + age + Rounds(Len(handlers) - i) <= max

LEMMA Times ==
    /\ Timeout \in Nat /\ Timeout > 0 /\ Pause \in Nat /\ Pause > 0
    /\ Round \in Nat /\ Round > 0
    /\ \A c \in Cities : MaxLatency[c] \in Nat /\ Latencies(c) \subseteq 0..MaxLatency[c]
  BY TimesAssumption, LatencyAssumption DEF Round, Latencies

LEMMA OneRoundMore ==
    ASSUME NEW k \in Int
    PROVE  /\ Rounds(k) \in Int /\ Rounds(0) = 0
           /\ Rounds(k + 1) = Rounds(k) + Round /\ Rounds(k + 1) \in Int
  BY Times DEF Rounds

LEMMA PacedYounger ==
    ASSUME NEW max \in Nat, NEW s \in Seq(0..max), NEW a \in Nat, NEW b \in Nat,
           b <= a, Paced(s, a, max)
    PROVE  Paced(s, b, max)
<1> SUFFICES ASSUME NEW i \in 1..Len(s)
             PROVE  s[i] + b + Rounds(Len(s) - i) <= max
    BY DEF Paced
<1>1. Len(s) \in Nat /\ s[i] \in Nat /\ s[i] + a + Rounds(Len(s) - i) <= max
    BY LenProperties, ElementOfSeq DEF Paced
<1>2. Rounds(Len(s) - i) \in Int
    BY <1>1, OneRoundMore
<1>3. QED BY <1>1, <1>2

(* A request a round after the last one.                                   *)
LEMMA PacedAppend ==
    ASSUME NEW max \in Nat, NEW s \in Seq(0..max), NEW x \in 0..max,
           Paced(s, Round, max)
    PROVE  Append(s, x) \in Seq(0..max) /\ Paced(Append(s, x), 0, max)
<1> DEFINE t == Append(s, x)
<1>1. /\ t \in Seq(0..max) /\ Len(s) \in Nat /\ Len(t) = Len(s) + 1
      /\ t[Len(s) + 1] = x /\ \A i \in 1..Len(s) : t[i] = s[i]
    BY LenProperties
<1> HIDE DEF t
<1>2. SUFFICES ASSUME NEW i \in 1..Len(t)
               PROVE  t[i] + 0 + Rounds(Len(t) - i) <= max
    BY <1>1 DEF Paced, t
<1>3. CASE i = Len(s) + 1
    <2>1. Len(t) - i = 0
        BY <1>1, <1>3
    <2>2. Rounds(Len(t) - i) = 0
        BY <2>1, OneRoundMore
    <2>3. QED BY <1>1, <1>3, <2>2
<1>4. CASE i \in 1..Len(s)
    <2>1. s[i] \in Nat /\ s[i] + Round + Rounds(Len(s) - i) <= max /\ t[i] = s[i]
        BY <1>1, <1>4, ElementOfSeq DEF Paced
    <2>2. Len(s) - i \in Int /\ Len(t) - i = (Len(s) - i) + 1
        BY <1>1, <1>4
    <2>3. Rounds(Len(t) - i) = Rounds(Len(s) - i) + Round
          /\ Rounds(Len(s) - i) \in Int
        BY <2>2, OneRoundMore
    <2>4. QED BY <2>1, <2>3, Times
<1>5. QED BY <1>1, <1>3, <1>4

LEMMA RemoveOne ==
    ASSUME NEW S, NEW s \in Seq(S), NEW j \in 1..Len(s)
    PROVE  LET r == SubSeq(s, 1, j - 1) \o SubSeq(s, j + 1, Len(s)) IN
           /\ r \in Seq(S) /\ Len(r) = Len(s) - 1
           /\ \A i \in 1..(Len(s) - 1) : r[i] = IF i < j THEN s[i] ELSE s[i + 1]
<1> DEFINE u == SubSeq(s, 1, j - 1)
<1> DEFINE v == SubSeq(s, j + 1, Len(s))
<1>1. Len(s) \in Nat /\ \A i \in 1..Len(s) : s[i] \in S
    BY LenProperties, ElementOfSeq
<1>2. /\ u \in Seq(S) /\ Len(u) = j - 1
      /\ \A i \in 1..(j - 1) : u[i] = s[i]
    <2>1. \A i \in 1..(j - 1) : s[i] \in S
        BY <1>1
    <2>2. QED BY <1>1, <2>1, SubSeqProperties
<1>3. /\ v \in Seq(S) /\ Len(v) = Len(s) - j
      /\ \A i \in 1..(Len(s) - j) : v[i] = s[j + i]
    <2>1. \A i \in (j + 1)..Len(s) : s[i] \in S
        BY <1>1
    <2>2. /\ v \in Seq(S) /\ Len(v) = IF j + 1 <= Len(s) THEN Len(s) - (j + 1) + 1 ELSE 0
          /\ \A i \in 1..(Len(s) - (j + 1) + 1) : v[i] = s[(j + 1) + i - 1]
        BY <1>1, <2>1, SubSeqProperties
    <2> HIDE DEF v
    <2>3. QED BY <1>1, <2>2
<1> HIDE DEF u, v
<1>4. /\ u \o v \in Seq(S) /\ Len(u \o v) = Len(u) + Len(v)
      /\ \A i \in 1..(Len(u) + Len(v)) : (u \o v)[i] = IF i <= Len(u) THEN u[i]
                                                       ELSE v[i - Len(u)]
    BY <1>2, <1>3, ConcatProperties
<1>5. Len(u) + Len(v) = Len(s) - 1
    BY <1>1, <1>2, <1>3
<1>6. ASSUME NEW i \in 1..(Len(s) - 1)
      PROVE  (u \o v)[i] = IF i < j THEN s[i] ELSE s[i + 1]
    <2>1. CASE i < j
        BY <1>1, <1>2, <1>4, <1>5, <2>1
    <2>2. CASE ~ (i < j)
        <3>1. (u \o v)[i] = v[i - (j - 1)] /\ i - (j - 1) \in 1..(Len(s) - j)
            BY <1>1, <1>2, <1>4, <1>5, <2>2
        <3>2. v[i - (j - 1)] = s[j + (i - (j - 1))] /\ j + (i - (j - 1)) = i + 1
            BY <1>1, <1>3, <3>1
        <3>3. QED BY <2>2, <3>1, <3>2
    <2>3. QED BY <2>1, <2>2
<1>7. QED BY <1>4, <1>5, <1>6 DEF u, v

(* Handlers of no use end; the others are as they were.                    *)
LEMMA PacedRemove ==
    ASSUME NEW max \in Nat, NEW s \in Seq(0..max), NEW a \in Nat, Paced(s, a, max),
           NEW j \in 1..Len(s)
    PROVE  LET r == SubSeq(s, 1, j - 1) \o SubSeq(s, j + 1, Len(s)) IN
           r \in Seq(0..max) /\ Len(r) = Len(s) - 1 /\ Paced(r, a, max)
<1> DEFINE r == SubSeq(s, 1, j - 1) \o SubSeq(s, j + 1, Len(s))
<1>1. /\ r \in Seq(0..max) /\ Len(r) = Len(s) - 1 /\ Len(s) \in Nat
      /\ \A i \in 1..(Len(s) - 1) : r[i] = IF i < j THEN s[i] ELSE s[i + 1]
    BY RemoveOne, LenProperties
<1> HIDE DEF r
<1>2. ASSUME NEW i \in 1..Len(r) PROVE r[i] + a + Rounds(Len(r) - i) <= max
    <2>1. i \in 1..(Len(s) - 1) /\ i \in 1..Len(s) /\ i + 1 \in 1..Len(s)
        BY <1>1
    <2>2. /\ s[i] \in Nat /\ s[i + 1] \in Nat
        BY <2>1, ElementOfSeq
    <2>3. s[i] + a + Rounds(Len(s) - i) <= max
        BY <2>1 DEF Paced
    <2>4. s[i + 1] + a + Rounds(Len(s) - (i + 1)) <= max
        BY <2>1 DEF Paced
    <2>5. Len(r) - i \in Int /\ Len(s) - i = (Len(r) - i) + 1
          /\ Len(s) - (i + 1) = Len(r) - i
        BY <1>1, <2>1
    <2>6. Rounds(Len(s) - i) = Rounds(Len(r) - i) + Round
          /\ Rounds(Len(r) - i) \in Int
        BY <2>5, OneRoundMore
    <2>7. CASE i < j
        <3>1. r[i] = s[i]
            BY <1>1, <2>1, <2>7
        <3>2. QED BY <2>2, <2>6, <2>3, <3>1, Times
    <2>8. CASE ~ (i < j)
        <3>1. r[i] = s[i + 1]
            BY <1>1, <2>1, <2>8
        <3>2. QED BY <2>2, <2>5, <2>4, <3>1
    <2>9. QED BY <2>7, <2>8
<1>3. QED BY <1>1, <1>2 DEF Paced, r

(* The last one answers: the one before it was asked a round earlier.      *)
LEMMA PacedDropLast ==
    ASSUME NEW max \in Nat, NEW s \in Seq(0..max), s # <<>>, Paced(s, 0, max)
    PROVE  LET r == SubSeq(s, 1, Len(s) - 1) IN
           r \in Seq(0..max) /\ Paced(r, Timeout, max)
<1> DEFINE r == SubSeq(s, 1, Len(s) - 1)
<1>1. /\ r \in Seq(0..max) /\ Len(s) \in Nat \ {0} /\ Len(r) = Len(s) - 1
      /\ \A i \in 1..(Len(s) - 1) : r[i] = s[i]
    <2>1. Len(s) \in Nat \ {0} /\ \A i \in 1..(Len(s) - 1) : s[i] \in 0..max
        BY EmptySeq, ElementOfSeq
    <2>2. /\ r \in Seq(0..max)
          /\ Len(r) = IF 1 <= Len(s) - 1 THEN (Len(s) - 1) - 1 + 1 ELSE 0
          /\ \A i \in 1..((Len(s) - 1) - 1 + 1) : r[i] = s[1 + i - 1]
        BY <2>1, SubSeqProperties
    <2> HIDE DEF r
    <2>3. Len(r) = Len(s) - 1
        <3>1. Len(s) \in Nat /\ Len(s) >= 1
            BY <2>1
        <3>2. Len(r) = IF 1 <= Len(s) - 1 THEN (Len(s) - 1) - 1 + 1 ELSE 0
            BY <2>2
        <3>3. QED BY <3>1, <3>2
    <2>4. ASSUME NEW i \in 1..(Len(s) - 1) PROVE r[i] = s[i]
        <3>1. i \in 1..((Len(s) - 1) - 1 + 1) /\ 1 + i - 1 = i
            BY <2>1
        <3>2. QED BY <2>2, <3>1
    <2>5. QED BY <2>1, <2>2, <2>3, <2>4
<1> HIDE DEF r
<1>2. ASSUME NEW i \in 1..Len(r) PROVE r[i] + Timeout + Rounds(Len(r) - i) <= max
    <2>1. i \in 1..(Len(s) - 1) /\ i \in 1..Len(s)
        BY <1>1
    <2>2. s[i] \in Nat /\ s[i] + 0 + Rounds(Len(s) - i) <= max /\ r[i] = s[i]
        BY <1>1, <2>1, ElementOfSeq DEF Paced
    <2>3. Len(r) - i \in Int /\ Len(s) - i = (Len(r) - i) + 1
        BY <1>1, <2>1
    <2>4. Rounds(Len(s) - i) = Rounds(Len(r) - i) + Round
          /\ Rounds(Len(r) - i) \in Int
        BY <2>3, OneRoundMore
    <2>5. QED BY <2>2, <2>4, Times DEF Round
<1>3. QED BY <1>1, <1>2 DEF Paced, r

(* A second passes.                                                        *)
LEMMA PacedTick ==
    ASSUME NEW max \in Nat, NEW s \in Seq(0..max), NEW a \in Nat, NEW b \in Nat,
           b <= a + 1, Paced(s, a, max), \A i \in 1..Len(s) : s[i] # 0
    PROVE  LET r == [i \in DOMAIN s |-> s[i] - 1] IN
           r \in Seq(0..max) /\ Len(r) = Len(s) /\ Paced(r, b, max)
<1> DEFINE r == [i \in DOMAIN s |-> s[i] - 1]
<1>1. Len(s) \in Nat /\ DOMAIN s = 1..Len(s) /\ \A i \in 1..Len(s) : s[i] \in 0..max
    BY LenProperties, ElementOfSeq
<1>2. \A i \in 1..Len(s) : s[i] - 1 \in 0..max
    BY <1>1
<1>3. r \in [1..Len(s) -> 0..max]
    BY <1>1, <1>2
<1>4. r \in Seq(0..max) /\ Len(r) = Len(s) /\ \A i \in 1..Len(s) : r[i] = s[i] - 1
    BY <1>1, <1>3
<1> HIDE DEF r
<1>5. ASSUME NEW i \in 1..Len(r) PROVE r[i] + b + Rounds(Len(r) - i) <= max
    <2>1. i \in 1..Len(s) /\ r[i] = s[i] - 1 /\ s[i] \in Nat /\ Len(s) - i \in Int
        BY <1>1, <1>4
    <2>2. s[i] + a + Rounds(Len(s) - i) <= max /\ Rounds(Len(s) - i) \in Int
        BY <2>1, OneRoundMore DEF Paced
    <2>3. r[i] \in Int /\ r[i] + b <= s[i] + a /\ Len(r) - i = Len(s) - i
        BY <1>4, <2>1
    <2>4. s[i] + a + Rounds(Len(r) - i) <= max /\ Rounds(Len(r) - i) \in Int
        BY <2>2, <2>3
    <2> DEFINE rest == Rounds(Len(r) - i)
    <2> HIDE DEF rest
    <2>5. s[i] + a + rest <= max /\ rest \in Int
        BY <2>4 DEF rest
    <2>6. r[i] + b + rest <= max
        BY <2>1, <2>3, <2>5
    <2>7. QED BY <2>6 DEF rest
<1>6. QED BY <1>4, <1>5 DEF Paced, r

(* So the first of them was asked Len - 1 rounds ago.                      *)
LEMMA PacedBound ==
    ASSUME NEW max \in Nat, NEW s \in Seq(0..max), NEW a \in Nat, Paced(s, a, max)
    PROVE  Len(s) <= 1 + max \div Round
<1>1. Len(s) \in Nat
    BY LenProperties
<1>2. max \div Round \in Nat
    BY Times
<1>3. CASE Len(s) = 0
    BY <1>2, <1>3
<1>4. CASE Len(s) # 0
    <2>1. 1 \in 1..Len(s)
        BY <1>1, <1>4
    <2>2. s[1] \in Nat /\ s[1] + a + Rounds(Len(s) - 1) <= max
        BY <2>1, ElementOfSeq DEF Paced
    <2>3. Len(s) - 1 \in Nat /\ Len(s) - 1 \in Int
        BY <1>1, <1>4
    <2>4. Rounds(Len(s) - 1) <= max
        <3>1. Rounds(Len(s) - 1) \in Int
            BY <2>3, OneRoundMore
        <3>2. QED BY <2>2, <3>1
    <2> DEFINE k == Len(s) - 1
    <2> DEFINE q == max \div Round
    <2>5. max < Rounds(q + 1)
        BY Times DEF Rounds
    <2>6. k \in Nat /\ q \in Nat
        BY <1>2, <2>3
    <2> HIDE DEF k, q
    <2>7. k < q + 1
        <3>1. SUFFICES ASSUME k >= q + 1 PROVE FALSE
            BY <2>6
        <3>2. Rounds(k) >= Rounds(q + 1)
            BY <2>6, <3>1, Times DEF Rounds
        <3>3. Rounds(k) <= max
            BY <2>4 DEF k
        <3>4. k \in Int /\ q \in Int
            BY <2>6
        <3>5. Rounds(k) \in Int /\ Rounds(q + 1) \in Int
            BY <3>4, OneRoundMore
        <3>6. QED BY <2>5, <3>2, <3>3, <3>5
    <2>8. QED BY <1>1, <2>6, <2>7 DEF k, q
<1>5. QED BY <1>3, <1>4

-----------------------------------------------------------------------------
(* How long ago, at least, the last handler at work for c was asked.       *)
SinceAsked(c) == CASE talker[c] = "ask"   -> clock[c]
                   [] talker[c] = "pause" -> Timeout + clock[c]
                   [] OTHER               -> 0

(* What holds of each city, and is kept by its steps and by time.          *)
Timely(c) ==
    /\ work[c] \in Seq(0..MaxLatency[c])
    /\ clock[c] \in Nat
    /\ talker[c] = "pause" => clock[c] <= Pause
    /\ talker[c] = "ask" => clock[c] <= Timeout /\ work[c] # <<>>
    /\ talker[c] = "none" => work[c] = <<>> /\ clock[c] = 0
    /\ Paced(work[c], SinceAsked(c), MaxLatency[c])

(* A talker begins when app.py is loaded.                                  *)
Places ==
    /\ envoy \in {0, 1}
    /\ app \in [Cities -> {"none", "loading", "loaded", "serving"}]
    /\ talker \in [Cities -> {"none", "pause", "ask", "dead"}]
    /\ printed \in [Cities -> {0, 1}]
    /\ \A c \in Cities : app[c] \in {"none", "loading"} => talker[c] = "none"

(* The domains, which the steps of one city rest on.                       *)
Functions == /\ clock = [c \in Cities |-> clock[c]]
             /\ work = [c \in Cities |-> work[c]]

CitiesInv == Places /\ Functions /\ \A c \in Cities : Timely(c)

LEMMA TimelySince ==
    ASSUME NEW c \in Cities, Timely(c)
    PROVE  /\ SinceAsked(c) \in Nat
           /\ talker[c] = "ask" => SinceAsked(c) = clock[c]
           /\ talker[c] = "pause" => SinceAsked(c) = Timeout + clock[c]
           /\ talker[c] \in {"none", "dead"} => SinceAsked(c) = 0
<1>1. clock[c] \in Nat /\ Timeout + clock[c] \in Nat
    BY Times DEF Timely
<1>2. QED BY <1>1 DEF SinceAsked

(* A step of c leaves the other cities alone.                              *)
LEMMA Elsewhere ==
    ASSUME Places, Functions, NEW c \in Cities, BootStep(c) \/ TalkStep(c),
           NEW d \in Cities, d # c, Timely(d)
    PROVE  Timely(d)'
<1>1. talker'[d] = talker[d] /\ clock'[d] = clock[d] /\ work'[d] = work[d]
    <2>1. CASE BootStep(c)
        BY <2>1 DEF BootStep, RunCity, LoadApp, Serve, Places
    <2>2. CASE TalkStep(c)
        BY <2>2 DEF TalkStep, Die, Ask, Unavailable, Answer, TimeOut, Discard, PrintLine,
           Places, Functions
    <2>3. QED BY <2>1, <2>2
<1>2. SinceAsked(d)' = SinceAsked(d)
    BY <1>1 DEF SinceAsked
<1>3. QED BY <1>1, <1>2 DEF Timely

LEMMA PlacesNext ==
    ASSUME CitiesInv, Next
    PROVE  Places'
<1> USE DEF CitiesInv, Places
<1>1. ASSUME NEW c \in Cities, BootStep(c) PROVE Places'
    BY <1>1 DEF BootStep, RunCity, LoadApp, Serve
<1>2. ASSUME NEW c \in Cities, TalkStep(c) PROVE Places'
    BY <1>2 DEF TalkStep, Slept, Die, Ask, Unavailable, Answer, TimeOut, Discard, PrintLine
<1>3. CASE RunEnvoy
    BY <1>3 DEF RunEnvoy
<1>4. CASE Tick
    BY <1>4 DEF Tick
<1>5. QED BY <1>1, <1>2, <1>3, <1>4 DEF Next

LEMMA FunctionsNext ==
    ASSUME CitiesInv, Next
    PROVE  Functions'
<1> USE DEF CitiesInv, Functions
<1>1. ASSUME NEW c \in Cities, BootStep(c) PROVE Functions'
    BY <1>1 DEF BootStep, RunCity, LoadApp, Serve
<1>2. ASSUME NEW c \in Cities, TalkStep(c) PROVE Functions'
    BY <1>2 DEF TalkStep, Die, Ask, Unavailable, Answer, TimeOut, Discard, PrintLine
<1>3. CASE RunEnvoy
    BY <1>3 DEF RunEnvoy
<1>4. CASE Tick
    BY <1>4 DEF Tick
<1>5. QED BY <1>1, <1>2, <1>3, <1>4 DEF Next

(* Booting: a talker begins with no handler at work for it.                *)
LEMMA BootTimely ==
    ASSUME CitiesInv, NEW c \in Cities, BootStep(c)
    PROVE  Timely(c)'
<1>1. CASE RunCity(c) \/ Serve(c)
    BY <1>1 DEF RunCity, Serve, CitiesInv, Timely, SinceAsked
<1>2. CASE LoadApp(c)
    <2>1. /\ work[c] = <<>> /\ clock[c] = 0 /\ talker'[c] = "pause"
          /\ work' = work /\ clock' = clock
        BY <1>2 DEF LoadApp, CitiesInv, Places, Timely
    <2>2. 0 <= Pause /\ 0 \in Nat
        BY Times
    <2>3. Paced(work'[c], SinceAsked(c)', MaxLatency[c])
        BY <2>1 DEF Paced
    <2>4. work'[c] \in Seq(0..MaxLatency[c])
        BY <2>1, EmptySeq
    <2>5. QED BY <2>1, <2>2, <2>3, <2>4 DEF Timely
<1>3. QED BY <1>1, <1>2 DEF BootStep

(* The talker of c prints a line after what it was doing.                  *)
LEMMA PrintTimely ==
    ASSUME Places, Functions, NEW c \in Cities, PrintLine(c),
           work'[c] \in Seq(0..MaxLatency[c]),
           Paced(work'[c], Timeout, MaxLatency[c])
    PROVE  Timely(c)'
<1>1. talker'[c] = "pause" /\ clock'[c] = 0
    BY DEF PrintLine, Places, Functions
<1>2. SinceAsked(c)' = Timeout + 0
    BY <1>1 DEF SinceAsked
<1>3. SinceAsked(c)' = Timeout /\ 0 <= Pause /\ 0 \in Nat
    BY <1>2, Times
<1>4. QED BY <1>1, <1>3 DEF Timely

LEMMA TalkTimely ==
    ASSUME CitiesInv, NEW c \in Cities, TalkStep(c)
    PROVE  Timely(c)'
<1> DEFINE max == MaxLatency[c]
<1> USE DEF CitiesInv
<1>1. /\ Timely(c) /\ max \in Nat /\ work[c] \in Seq(0..max) /\ clock[c] \in Nat
      /\ Paced(work[c], SinceAsked(c), max)
      /\ SinceAsked(c) \in Nat
      /\ talker[c] = "ask" => SinceAsked(c) = clock[c]
      /\ talker[c] = "pause" => SinceAsked(c) = Timeout + clock[c]
    BY Times, TimelySince DEF Timely
<1> HIDE DEF max
<1>2. ASSUME Slept(c) PROVE SinceAsked(c) = Round
    BY <1>1, <1>2 DEF Slept, Round
<1>3. CASE Die(c)
    <2>1. talker'[c] = "dead" /\ clock'[c] = 0 /\ work'[c] = work[c]
        BY <1>3 DEF Die, Places, Functions
    <2>2. Paced(work[c], 0, max)
        <3>1. 0 \in Nat /\ 0 <= SinceAsked(c)
            BY <1>1
        <3>2. QED BY <1>1, <3>1, PacedYounger
    <2>3. SinceAsked(c)' = 0
        BY <2>1 DEF SinceAsked
    <2>4. QED BY <1>1, <2>1, <2>2, <2>3 DEF Timely, max
<1>4. CASE Ask(c)
    <2>1. PICK seconds \in 0..max : work'[c] = Append(work[c], seconds)
        BY <1>4, Times DEF Ask, Functions, max
    <2>2. talker'[c] = "ask" /\ clock'[c] = 0
        BY <1>4 DEF Ask, Places, Functions
    <2>3. Paced(work[c], Round, max)
        BY <1>1, <1>2, <1>4 DEF Ask
    <2>4. work'[c] \in Seq(0..max) /\ Paced(work'[c], 0, max)
        BY <1>1, <2>1, <2>3, PacedAppend
    <2>5. work'[c] # <<>>
        BY <1>1, <2>1
    <2>6. SinceAsked(c)' = 0 /\ 0 \in Nat /\ 0 <= Timeout
        BY <2>2, Times DEF SinceAsked
    <2>7. QED BY <2>2, <2>4, <2>5, <2>6 DEF Timely, max
<1>5. CASE Unavailable(c)
    <2>1. Timeout \in Nat /\ Timeout <= SinceAsked(c) /\ work'[c] = work[c]
        BY <1>1, <1>2, <1>5, Times DEF Unavailable, Round
    <2>2. Paced(work'[c], Timeout, max)
        BY <1>1, <2>1, PacedYounger
    <2>3. QED BY <1>1, <1>5, <2>1, <2>2, PrintTimely DEF Unavailable, max
<1>6. CASE Answer(c)
    <2>1. /\ work'[c] = SubSeq(work[c], 1, Len(work[c]) - 1) /\ PrintLine(c)
          /\ work[c] # <<>>
        BY <1>1, <1>6 DEF Answer, Functions, Timely
    <2>2. Paced(work[c], 0, max)
        <3>1. 0 \in Nat /\ 0 <= SinceAsked(c)
            BY <1>1
        <3>2. QED BY <1>1, <3>1, PacedYounger
    <2>3. work'[c] \in Seq(0..max) /\ Paced(work'[c], Timeout, max)
        BY <1>1, <2>1, <2>2, PacedDropLast
    <2>4. QED BY <2>1, <2>3, PrintTimely DEF max
<1>7. CASE TimeOut(c)
    <2>1. SinceAsked(c) = Timeout /\ work'[c] = work[c] /\ PrintLine(c)
        BY <1>1, <1>7 DEF TimeOut
    <2>2. QED BY <1>1, <2>1, PrintTimely DEF max
<1>8. CASE Discard(c)
    <2>1. PICK i \in DOMAIN work[c] \ Awaited(c) :
              work' = [work EXCEPT ![c] =
                          SubSeq(@, 1, i - 1) \o SubSeq(@, i + 1, Len(@))]
        BY <1>8 DEF Discard
    <2>2. i \in 1..Len(work[c]) /\ Len(work[c]) \in Nat
          /\ talker[c] = "ask" => i # Len(work[c])
        BY <1>1, <2>1, LenProperties DEF Awaited
    <2>3. work'[c] = SubSeq(work[c], 1, i - 1) \o SubSeq(work[c], i + 1, Len(work[c]))
        BY <2>1 DEF Functions
    <2>4. /\ work'[c] \in Seq(0..max) /\ Len(work'[c]) = Len(work[c]) - 1
          /\ Paced(work'[c], SinceAsked(c), max)
        <3> DEFINE s == work[c]
        <3> HIDE DEF s
        <3>1. s \in Seq(0..max) /\ i \in 1..Len(s) /\ Paced(s, SinceAsked(c), max)
            BY <1>1, <2>2 DEF s
        <3>2. LET r == SubSeq(s, 1, i - 1) \o SubSeq(s, i + 1, Len(s)) IN
              /\ r \in Seq(0..max) /\ Len(r) = Len(s) - 1
              /\ Paced(r, SinceAsked(c), max)
            BY <1>1, <3>1, PacedRemove
        <3>3. QED BY <2>3, <3>2 DEF s
    <2>5. talker' = talker /\ clock' = clock /\ SinceAsked(c)' = SinceAsked(c)
        BY <1>8 DEF Discard, SinceAsked
    <2>6. talker[c] = "ask" => work'[c] # <<>>
        <3>1. SUFFICES ASSUME talker[c] = "ask", work'[c] = <<>> PROVE FALSE
            OBVIOUS
        <3>2. Len(work[c]) \in Nat /\ Len(work[c]) >= 2
            BY <2>2, <3>1
        <3>3. Len(work'[c]) = Len(work[c]) - 1 /\ Len(work'[c]) = 0
            BY <2>4, <3>1, EmptySeq
        <3>4. QED BY <3>2, <3>3
    <2>7. talker[c] # "none"
        <3>1. SUFFICES ASSUME talker[c] = "none" PROVE FALSE
            OBVIOUS
        <3>2. Len(work[c]) = 0
            BY <1>1, <3>1, EmptySeq DEF Timely
        <3>3. QED BY <2>2, <3>2
    <2>8. QED BY <1>1, <2>4, <2>5, <2>6, <2>7 DEF Timely, max
<1>9. QED BY <1>3, <1>4, <1>5, <1>6, <1>7, <1>8 DEF TalkStep

(* Time goes on when nothing is due.                                       *)
LEMMA TickTimely ==
    ASSUME CitiesInv, Tick, NEW c \in Cities
    PROVE  Timely(c)'
<1> DEFINE max == MaxLatency[c]
<1> USE DEF CitiesInv
<1>1. /\ Timely(c) /\ max \in Nat /\ work[c] \in Seq(0..max) /\ clock[c] \in Nat
      /\ Paced(work[c], SinceAsked(c), max)
      /\ SinceAsked(c) \in Nat
      /\ talker[c] = "ask" => SinceAsked(c) = clock[c]
      /\ talker[c] = "pause" => SinceAsked(c) = Timeout + clock[c]
      /\ talker[c] \in {"none", "dead"} => SinceAsked(c) = 0
    BY Times, TimelySince DEF Timely
<1> HIDE DEF max
<1>2. /\ talker[c] = "pause" => clock[c] # Pause
      /\ talker[c] = "ask" => clock[c] # Timeout
      /\ \A i \in 1..Len(work[c]) : work[c][i] # 0
    BY <1>1, LenProperties DEF Tick, IsDue, Slept
<1>3. /\ talker' = talker
      /\ clock'[c] = IF talker[c] \in {"pause", "ask"} THEN clock[c] + 1 ELSE clock[c]
      /\ work'[c] = [i \in DOMAIN work[c] |-> work[c][i] - 1]
    BY DEF Tick
<1>4. SinceAsked(c)' \in Nat /\ SinceAsked(c)' <= SinceAsked(c) + 1
    <2>1. CASE talker[c] = "ask"
        BY <1>1, <1>3, <2>1 DEF SinceAsked
    <2>2. CASE talker[c] = "pause"
        <3>1. SinceAsked(c)' = Timeout + (clock[c] + 1)
            BY <1>3, <2>2 DEF SinceAsked
        <3>2. QED BY <1>1, <2>2, <3>1, Times
    <2>3. CASE talker[c] \in {"none", "dead"}
        <3>1. SinceAsked(c)' = 0
            BY <1>3, <2>3 DEF SinceAsked
        <3>2. QED BY <1>1, <3>1
    <2>4. QED BY <2>1, <2>2, <2>3 DEF Places
<1>5. /\ work'[c] \in Seq(0..max) /\ Len(work'[c]) = Len(work[c])
      /\ Paced(work'[c], SinceAsked(c)', max)
    BY <1>1, <1>2, <1>3, <1>4, PacedTick
<1>6. clock'[c] \in Nat
      /\ (talker'[c] = "pause" => clock'[c] <= Pause)
      /\ (talker'[c] = "ask" => clock'[c] <= Timeout)
    <2>1. talker[c] = "pause" => clock[c] <= Pause
        BY <1>1 DEF Timely
    <2>2. talker[c] = "ask" => clock[c] <= Timeout
        BY <1>1 DEF Timely
    <2>3. CASE talker[c] = "pause"
        BY <1>1, <1>2, <1>3, <2>1, <2>3, Times
    <2>4. CASE talker[c] = "ask"
        BY <1>1, <1>2, <1>3, <2>2, <2>4, Times
    <2>5. CASE talker[c] \notin {"pause", "ask"}
        BY <1>1, <1>3, <2>5
    <2>6. QED BY <2>3, <2>4, <2>5
<1>7. work[c] = <<>> <=> work'[c] = <<>>
    BY <1>1, <1>5, EmptySeq
<1>8. talker[c] = "none" => clock'[c] = clock[c]
    BY <1>3
<1>9. QED BY <1>1, <1>3, <1>5, <1>6, <1>7, <1>8 DEF Timely, max

LEMMA CitiesInvNext == CitiesInv /\ [Next]_vars => CitiesInv'
<1> SUFFICES ASSUME CitiesInv, [Next]_vars PROVE CitiesInv'
    OBVIOUS
<1>1. ASSUME NEW c \in Cities, BootStep(c) \/ TalkStep(c), NEW d \in Cities
      PROVE  Timely(d)'
    BY <1>1, BootTimely, TalkTimely, Elsewhere DEF CitiesInv
<1>2. CASE Next
    <2>1. ASSUME NEW d \in Cities PROVE Timely(d)'
        <3>1. CASE RunEnvoy
            BY <3>1 DEF RunEnvoy, CitiesInv, Timely, SinceAsked
        <3>2. CASE Tick
            BY <3>2, TickTimely
        <3>3. QED BY <1>1, <1>2, <3>1, <3>2 DEF Next
    <2>2. QED BY <1>2, <2>1, PlacesNext, FunctionsNext DEF CitiesInv
<1>3. CASE UNCHANGED vars
    BY <1>3 DEF vars, CitiesInv, Places, Functions, Timely, SinceAsked
<1>4. QED BY <1>2, <1>3

LEMMA CitiesInvariant == Spec => []CitiesInv
<1>1. Init => CitiesInv
    <2> SUFFICES ASSUME Init PROVE CitiesInv
        OBVIOUS
    <2>1. Places /\ Functions
        BY DEF Init, Places, Functions
    <2>2. ASSUME NEW c \in Cities PROVE Timely(c)
        <3>1. work[c] = <<>> /\ clock[c] = 0 /\ talker[c] = "none"
            BY DEF Init
        <3>2. QED BY <3>1 DEF Timely, Paced
    <2>3. QED BY <2>1, <2>2 DEF CitiesInv
<1>2. QED BY <1>1, CitiesInvNext, PTL DEF Spec

(* Every state has its type: no talker sleeps or waits for longer than its *)
(* pause or the timeout, and one that asks has a handler at work for it.   *)
THEOREM TypeCorrect == Spec => []TypeOK
<1>1. CitiesInv => TypeOK
    <2> SUFFICES ASSUME CitiesInv PROVE TypeOK
        OBVIOUS
    <2>1. clock \in [Cities -> Nat]
        BY DEF CitiesInv, Functions, Timely
    <2>2. QED BY <2>1 DEF CitiesInv, Places, Timely, TypeOK
<1>2. QED BY <1>1, CitiesInvariant, PTL

(* Handlers that nobody waits for do not pile up, for any latencies.       *)
THEOREM HandlersBounded == Spec => []HandlersBound
<1>1. CitiesInv => HandlersBound
    <2> SUFFICES ASSUME CitiesInv, NEW c \in Cities
                 PROVE  Len(work[c]) <= 1 + MaxLatency[c] \div (Timeout + Pause)
        BY DEF HandlersBound
    <2>1. /\ MaxLatency[c] \in Nat /\ work[c] \in Seq(0..MaxLatency[c])
          /\ SinceAsked(c) \in Nat /\ Paced(work[c], SinceAsked(c), MaxLatency[c])
        BY Times, TimelySince DEF CitiesInv, Timely
    <2>2. QED BY <2>1, PacedBound DEF Round
<1>2. QED BY <1>1, CitiesInvariant, PTL

(* Who asks, or has printed, found Envoy listening; who died did not.      *)
Heard == \A c \in Cities :
    /\ talker[c] = "ask" \/ printed[c] = 1 => envoy = 1
    /\ talker[c] = "dead" => printed[c] = 0

LEMMA HeardNext == CitiesInv /\ Heard /\ [Next]_vars => Heard'
<1> SUFFICES ASSUME CitiesInv, Heard, [Next]_vars PROVE Heard'
    OBVIOUS
<1>1. talker \in [Cities -> {"none", "pause", "ask", "dead"}] /\ printed \in [Cities -> {0, 1}]
    BY DEF CitiesInv, Places
<1> USE <1>1 DEF Heard
<1>2. ASSUME NEW c \in Cities, BootStep(c) PROVE Heard'
    BY <1>2 DEF BootStep, RunCity, LoadApp, Serve
<1>3. ASSUME NEW c \in Cities, PrintLine(c), envoy = 1, envoy' = 1 PROVE Heard'
    BY <1>3 DEF PrintLine
<1>4. ASSUME NEW c \in Cities, TalkStep(c) PROVE Heard'
    <2>1. CASE Die(c)
        BY <2>1 DEF Die, Slept
    <2>2. CASE Ask(c)
        BY <2>2 DEF Ask, Slept
    <2>3. CASE Unavailable(c) \/ Answer(c) \/ TimeOut(c)
        BY <2>3, <1>3 DEF Unavailable, Answer, TimeOut
    <2>4. CASE Discard(c)
        BY <2>4 DEF Discard
    <2>5. QED BY <1>4, <2>1, <2>2, <2>3, <2>4 DEF TalkStep
<1>5. CASE RunEnvoy
    BY <1>5 DEF RunEnvoy
<1>6. CASE Tick
    BY <1>6 DEF Tick
<1>7. CASE UNCHANGED vars
    BY <1>7 DEF vars
<1>8. QED BY <1>2, <1>4, <1>5, <1>6, <1>7 DEF Next

(* A talker that is lost has never printed a line, for every city.         *)
THEOREM SilentOnes == Spec => []SilentFromTheStart
<1>1. Init => Heard
    BY DEF Init, Heard
<1>2. Heard => SilentFromTheStart
    BY DEF Heard, SilentFromTheStart
<1>3. QED BY <1>1, <1>2, CitiesInvariant, HeardNext, PTL DEF Spec

=============================================================================
