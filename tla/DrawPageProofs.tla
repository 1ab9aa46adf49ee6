--------------------------- MODULE DrawPageProofs ---------------------------
(***************************************************************************)
(* For any number of strokes and posts: the type invariant, that a patient *)
(* user sees the result of the picture on the canvas, and that the page    *)
(* never goes back to an earlier result while answers arrive in order.     *)
(***************************************************************************)
EXTENDS DrawPage, SequenceTheorems, TLAPS

(* What the callbacks of the page can be called with.                      *)
Reply == [text : Texts, no : 1..MaxPosts, of : 0..MaxStrokes]

(* Taking one answer off those on their way keeps the order of the others. *)
LEMMA RemoveProperties ==
    ASSUME NEW S, answers \in Seq(S), NEW i \in 1..Len(answers)
    PROVE  /\ Remove(i) \in Seq(S)
           /\ Len(Remove(i)) = Len(answers) - 1
           /\ \A j \in 1..Len(Remove(i)) :
                 Remove(i)[j] = IF j < i THEN answers[j] ELSE answers[j + 1]
<1>1. Len(answers) \in Nat /\ Len(answers) - 1 \in Nat
    BY LenProperties
<1>2. \A j \in 1..Len(answers) : answers[j] \in S
    BY ElementOfSeq
<1>3. Remove(i) \in [1..(Len(answers) - 1) -> S]
    BY <1>1, <1>2 DEF Remove
<1>4. Remove(i) \in Seq(S)
    BY <1>1, <1>3, SeqDef
<1>5. DOMAIN Remove(i) = 1..(Len(answers) - 1)
    BY DEF Remove
<1>6. Len(Remove(i)) = Len(answers) - 1
    BY <1>1, <1>4, <1>5, LenProperties
<1>7. QED BY <1>4, <1>6 DEF Remove

-----------------------------------------------------------------------------
LEMMA DashIsResult ==
    /\ 0 \in 0..MaxStrokes
    /\ Dash \in [text : Texts \cup {"-"}, no : 0..MaxPosts, of : 0..MaxStrokes]
<1>1. 0 \in 0..MaxStrokes /\ 0 \in 0..MaxPosts
    BY PageAssumption
<1>2. QED BY <1>1 DEF Dash

LEMMA TypeNext == TypeOK /\ [Next]_vars => TypeOK'
<1> SUFFICES ASSUME TypeOK, [Next]_vars PROVE TypeOK'
    OBVIOUS
<1> USE PageAssumption DEF TypeOK, Reply
<1>1. CASE MouseDown
    BY <1>1 DEF MouseDown
<1>2. CASE OnPaint
    BY <1>2 DEF OnPaint
<1>3. CASE MouseUp
    <2>1. [no |-> posts + 1, of |-> canvas] \in Post
        BY <1>3 DEF MouseUp, Post
    <2>2. requests' \in Seq(Post)
        BY <1>3, <2>1, AppendProperties DEF MouseUp
    <2>3. posts' \in 0..MaxPosts
        BY <1>3 DEF MouseUp
    <2>4. QED BY <1>3, <2>2, <2>3 DEF MouseUp
<1>4. CASE OnClear
    BY <1>4, DashIsResult DEF OnClear
<1>5. CASE Answer
    <2>1. PICK text \in Texts :
             answers' = Append(answers, [text |-> text, no |-> Head(requests).no,
                                         of |-> Head(requests).of])
        BY <1>5 DEF Answer
    <2>2. requests' \in Seq(Post) /\ Head(requests) \in Post
        BY <1>5, HeadTailProperties DEF Answer
    <2>3. [text |-> text, no |-> Head(requests).no, of |-> Head(requests).of] \in Reply
        BY <2>2 DEF Post
    <2>4. answers' \in Seq(Reply)
        BY <2>1, <2>3, AppendProperties
    <2>5. QED BY <1>5, <2>2, <2>4 DEF Answer
<1>6. CASE SetResult
    <2>1. PICK i \in 1..Len(answers) : result' = answers[i] /\ answers' = Remove(i)
        BY <1>6 DEF SetResult
    <2>2. answers[i] \in Reply
        BY <2>1, ElementOfSeq
    <2>3. answers' \in Seq(Reply)
        BY <2>1, RemoveProperties
    <2>4. result' \in [text : Texts \cup {"-"}, no : 0..MaxPosts, of : 0..MaxStrokes]
        BY <2>1, <2>2
    <2>5. QED BY <1>6, <2>3, <2>4 DEF SetResult
<1>7. CASE UNCHANGED vars
    BY <1>7 DEF vars
<1>8. QED BY <1>1, <1>2, <1>3, <1>4, <1>5, <1>6, <1>7 DEF Next

(* Every state has its type, for every value of the constants.             *)
THEOREM TypeCorrect == Spec => []TypeOK
<1>1. Init => TypeOK
    BY PageAssumption, DashIsResult, EmptySeq DEF Init, TypeOK
<1>2. QED BY <1>1, TypeNext, PTL DEF Spec

-----------------------------------------------------------------------------
(* What the three steps do to the posts and answers under way.             *)
LEMMA AppendAt ==
    ASSUME NEW S, NEW s \in Seq(S), NEW e \in S
    PROVE  /\ Len(Append(s, e)) = Len(s) + 1
           /\ \A i \in 1..(Len(s) + 1) :
                 Append(s, e)[i] = IF i = Len(s) + 1 THEN e ELSE s[i]
<1>1. Len(s) \in Nat
    BY LenProperties
<1>2. QED BY <1>1, AppendProperties

LEMMA MouseUpEffect ==
    ASSUME TypeOK, MouseUp
    PROVE  /\ Len(requests') = Len(requests) + 1
           /\ \A i \in 1..Len(requests') :
                 requests'[i] = IF i = Len(requests) + 1
                                THEN [no |-> posts + 1, of |-> canvas]
                                ELSE requests[i]
<1>1. [no |-> posts + 1, of |-> canvas] \in Post
    BY PageAssumption DEF TypeOK, MouseUp, Post
<1>2. QED BY <1>1, AppendAt DEF MouseUp, TypeOK

LEMMA AnswerEffect ==
    ASSUME TypeOK, Answer
    PROVE  /\ Len(requests) \in Nat \ {0}
           /\ Len(requests') = Len(requests) - 1
           /\ \A i \in 1..Len(requests') : requests'[i] = requests[i + 1]
           /\ Len(answers') = Len(answers) + 1
           /\ \A i \in 1..Len(answers) : answers'[i] = answers[i]
           /\ answers'[Len(answers) + 1].no = requests[1].no
           /\ answers'[Len(answers) + 1].of = requests[1].of
<1>1. requests \in Seq(Post) /\ requests # <<>> /\ requests' = Tail(requests)
    BY DEF TypeOK, Answer
<1>2. Len(requests) \in Nat \ {0} /\ Head(requests) = requests[1]
    BY <1>1, EmptySeq
<1>3. PICK text \in Texts :
         answers' = Append(answers, [text |-> text, no |-> Head(requests).no,
                                     of |-> Head(requests).of])
    BY DEF Answer
<1> DEFINE new == [text |-> text, no |-> Head(requests).no, of |-> Head(requests).of]
<1>4. new \in Reply
    BY <1>1, HeadTailProperties DEF Post, Reply
<1>5. new.no = requests[1].no /\ new.of = requests[1].of
    BY <1>2
<1>6. answers \in Seq(Reply)
    BY DEF TypeOK, Reply
<1> HIDE DEF new
<1>7. answers' = Append(answers, new)
    BY <1>3 DEF new
<1>8. QED BY <1>1, <1>2, <1>4, <1>5, <1>6, <1>7, HeadTailProperties, AppendProperties

LEMMA SetResultEffect ==
    ASSUME TypeOK, SetResult
    PROVE  \E i \in 1..Len(answers) :
              /\ "ordered" \in habits => i = 1
              /\ result' = answers[i]
              /\ Len(answers') = Len(answers) - 1
              /\ \A j \in 1..Len(answers') :
                    answers'[j] = IF j < i THEN answers[j] ELSE answers[j + 1]
<1>1. PICK i \in 1..Len(answers) : /\ "ordered" \in habits => i = 1
                                  /\ result' = answers[i]
                                  /\ answers' = Remove(i)
    BY DEF SetResult
<1>2. answers \in Seq(Reply)
    BY DEF TypeOK, Reply
<1>3. QED BY <1>1, <1>2, RemoveProperties

LEMMA Lengths == ASSUME TypeOK PROVE Len(requests) \in Nat /\ Len(answers) \in Nat
  BY LenProperties DEF TypeOK

-----------------------------------------------------------------------------
(* A patient user changes nothing while an answer is due: every picture on *)
(* its way, either way, is the one on the canvas.                          *)
DueFits ==
    "patient" \in habits =>
        /\ \A i \in 1..Len(requests) : requests[i].of = canvas
        /\ \A i \in 1..Len(answers) : answers[i].of = canvas

LEMMA NothingDue == ASSUME TypeOK, ~Due PROVE Len(requests) = 0 /\ Len(answers) = 0
  BY EmptySeq DEF TypeOK, Due

LEMMA DueFitsNext ==
    ASSUME TypeOK, DueFits, [Next]_vars
    PROVE  DueFits'
<1> USE Lengths DEF DueFits
<1>1. CASE MouseDown
    BY <1>1 DEF MouseDown
<1>2. CASE OnPaint \/ OnClear
    BY <1>2, NothingDue DEF OnPaint, OnClear, MayAct
<1>3. CASE MouseUp
    <2>1. UNCHANGED <<habits, canvas, answers>>
        BY <1>3 DEF MouseUp
    <2>2. QED BY <1>3, <2>1, MouseUpEffect
<1>4. CASE Answer
    <2>1. UNCHANGED <<habits, canvas>>
        BY <1>4 DEF Answer
    <2>2. ASSUME "patient" \in habits, NEW i \in 1..Len(requests')
          PROVE  requests'[i].of = canvas
        BY <1>4, <2>2, AnswerEffect
    <2>3. ASSUME "patient" \in habits, NEW i \in 1..Len(answers')
          PROVE  answers'[i].of = canvas
        <3>1. CASE i = Len(answers) + 1
            BY <1>4, <2>3, <3>1, AnswerEffect
        <3>2. CASE i \in 1..Len(answers)
            BY <1>4, <2>3, <3>2, AnswerEffect
        <3>3. QED BY <1>4, <2>3, <3>1, <3>2, AnswerEffect
    <2>4. QED BY <2>1, <2>2, <2>3
<1>5. CASE SetResult
    <2>1. UNCHANGED <<habits, canvas, requests>>
        BY <1>5 DEF SetResult
    <2>2. QED BY <1>5, <2>1, SetResultEffect
<1>6. CASE UNCHANGED vars
    BY <1>6 DEF vars
<1>7. QED BY <1>1, <1>2, <1>3, <1>4, <1>5, <1>6 DEF Next

LEMMA RestingNext ==
    ASSUME TypeOK, DueFits, RestingResultFits, [Next]_vars
    PROVE  RestingResultFits'
<1> USE DEF RestingResultFits, Habits
<1>1. CASE MouseDown \/ OnPaint
    BY <1>1 DEF MouseDown, OnPaint, TypeOK
<1>2. CASE MouseUp
    <2>1. Due'
        BY <1>2, MouseUpEffect, Lengths, EmptySeq DEF Due
    <2>2. QED BY <2>1
<1>3. CASE OnClear
    BY <1>3 DEF OnClear, Dash
<1>4. CASE Answer
    <2>1. Due'
        BY <1>4, AnswerEffect, Lengths, EmptySeq DEF Due
    <2>2. QED BY <2>1
<1>5. CASE SetResult
    BY <1>5, SetResultEffect DEF SetResult, DueFits
<1>6. CASE UNCHANGED vars
    BY <1>6 DEF vars, Due
<1>7. QED BY <1>1, <1>2, <1>3, <1>4, <1>5, <1>6 DEF Next

(* With ordered answers, a patient user and a button released inside, the  *)
(* result the page rests on is that of the picture on the canvas.          *)
THEOREM RestingResultFitsCanvas == Spec => []RestingResultFits
<1>1. Init => DueFits /\ RestingResultFits
    BY EmptySeq DEF Init, DueFits, RestingResultFits, Dash
<1>2. QED BY <1>1, TypeCorrect, DueFitsNext, RestingNext, PTL DEF Spec

-----------------------------------------------------------------------------
(* Posts are numbered as they are made, and are under way in that order;   *)
(* what is shown is older than all of them if answers arrive in order.     *)
Increasing(s) == \A i, j \in 1..Len(s) : i < j => s[i].no < s[j].no

PostsInOrder ==
    /\ Increasing(requests) /\ Increasing(answers)
    /\ \A i \in 1..Len(answers), j \in 1..Len(requests) :
          answers[i].no < requests[j].no
    /\ \A i \in 1..Len(requests) : requests[i].no <= posts
    /\ \A i \in 1..Len(answers) : answers[i].no <= posts

ShownIsOldest ==
    "ordered" \in habits =>
        /\ result.no <= posts
        /\ \A i \in 1..Len(requests) : result.no < requests[i].no
        /\ \A i \in 1..Len(answers) : result.no < answers[i].no

LEMMA Numbers ==
    ASSUME TypeOK
    PROVE  /\ posts \in Nat /\ result.no \in Nat
           /\ \A i \in 1..Len(requests) : requests[i].no \in Nat \ {0}
           /\ \A i \in 1..Len(answers) : answers[i].no \in Nat \ {0}
<1>1. posts \in Nat /\ result.no \in Nat
    BY PageAssumption DEF TypeOK
<1>2. \A i \in 1..Len(requests) : requests[i] \in Post
    BY ElementOfSeq DEF TypeOK
<1>3. \A i \in 1..Len(answers) : answers[i] \in Reply
    BY ElementOfSeq DEF TypeOK, Reply
<1>4. QED BY <1>1, <1>2, <1>3, PageAssumption DEF Post, Reply

LEMMA OrderNext ==
    ASSUME TypeOK, PostsInOrder, ShownIsOldest, [Next]_vars
    PROVE  PostsInOrder' /\ ShownIsOldest'
<1> USE Lengths, Numbers DEF PostsInOrder, ShownIsOldest, Increasing
<1>1. CASE MouseDown \/ OnPaint
    BY <1>1 DEF MouseDown, OnPaint
<1>2. CASE MouseUp
    <2>1. UNCHANGED <<habits, answers, result>> /\ posts' = posts + 1
        BY <1>2 DEF MouseUp
    <2>2. Len(requests') = Len(requests) + 1
        BY <1>2, MouseUpEffect
    <2>3. ASSUME NEW i \in 1..Len(requests')
          PROVE  \/ i = Len(requests) + 1 /\ requests'[i].no = posts + 1
                 \/ i \in 1..Len(requests) /\ requests'[i].no = requests[i].no
        BY <1>2, <2>2, MouseUpEffect
    <2>4. ASSUME NEW i \in 1..Len(requests'), NEW j \in 1..Len(requests'), i < j
          PROVE  requests'[i].no < requests'[j].no
        <3>1. i \in 1..Len(requests) /\ requests'[i].no = requests[i].no
            BY <2>2, <2>3, <2>4
        <3>2. CASE j = Len(requests) + 1 /\ requests'[j].no = posts + 1
            BY <3>1, <3>2
        <3>3. CASE j \in 1..Len(requests) /\ requests'[j].no = requests[j].no
            BY <2>4, <3>1, <3>3
        <3>4. QED BY <2>3, <3>2, <3>3
    <2>5. ASSUME NEW i \in 1..Len(requests')
          PROVE  /\ requests'[i].no <= posts'
                 /\ \A k \in 1..Len(answers') : answers'[k].no < requests'[i].no
                 /\ "ordered" \in habits => result'.no < requests'[i].no
        <3>1. CASE i = Len(requests) + 1 /\ requests'[i].no = posts + 1
            BY <2>1, <3>1
        <3>2. CASE i \in 1..Len(requests) /\ requests'[i].no = requests[i].no
            BY <2>1, <3>2
        <3>3. QED BY <2>3, <3>1, <3>2
    <2>6. QED BY <2>1, <2>4, <2>5
<1>3. CASE OnClear
    <2>1. UNCHANGED <<habits, posts, requests, answers>> /\ result'.no = 0
        BY <1>3 DEF OnClear, Dash
    <2>2. QED BY <2>1
<1>4. CASE Answer
    <2>1. UNCHANGED <<habits, posts, result>>
        BY <1>4 DEF Answer
    <2>2. /\ 1 \in 1..Len(requests)
          /\ Len(requests') = Len(requests) - 1
          /\ Len(answers') = Len(answers) + 1
        BY <1>4, AnswerEffect
    <2>3. ASSUME NEW i \in 1..Len(requests')
          PROVE  i + 1 \in 1..Len(requests) /\ requests'[i] = requests[i + 1]
        BY <1>4, <2>2, AnswerEffect
    <2>4. ASSUME NEW i \in 1..Len(answers')
          PROVE  \/ i = Len(answers) + 1 /\ answers'[i].no = requests[1].no
                 \/ i \in 1..Len(answers) /\ answers'[i].no = answers[i].no
        BY <1>4, <2>2, AnswerEffect
    <2>5. ASSUME NEW i \in 1..Len(requests'), NEW j \in 1..Len(requests'), i < j
          PROVE  requests'[i].no < requests'[j].no
        <3>1. i + 1 < j + 1
            BY <2>5
        <3>2. QED BY <2>3, <3>1
    <2>6. ASSUME NEW i \in 1..Len(answers'), NEW j \in 1..Len(answers'), i < j
          PROVE  answers'[i].no < answers'[j].no
        <3>1. i \in 1..Len(answers) /\ answers'[i].no = answers[i].no
            BY <2>2, <2>4, <2>6
        <3>2. CASE answers'[j].no = requests[1].no
            BY <2>2, <3>1, <3>2
        <3>3. CASE j \in 1..Len(answers) /\ answers'[j].no = answers[j].no
            BY <2>6, <3>1, <3>3
        <3>4. QED BY <2>4, <3>2, <3>3
    <2>7. ASSUME NEW i \in 1..Len(answers'), NEW j \in 1..Len(requests')
          PROVE  answers'[i].no < requests'[j].no
        <3>1. 1 < j + 1 /\ j + 1 \in 1..Len(requests)
            BY <2>3
        <3>2. requests[1].no < requests[j + 1].no
            BY <2>2, <3>1
        <3>3. QED BY <2>3, <2>4, <3>1, <3>2
    <2>8. ASSUME NEW i \in 1..Len(requests')
          PROVE  /\ requests'[i].no <= posts
                 /\ "ordered" \in habits => result.no < requests'[i].no
        BY <2>3
    <2>9. ASSUME NEW i \in 1..Len(answers')
          PROVE  /\ answers'[i].no <= posts
                 /\ "ordered" \in habits => result.no < answers'[i].no
        BY <2>2, <2>4
    <2>10. QED BY <2>1, <2>5, <2>6, <2>7, <2>8, <2>9
<1>5. CASE SetResult
    <2>1. UNCHANGED <<habits, posts, requests>>
        BY <1>5 DEF SetResult
    <2>2. PICK i \in 1..Len(answers) :
             /\ "ordered" \in habits => i = 1
             /\ result' = answers[i]
             /\ Len(answers') = Len(answers) - 1
             /\ \A j \in 1..Len(answers') :
                   answers'[j] = IF j < i THEN answers[j] ELSE answers[j + 1]
        BY <1>5, SetResultEffect
    <2>3. ASSUME NEW j \in 1..Len(answers')
          PROVE  \E k \in 1..Len(answers) :
                    answers'[j] = answers[k] /\ k = IF j < i THEN j ELSE j + 1
        BY <2>2
    <2>4. ASSUME NEW j \in 1..Len(answers'), NEW k \in 1..Len(answers'), j < k
          PROVE  answers'[j].no < answers'[k].no
        <3>1. PICK m \in 1..Len(answers) :
                 answers'[j] = answers[m] /\ m = IF j < i THEN j ELSE j + 1
            BY <2>3
        <3>2. PICK n \in 1..Len(answers) :
                 answers'[k] = answers[n] /\ n = IF k < i THEN k ELSE k + 1
            BY <2>3
        <3>3. m < n
            BY <2>4, <3>1, <3>2
        <3>4. QED BY <3>1, <3>2, <3>3
    <2>5. ASSUME NEW j \in 1..Len(answers')
          PROVE  /\ answers'[j].no <= posts
                 /\ \A k \in 1..Len(requests) : answers'[j].no < requests[k].no
                 /\ "ordered" \in habits => result'.no < answers'[j].no
        <3>1. PICK k \in 1..Len(answers) :
                 answers'[j] = answers[k] /\ k = IF j < i THEN j ELSE j + 1
            BY <2>3
        <3>2. "ordered" \in habits => i < k
            BY <2>2, <3>1
        <3>3. QED BY <2>2, <3>1, <3>2
    <2>6. /\ result'.no <= posts
          /\ \A k \in 1..Len(requests) : result'.no < requests[k].no
        BY <2>2
    <2>7. QED BY <2>1, <2>4, <2>5, <2>6
<1>6. CASE UNCHANGED vars
    BY <1>6 DEF vars
<1>7. QED BY <1>1, <1>2, <1>3, <1>4, <1>5, <1>6 DEF Next

LEMMA OrderInvariant == Spec => [](TypeOK /\ PostsInOrder /\ ShownIsOldest)
<1>1. Init => PostsInOrder /\ ShownIsOldest
    BY EmptySeq DEF Init, PostsInOrder, ShownIsOldest, Increasing, Dash
<1>2. QED BY <1>1, TypeCorrect, OrderNext, PTL DEF Spec

(* However impatient the user, the page never shows the result of an       *)
(* earlier post again as long as answers arrive in order.                  *)
THEOREM PageNeverGoesBack == Spec => NeverGoesBack
<1>1. TypeOK /\ ShownIsOldest /\ [Next]_vars
         => [result'.no >= result.no \/ result' = Dash \/ "ordered" \notin habits]_vars
    <2> SUFFICES ASSUME TypeOK, ShownIsOldest, [Next]_vars, "ordered" \in habits
                 PROVE  result'.no >= result.no \/ result' = Dash
        OBVIOUS
    <2>1. CASE UNCHANGED result
        BY <2>1, Numbers
    <2>2. CASE OnClear
        BY <2>2 DEF OnClear
    <2>3. CASE SetResult
        BY <2>3, SetResultEffect, Numbers DEF ShownIsOldest
    <2>4. QED
        BY <2>1, <2>2, <2>3 DEF Next, vars, MouseDown, OnPaint, MouseUp, Answer
<1>2. QED BY <1>1, OrderInvariant, PTL DEF Spec, NeverGoesBack
=============================================================================
