------------------------------ MODULE DrawPage ------------------------------
(***************************************************************************)
(* Kubernetes/DigitRecon, webapp/main.html: the page in the browser.  The  *)
(* canvas keeps what was drawn; releasing the mouse button over it posts   *)
(* the canvas, and the callback of each post writes the result when its    *)
(* answer arrives, whatever has happened to the canvas in between.         *)
(* The webapp is seen from outside, as DigitPipeline models it: one        *)
(* request after the other, each answered with a digit or an error.        *)
(***************************************************************************)
EXTENDS Naturals, Sequences

CONSTANTS
    MaxStrokes,  \* bound: times the canvas changes
    MaxPosts     \* bound: requests posted

ASSUME PageAssumption == MaxStrokes \in Nat /\ MaxPosts \in Nat

(* What a behaviour may take for granted of its network and its user:      *)
(* "ordered": answers arrive in the order they were given; "patient": the  *)
(* user does not act while one is due; "inside": the button is released    *)
(* over the canvas.                                                        *)
Habits == {"ordered", "patient", "inside"}

VARIABLES
    habits,     \* those that hold, for the whole behaviour
    canvas,     \* the picture on the canvas: 0 when blank
    strokes,    \* pictures drawn so far
    onPaint,    \* the mousemove listener that paints is attached
    posts,      \* requests posted so far
    requests,   \* posts the webapp has not answered, oldest first
    answers,    \* answers on their way to the page, oldest first
    result      \* what the page shows: the text, its post and its picture

vars == <<habits, canvas, strokes, onPaint, posts, requests, answers, result>>

Post   == [no : 1..MaxPosts, of : 0..MaxStrokes]
Dash   == [text |-> "-", no |-> 0, of |-> 0]
Texts  == {"digit", "error"}

TypeOK ==
    /\ habits \subseteq Habits
    /\ canvas \in 0..MaxStrokes
    /\ strokes \in 0..MaxStrokes
    /\ onPaint \in {0, 1}
    /\ posts \in 0..MaxPosts
    /\ requests \in Seq(Post)
    /\ answers \in Seq([text : Texts, no : 1..MaxPosts, of : 0..MaxStrokes])
    /\ result \in [text : Texts \cup {"-"}, no : 0..MaxPosts, of : 0..MaxStrokes]

(* $(document).ready calls onClear.                                        *)
Init ==
    /\ habits \in SUBSET Habits
    /\ canvas = 0
    /\ strokes = 0
    /\ onPaint = 0
    /\ posts = 0
    /\ requests = <<>>
    /\ answers = <<>>
    /\ result = Dash

Due == requests # <<>> \/ answers # <<>>
MayAct == "patient" \in habits => ~Due

-----------------------------------------------------------------------------
(* mousedown: from now on a moving mouse paints.                           *)
MouseDown ==
    /\ MayAct
    /\ onPaint' = 1
    /\ UNCHANGED <<habits, canvas, strokes, posts, requests, answers, result>>

(* mousemove while the listener is attached.                               *)
OnPaint ==
    /\ onPaint = 1 /\ MayAct
    /\ strokes < MaxStrokes
    /\ strokes' = strokes + 1
    /\ canvas' = strokes + 1
    /\ UNCHANGED <<habits, onPaint, posts, requests, answers, result>>

(* mouseup over the canvas, wherever the button was pressed: painting ends *)
(* and the canvas is posted.                                               *)
MouseUp ==
    /\ MayAct /\ posts < MaxPosts
    /\ onPaint' = 0
    /\ posts' = posts + 1
    /\ requests' = Append(requests, [no |-> posts + 1, of |-> canvas])
    /\ UNCHANGED <<habits, canvas, strokes, answers, result>>

(* Mutant: the canvas is cleared but its result stays.                     *)
OnClearKeepsResult ==
    /\ MayAct
    /\ onPaint = 1 => "inside" \notin habits
    /\ canvas' = 0
    /\ UNCHANGED <<habits, strokes, onPaint, posts, requests, answers, result>>

(* The button of the page: a blank canvas and no result.  The mouse is     *)
(* over the button, so a button held down has been released outside the    *)
(* canvas, where no mouseup reaches it and the listener stays.             *)
OnClear ==
    /\ MayAct
    /\ onPaint = 1 => "inside" \notin habits
    /\ canvas' = 0
    /\ result' = Dash
    /\ UNCHANGED <<habits, strokes, onPaint, posts, requests, answers>>

-----------------------------------------------------------------------------
(* Mutants: a text the page does not know; the newest request first.       *)
AnswerBare ==
    /\ requests # <<>>
    /\ answers' = Append(answers, [text |-> "undefined", no |-> Head(requests).no,
                                  of |-> Head(requests).of])
    /\ requests' = Tail(requests)
    /\ UNCHANGED <<habits, canvas, strokes, onPaint, posts, result>>

AnswerNewest ==
    /\ requests # <<>>
    /\ LET last == requests[Len(requests)]
       IN  answers' = Append(answers, [text |-> "digit", no |-> last.no, of |-> last.of])
    /\ requests' = SubSeq(requests, 1, Len(requests) - 1)
    /\ UNCHANGED <<habits, canvas, strokes, onPaint, posts, result>>

(* The webapp answers its oldest request ...                               *)
Answer ==
    /\ requests # <<>>
    /\ \E text \in Texts :
          answers' = Append(answers, [text |-> text, no |-> Head(requests).no,
                                      of |-> Head(requests).of])
    /\ requests' = Tail(requests)
    /\ UNCHANGED <<habits, canvas, strokes, onPaint, posts, result>>

(* ... and the success or error callback of that post sets the result.     *)
Remove(i) == [j \in 1..(Len(answers) - 1) |-> IF j < i THEN answers[j] ELSE answers[j + 1]]

SetResultOfLast ==            \* mutant: an answer overtaken by a post is dropped
    /\ \E i \in 1..Len(answers) :
          /\ result' = IF answers[i].no = posts THEN answers[i] ELSE result
          /\ answers' = Remove(i)
    /\ UNCHANGED <<habits, canvas, strokes, onPaint, posts, requests>>

SetResult ==
    /\ \E i \in 1..Len(answers) :
          /\ "ordered" \in habits => i = 1
          /\ result' = answers[i]
          /\ answers' = Remove(i)
    /\ UNCHANGED <<habits, canvas, strokes, onPaint, posts, requests>>

Stopped == ~Due /\ posts = MaxPosts

Next == \/ MouseDown \/ OnPaint \/ MouseUp \/ OnClear \/ Answer \/ SetResult
        \/ (Stopped /\ UNCHANGED vars)

(* What is due arrives; nothing obliges the user to do anything.           *)
Spec == Init /\ [][Next]_vars /\ WF_vars(Answer) /\ WF_vars(SetResult)

-----------------------------------------------------------------------------
(* With answers in order and a patient user who releases the button over  *)
(* the canvas, the result at rest is that of the picture on the canvas.    *)
RestingResultFits ==
    habits = Habits /\ ~Due /\ onPaint = 0 => result.of = canvas

(* While answers arrive in order, the page never goes back to the result   *)
(* of an earlier post, however impatient the user.                         *)
NeverGoesBack ==
    [][result'.no >= result.no \/ result' = Dash \/ "ordered" \notin habits]_vars

(* Whatever the order and the user, every post's result comes up.          *)
IsDue(n) == \/ \E i \in 1..Len(requests) : requests[i].no = n
            \/ \E i \in 1..Len(answers) : answers[i].no = n
EveryResultShown == \A n \in 1..MaxPosts : IsDue(n) ~> result.no = n
=============================================================================
