----------------------------- MODULE MCDrawPage -----------------------------
(* Three posts: one answer can overtake another and a third still follow.  *)
EXTENDS DrawPage
=============================================================================
