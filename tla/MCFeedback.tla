----------------------------- MODULE MCFeedback -----------------------------
(* Feedback on small instances; the model values stand for ids and objects. *)
EXTENDS Feedback, TLC
=============================================================================
