--------------------------- MODULE MCOperatorReview ---------------------------
(* Two requests for review on one page that may issue four fetches; nothing  *)
(* but the constants of Review.cfg is needed, and no symmetry, because a     *)
(* liveness property is checked.                                             *)
EXTENDS OperatorReview
=============================================================================
