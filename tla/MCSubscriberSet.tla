--------------------------- MODULE MCSubscriberSet ---------------------------
(* Model-checking instance of SubscriberSet: emitter keys are model values,   *)
(* interchangeable because the set never compares two of them except for      *)
(* equality.                                                                  *)
EXTENDS SubscriberSet, TLC

KeySymmetry == Permutations(Keys)
=============================================================================
