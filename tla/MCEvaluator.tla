---------------------------- MODULE MCEvaluator -----------------------------
(* Two callers that may evaluate one run at the same time, or one after the *)
(* other, with two attempts each and a cutoff two ticks away.              *)
EXTENDS Evaluator
=============================================================================
