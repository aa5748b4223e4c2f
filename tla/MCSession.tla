------------------------------ MODULE MCSession ------------------------------
(***************************************************************************)
(* Model-checking instance of Session: a plan with a tick per timestamp, or *)
(* none between two that nothing tells apart.                               *)
(***************************************************************************)
EXTENDS Session, TLC

MCPlanAt == [RECORDER_WARMUP |-> 0, RECORDING |-> 0, FEATURE_FREEZE |-> 1, EVALUATION |-> 1,
             ELIGIBILITY_LOCK |-> 3, EXECUTION |-> 4, FLATTENING |-> 6]

HolderSymmetry == Permutations(Holder)
=============================================================================
