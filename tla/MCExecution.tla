----------------------------- MODULE MCExecution -----------------------------
(* One order of a few shares and a handful of calls.                        *)
EXTENDS Execution

=============================================================================
