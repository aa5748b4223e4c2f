------------------------------- MODULE Flatten -------------------------------
(***************************************************************************)
(* FlattenService.flatten (daybreak_orchestration/flatten.py) against the  *)
(* Alpaca account it talks to through daybreak_orchestration/alpaca_ops.py:*)
(* discover what Daybreak owns, cancel its open orders, list the positions,*)
(* close what no close order covers yet, and poll until nothing is left or *)
(* the deadline passes.                                                    *)
(*                                                                         *)
(* The broker moves on its own between any two requests: a parent order    *)
(* fills although its cancellation was asked for, a bracket exit fills, a  *)
(* close order fills in parts.  Positions are requested one symbol at a    *)
(* time, so a listing is not a snapshot of the account.                    *)
(***************************************************************************)
EXTENDS Integers, FiniteSets

CONSTANTS
    Symbol,      \* the symbols Daybreak may hold
    MaxQty,      \* the largest quantity of one parent order
    Foreign,     \* the quantities of a symbol held for somebody else
    Ledgers,     \* which managed_quantities the caller may pass, see Ledger
    MaxLost,     \* how many accepted closes may raise all the same (bound)
    MaxCalls     \* how many times flatten is called (bound)

(***************************************************************************)
(* Quantities are whole shares.                                            *)
(***************************************************************************)
ASSUME FlattenAssumption ==
    /\ MaxQty \in Nat \ {0}
    /\ Foreign \subseteq Nat
    /\ Ledgers \subseteq {"none", "ordered"}
    /\ MaxLost \in Nat
    /\ MaxCalls \in Nat \ {0}

VARIABLES
    pc,         \* where flatten is
    calls,      \* calls of flatten so far
    ledger,     \* managed_quantities: what the caller's ledger says it owns
    target,     \* the merged targets; 0 for a symbol that is none
    todo,       \* the symbols the current loop has still to visit
    seen,       \* the quantities of the last listing (remaining)
    submitted,  \* submitted_quantities
    errors,     \* whether the errors list is non-empty
    expired,    \* whether the clock has reached verification_deadline
    outcome,    \* "none" until flatten returns
    foreign,    \* broker: shares of the account that are not Daybreak's
    open,       \* broker: unfilled quantity of Daybreak's parent order
    bought,     \* broker: filled quantity of that order
    leg,        \* broker: live quantity of its exit orders
    sold,       \* broker: filled quantity of its exit orders
    canceling,  \* broker: symbols whose cancellation has been asked for
    closing,    \* broker: unfilled quantity of the close orders
    closed,     \* broker: filled quantity of the close orders
    issued,     \* history: quantity the broker accepted to close in this call
    lost,       \* history: how many closes the broker took although they raised
    fresh       \* history: quantity bought since the symbol was last listed, or,
                \* for a symbol that is no target, since that listing began

service == <<pc, calls, ledger, target, todo, seen, submitted, errors, expired, outcome>>
market == <<foreign, open, bought, leg, sold, closed>>
flattenVars == <<service, market, canceling, closing, issued, lost, fresh>>

Quantity == [Symbol -> Nat]
None == [s \in Symbol |-> 0]
Plus(f, s, q) == [f EXCEPT ![s] = f[s] + q]
Larger(a, b) == IF a < b THEN b ELSE a
Smaller(a, b) == IF a < b THEN a ELSE b

(***************************************************************************)
(* What GET /v2/positions/{symbol} reports: the account's aggregate.       *)
(***************************************************************************)
Account(s) == foreign[s] + bought[s] - sold[s] - closed[s]

(***************************************************************************)
(* discover_daybreak_targets: filled entries less filled exits of the      *)
(* orders with the DB- prefix and of their legs.  A close order made by    *)
(* DELETE /v2/positions carries no such prefix and does not count.         *)
(***************************************************************************)
Discovered(s) == Larger(bought[s] - sold[s], 0)

Targets == {s \in Symbol : target[s] > 0}
Listed == {s \in Symbol : seen[s] > 0}
Unlisted == [s \in Symbol |-> IF s \in Targets THEN fresh[s] ELSE 0]
LiveOrders == {s \in Symbol : open[s] > 0 \/ leg[s] > 0}

(***************************************************************************)
(* managed_quantities is filled in from the execution hook's answer, and   *)
(* stays empty in a run that did not get that far (service.py, line 82).   *)
(***************************************************************************)
Ledger(kind) == [s \in Symbol |-> IF kind = "ordered" THEN bought[s] + open[s] ELSE 0]

FlattenInit ==
    /\ pc = "discover" /\ calls = 1 /\ outcome = "none"
    /\ target = None /\ todo = {} /\ seen = None /\ submitted = None
    /\ errors = FALSE /\ expired = FALSE
    /\ foreign \in [Symbol -> Foreign]
    /\ bought \in [Symbol -> 0..MaxQty]
    /\ open \in [Symbol -> 0..MaxQty]
    /\ \A s \in Symbol : bought[s] + open[s] <= MaxQty
    /\ leg = [s \in Symbol |-> IF open[s] = 0 THEN bought[s] ELSE 0]
    /\ \E kind \in Ledgers : ledger = Ledger(kind)
    /\ sold = None /\ canceling = {} /\ closing = None /\ closed = None
    /\ issued = None /\ fresh = None /\ lost = 0

-----------------------------------------------------------------------------
(***************************************************************************)
(* The service.  flatten runs its requests one after the other; each       *)
(* request is a step, and each has a step for the case that it raises.     *)
(***************************************************************************)
Discover ==
    /\ pc = "discover" /\ pc' = "cancel"
    /\ target' = [s \in Symbol |-> Larger(Discovered(s), ledger[s])]
    /\ UNCHANGED <<calls, ledger, todo, seen, submitted, errors, expired, outcome>>
    /\ UNCHANGED <<market, canceling, closing, issued, lost, fresh>>

DiscoverRaises ==
    /\ pc = "discover" /\ pc' = "cancel"
    /\ target' = ledger /\ errors' = TRUE
    /\ UNCHANGED <<calls, ledger, todo, seen, submitted, expired, outcome>>
    /\ UNCHANGED <<market, canceling, closing, issued, lost, fresh>>

CancelOrders ==
    /\ pc = "cancel" /\ pc' = "list" /\ todo' = Targets
    /\ canceling' = canceling \cup LiveOrders
    /\ UNCHANGED <<calls, ledger, target, seen, submitted, errors, expired, outcome>>
    /\ fresh' = Unlisted
    /\ UNCHANGED <<market, closing, issued, lost>>

(* The first DELETE that fails ends the loop over the open orders.         *)
CancelOrdersRaises ==
    /\ pc = "cancel" /\ pc' = "list" /\ todo' = Targets
    /\ \E asked \in SUBSET LiveOrders : canceling' = canceling \cup asked
    /\ errors' = TRUE
    /\ UNCHANGED <<calls, ledger, target, seen, submitted, expired, outcome>>
    /\ fresh' = Unlisted
    /\ UNCHANGED <<market, closing, issued, lost>>

(* list_positions: one request per target, the answer capped by the target. *)
ListPositionWhole(s) ==   \* mutant: the answer is not capped by the target
    /\ pc \in {"list", "verify"} /\ s \in todo
    /\ todo' = todo \ {s}
    /\ seen' = [seen EXCEPT ![s] = IF target[s] > 0 THEN Account(s) ELSE 0]
    /\ fresh' = [fresh EXCEPT ![s] = 0]
    /\ UNCHANGED <<pc, calls, ledger, target, submitted, errors, expired, outcome>>
    /\ UNCHANGED <<market, canceling, closing, issued, lost>>

ListPosition(s) ==
    /\ pc \in {"list", "verify"} /\ s \in todo
    /\ todo' = todo \ {s}
    /\ seen' = [seen EXCEPT ![s] = Smaller(Account(s), target[s])]
    /\ fresh' = [fresh EXCEPT ![s] = 0]
    /\ UNCHANGED <<pc, calls, ledger, target, submitted, errors, expired, outcome>>
    /\ UNCHANGED <<market, canceling, closing, issued, lost>>

Return(flat) ==
    /\ pc' = "done"
    /\ outcome' = IF flat /\ ~errors THEN "complete" ELSE "incomplete"
    /\ UNCHANGED <<calls, ledger, target, todo, seen, submitted, errors, expired>>
    /\ UNCHANGED <<market, canceling, closing, issued, lost, fresh>>

(* A listing that raises: the first leaves no positions, a later one ends   *)
(* the loop, and either makes the result incomplete.                        *)
ListRaises ==
    /\ pc = "list" /\ pc' = "poll"
    /\ seen' = None /\ todo' = {} /\ errors' = TRUE
    /\ UNCHANGED <<calls, ledger, target, submitted, expired, outcome>>
    /\ UNCHANGED <<market, canceling, closing, issued, lost, fresh>>

VerifyRaises ==
    /\ pc = "verify" /\ pc' = "done"
    /\ errors' = TRUE /\ outcome' = "incomplete"
    /\ UNCHANGED <<calls, ledger, target, todo, seen, submitted, expired>>
    /\ UNCHANGED <<market, canceling, closing, issued, lost, fresh>>

GoTo(label, visit) ==
    /\ pc' = label /\ todo' = visit
    /\ UNCHANGED <<calls, ledger, target, seen, submitted, errors, expired, outcome>>
    /\ UNCHANGED <<market, canceling, closing, issued, lost, fresh>>

ListEnds == pc = "list" /\ todo = {} /\ GoTo("close", Listed)

(* close_uncovered.  A call that raises leaves submitted_quantities alone,  *)
(* whether the broker took the close or not.                                *)
Uncovered(s) == seen[s] - submitted[s]

CloseUncoveredAlways(s) ==   \* mutant: no test of uncovered <= 0
    /\ pc \in {"close", "cover"} /\ s \in todo
    /\ todo' = todo \ {s}
    /\ closing' = Plus(closing, s, Uncovered(s))
    /\ issued' = Plus(issued, s, Uncovered(s))
    /\ submitted' = Plus(submitted, s, Uncovered(s))
    /\ UNCHANGED <<pc, calls, ledger, target, seen, errors, expired, outcome>>
    /\ UNCHANGED <<market, canceling, lost, fresh>>

CloseUncoveredUnrecorded(s) ==   \* mutant: submitted_quantities not updated
    /\ pc \in {"close", "cover"} /\ s \in todo /\ Uncovered(s) > 0
    /\ todo' = todo \ {s}
    /\ closing' = Plus(closing, s, Uncovered(s))
    /\ issued' = Plus(issued, s, Uncovered(s))
    /\ UNCHANGED <<pc, calls, ledger, target, seen, submitted, errors, expired, outcome>>
    /\ UNCHANGED <<market, canceling, lost, fresh>>

CloseUncovered(s) ==
    /\ pc \in {"close", "cover"} /\ s \in todo /\ Uncovered(s) > 0
    /\ todo' = todo \ {s}
    /\ closing' = Plus(closing, s, Uncovered(s))
    /\ issued' = Plus(issued, s, Uncovered(s))
    /\ submitted' = Plus(submitted, s, Uncovered(s))
    /\ UNCHANGED <<pc, calls, ledger, target, seen, errors, expired, outcome>>
    /\ UNCHANGED <<market, canceling, lost, fresh>>

CloseRefused(s) ==
    /\ pc \in {"close", "cover"} /\ s \in todo /\ Uncovered(s) > 0
    /\ todo' = todo \ {s} /\ errors' = TRUE
    /\ UNCHANGED <<pc, calls, ledger, target, seen, submitted, expired, outcome>>
    /\ UNCHANGED <<market, canceling, closing, issued, lost, fresh>>

CloseAmbiguous(s) ==
    /\ lost < MaxLost /\ lost' = lost + 1
    /\ pc \in {"close", "cover"} /\ s \in todo /\ Uncovered(s) > 0
    /\ todo' = todo \ {s} /\ errors' = TRUE
    /\ closing' = Plus(closing, s, Uncovered(s))
    /\ issued' = Plus(issued, s, Uncovered(s))
    /\ UNCHANGED <<pc, calls, ledger, target, seen, submitted, expired, outcome>>
    /\ UNCHANGED <<market, canceling, fresh>>

CloseCovered(s) ==
    /\ pc \in {"close", "cover"} /\ s \in todo /\ Uncovered(s) <= 0
    /\ GoTo(pc, todo \ {s})

(* The initial closes lead to the loop test, later ones to the sleep first. *)
CloseEnds ==
    /\ todo = {}
    /\ \/ pc = "close" /\ GoTo("poll", {})
       \/ pc = "cover" /\ GoTo("sleep", {})

Wake == pc = "sleep" /\ GoTo("poll", {})

PollForever ==   \* mutant: the loop does not look at the deadline
    /\ pc = "poll" /\ pc' = "verify" /\ todo' = Targets
    /\ fresh' = Unlisted
    /\ UNCHANGED <<calls, ledger, target, seen, submitted, errors, expired, outcome>>
    /\ UNCHANGED <<market, canceling, closing, issued, lost>>

Poll ==
    /\ pc = "poll" /\ ~expired /\ pc' = "verify" /\ todo' = Targets
    /\ fresh' = Unlisted
    /\ UNCHANGED <<calls, ledger, target, seen, submitted, errors, expired, outcome>>
    /\ UNCHANGED <<market, canceling, closing, issued, lost>>

PollExpiredBlind ==   \* mutant: the last listing is not looked at
    pc = "poll" /\ expired /\ Return(TRUE)

PollExpired == pc = "poll" /\ expired /\ Return(Listed = {})

VerifyEnds ==
    /\ pc = "verify" /\ todo = {}
    /\ \/ Listed = {} /\ Return(TRUE)
       \/ Listed # {} /\ GoTo("cover", Listed)

(***************************************************************************)
(* The clock reaches min(final_flatten_deadline_at, start + timeout).      *)
(***************************************************************************)
DeadlinePasses ==
    /\ pc # "done" /\ ~expired /\ expired' = TRUE
    /\ UNCHANGED <<pc, calls, ledger, target, todo, seen, submitted, errors, outcome>>
    /\ UNCHANGED <<market, canceling, closing, issued, lost, fresh>>

(***************************************************************************)
(* Flatten is called again: by the general handler of the same run, which  *)
(* passes the same managed_quantities, or by a later run of the session,   *)
(* which passes none.  Of the first call itself nothing survives but the   *)
(* broker's state.                                                         *)
(***************************************************************************)
FlattenAgain ==
    /\ calls < MaxCalls /\ calls' = calls + 1
    /\ pc' = "discover" /\ outcome' = "none"
    /\ ledger' \in {ledger, None} /\ target' = None /\ todo' = {} /\ seen' = None
    /\ submitted' = None /\ issued' = None
    /\ errors' = FALSE /\ expired' = FALSE
    /\ UNCHANGED <<market, canceling, closing, lost, fresh>>

-----------------------------------------------------------------------------
(***************************************************************************)
(* The broker.  It sells no more than the account holds.  When the parent  *)
(* order has filled completely its exits go live, as new orders that an    *)
(* earlier cancellation does not reach.                                    *)
(***************************************************************************)
ParentFills(s) ==
    /\ \E q \in 1..open[s] :
          /\ open' = [open EXCEPT ![s] = open[s] - q]
          /\ bought' = Plus(bought, s, q)
          /\ fresh' = Plus(fresh, s, q)
          /\ IF q = open[s]
             THEN /\ leg' = [leg EXCEPT ![s] = Larger(bought[s] + q - sold[s], 0)]
                  /\ canceling' = canceling \ {s}
             ELSE UNCHANGED <<leg, canceling>>
    /\ UNCHANGED <<service, foreign, sold, closed, closing, issued, lost>>

LegFills(s) ==
    /\ \E q \in 1..Smaller(leg[s], Account(s)) :
          /\ leg' = [leg EXCEPT ![s] = leg[s] - q]
          /\ sold' = Plus(sold, s, q)
    /\ UNCHANGED <<service, foreign, open, bought, closed, canceling, closing, issued, lost, fresh>>

CancelSettles(s) ==
    /\ s \in canceling /\ canceling' = canceling \ {s}
    /\ open' = [open EXCEPT ![s] = 0]
    /\ leg' = [leg EXCEPT ![s] = 0]
    /\ UNCHANGED <<service, foreign, bought, sold, closed, closing, issued, lost, fresh>>

CloseFills(s) ==
    /\ \E q \in 1..Smaller(closing[s], Account(s)) :
          /\ closing' = [closing EXCEPT ![s] = closing[s] - q]
          /\ closed' = Plus(closed, s, q)
    /\ UNCHANGED <<service, foreign, open, bought, leg, sold, canceling, issued, lost, fresh>>

-----------------------------------------------------------------------------
ServiceStep ==
    \/ Discover \/ DiscoverRaises \/ CancelOrders \/ CancelOrdersRaises
    \/ ListEnds \/ ListRaises \/ VerifyRaises \/ CloseEnds \/ Wake
    \/ Poll \/ PollExpired \/ VerifyEnds
    \/ \E s \in Symbol : \/ ListPosition(s) \/ CloseUncovered(s) \/ CloseRefused(s)
                         \/ CloseAmbiguous(s) \/ CloseCovered(s)

BrokerStep ==
    \E s \in Symbol : ParentFills(s) \/ LegFills(s) \/ CancelSettles(s) \/ CloseFills(s)

FlattenNext == ServiceStep \/ DeadlinePasses \/ FlattenAgain \/ BrokerStep

FlattenSpec == FlattenInit /\ [][FlattenNext]_flattenVars

(***************************************************************************)
(* The single thread of flatten keeps running and the clock advances; the  *)
(* broker owes nothing.                                                    *)
(***************************************************************************)
FlattenFairSpec ==
    FlattenSpec /\ WF_flattenVars(ServiceStep) /\ WF_flattenVars(DeadlinePasses)

-----------------------------------------------------------------------------
(* Every variable stays in its type; quantities never go below zero.        *)
FlattenTypeOK ==
    /\ pc \in {"discover", "cancel", "list", "close", "poll", "verify", "cover",
               "sleep", "done"}
    /\ calls \in 1..MaxCalls /\ lost \in 0..MaxLost
    /\ outcome \in {"none", "complete", "incomplete"}
    /\ todo \subseteq Symbol /\ canceling \subseteq Symbol
    /\ errors \in BOOLEAN /\ expired \in BOOLEAN
    /\ ledger \in Quantity /\ target \in Quantity /\ seen \in Quantity
    /\ submitted \in Quantity /\ issued \in Quantity /\ fresh \in Quantity
    /\ foreign \in Quantity /\ open \in Quantity /\ bought \in Quantity
    /\ leg \in Quantity /\ sold \in Quantity
    /\ closing \in Quantity /\ closed \in Quantity
    /\ \A s \in Symbol : Account(s) >= 0

(***************************************************************************)
(* flatten is restricted to Daybreak's quantities: whatever fills between  *)
(* the polls, all the closes one call has the broker accept for a symbol   *)
(* are together no more than the target that call set out to close.        *)
(***************************************************************************)
ClosesWithinTarget == \A s \in Symbol : issued[s] <= target[s]

(***************************************************************************)
(* "Never duplicate an outstanding close": the closes waiting to fill ask  *)
(* for no more than the account holds, unless an exit of the bracket sold  *)
(* those shares first.                                                     *)
(***************************************************************************)
NoDuplicateClose == \A s \in Symbol : sold[s] = 0 => closing[s] <= Account(s)

(***************************************************************************)
(* A call that reports completion closed everything it set out to close:   *)
(* what the account still holds of a target was bought after that symbol's *)
(* position was last asked for.                                            *)
(***************************************************************************)
CompleteIsFlat ==
    outcome = "complete" =>
        \A s \in Targets : Account(s) - foreign[s] <= fresh[s]

(***************************************************************************)
(* However often positions reappear and closes fail, flatten returns: the  *)
(* loop is bounded by the verification deadline.                           *)
(***************************************************************************)
FlattenReturns == <>[](pc = "done")

=============================================================================
