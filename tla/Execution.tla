------------------------------ MODULE Execution ------------------------------
(***************************************************************************)
(* ExecutionService (daybreak_execution/service.py) for one execution      *)
(* request: submit, handle_trade_update and cancel_stale_entry, against a  *)
(* broker that fills, cancels and expires orders between any two requests, *)
(* loses replies, and reports changes on a stream that repeats, delays and *)
(* reorders them.                                                          *)
(*                                                                         *)
(* The service's lock lets one call run at a time.  Each broker request    *)
(* and each transaction of a call is a step, and the process may die       *)
(* between any two; what it stored and what the broker did stay.  Rows     *)
(* that are only written (events, hashes, requests) are left out.          *)
(***************************************************************************)
EXTENDS Integers

CONSTANTS
    Qty,       \* reserved_quantity, the quantity of the parent order
    MaxCalls   \* how many calls of the service there are (bound)

(***************************************************************************)
(* An approved reservation has a positive whole-share quantity.            *)
(***************************************************************************)
ASSUME ExecutionAssumption == Qty \in Nat \ {0} /\ MaxCalls \in Nat

VARIABLES
    pc,           \* where the call in progress is, "idle" if there is none
    calls,        \* calls so far
    fine,         \* what submit reports when all is well with the order
    update,       \* the trade update in hand
    command,      \* database: whether the entry command is stored
    stopCommand,  \* database: quantity of the stored protective command, or 0
    claimed,      \* database: the claimed trade updates
    reservation,  \* database: latest status of the risk reservation
    unfilled,     \* database: whether a snapshot of an unfilled parent is stored
    result,       \* database: the last result, its outcome and broker order
    orders,       \* broker: the parent order and the protective stop
    whole,        \* broker: whether the bracket has both legs as commanded
    canceling,    \* broker: orders whose cancellation was asked for
    inflight,     \* broker: orders posted whose reply timed out before they arrived
    emitted,      \* broker: the updates put on the stream
    cancels       \* history: updates that caused a cancellation, once and again

local == <<pc, calls, fine, update>>
stored == <<command, stopCommand, claimed, reservation, unfilled, result>>
broker == <<orders, whole, canceling, inflight, emitted>>
executionVars == <<local, stored, broker, cancels>>

Name == {"parent", "stop"}
Status == {"none", "new", "held", "partial", "pending", "filled", "canceled", "expired",
           "rejected"}
Quantity == 0..Qty
Order == [status : Status, qty : Quantity, filled : Quantity]
Update == [order : Name \cup {"leg"}, status : Status, filled : Quantity, source : {"stream", "initial"}]

Absent == [status |-> "none", qty |-> 0, filled |-> 0]
Placed(status, q) == [status |-> status, qty |-> q, filled |-> 0]
Snapshot(n, source) ==
    [order |-> n, status |-> orders[n].status, filled |-> orders[n].filled, source |-> source]
NoUpdate == [order |-> "parent", status |-> "none", filled |-> 0, source |-> "initial"]

Live(n) == orders[n].status \in {"new", "held", "partial", "pending"}
Exists(n) == orders[n].status # "none"

ExecutionInit ==
    /\ pc = "idle" /\ calls = 0 /\ fine = "submitted" /\ update = NoUpdate
    /\ command = FALSE /\ stopCommand = 0 /\ claimed = {}
    /\ reservation = "reserved" /\ unfilled = FALSE
    /\ result = [outcome |-> "none", order |-> NoUpdate]
    /\ orders = [n \in Name |-> Absent] /\ whole \in BOOLEAN
    /\ canceling = {} /\ inflight = {} /\ emitted = {}
    /\ cancels = [once |-> {}, again |-> {}]

-----------------------------------------------------------------------------
(* The parts of a call.                                                     *)
GoTo(label) == pc' = label /\ UNCHANGED <<calls, fine, update>>
Return(outcome, snapshot) ==
    GoTo("idle") /\ result' = [outcome |-> outcome, order |-> snapshot]
Call(label) ==
    /\ pc = "idle" /\ calls < MaxCalls /\ calls' = calls + 1 /\ pc' = label

(* _record_reservation_from_order                                           *)
ReservationFor(status) ==
    CASE status = "partial"  -> "partially_filled"
      [] status = "filled"   -> "filled"
      [] status = "expired"  -> "expired"
      [] status \in {"canceled", "rejected"} -> "released"
      [] OTHER -> "submitted"

(* _terminal_rejection and _broker_state_requires_reconciliation            *)
TerminalRejection(status) == status \in {"rejected", "canceled", "expired"}
RequiresReconciliation(status) == status = "held"

-----------------------------------------------------------------------------
(* submit: the request may be too old, past the cutoff or not executable,   *)
(* or it makes another command of a client_order_id that has one already.   *)
SubmitRefused ==
    /\ pc = "idle" /\ calls < MaxCalls /\ calls' = calls + 1
    /\ \E outcome \in {"rejected"} \cup IF command THEN {"reconcile"} ELSE {} :
          result' = [outcome |-> outcome, order |-> NoUpdate]
    /\ UNCHANGED <<pc, fine, update, command, stopCommand, claimed, reservation, unfilled>>
    /\ UNCHANGED <<broker, cancels>>

Submit ==
    /\ Call("lookup") /\ command' = TRUE /\ fine' = "existing"
    /\ UNCHANGED <<update, stopCommand, claimed, reservation, unfilled, result>>
    /\ UNCHANGED <<broker, cancels>>

LookupFails ==
    /\ pc = "lookup" /\ Return("reconcile", NoUpdate)
    /\ UNCHANGED <<command, stopCommand, claimed, reservation, unfilled, broker, cancels>>

LookupMisses ==
    /\ pc = "lookup" /\ ~Exists("parent")
    /\ pc' = "post" /\ fine' = "submitted"
    /\ UNCHANGED <<calls, update, stored, broker, cancels>>

(* An order that cancel_stale_entry would cancel.                           *)
Unfilled(snapshot) ==
    snapshot.filled = 0 /\ snapshot.status \in {"new", "held", "pending"}

(* The order in hand is stored, the reservation follows it, and its shape   *)
(* and status decide the outcome.                                           *)
Acknowledge(snapshot) ==
    /\ reservation' = ReservationFor(snapshot.status)
    /\ unfilled' = (unfilled \/ Unfilled(snapshot))
    /\ IF whole /\ snapshot.status = "partial"
       THEN /\ pc' = "claim" /\ update' = snapshot
            /\ UNCHANGED <<calls, fine, result>>
       ELSE /\ Return(IF ~whole THEN "reconcile"
                      ELSE IF TerminalRejection(snapshot.status) THEN "rejected"
                      ELSE IF RequiresReconciliation(snapshot.status) THEN "reconcile"
                      ELSE fine, snapshot)
    /\ UNCHANGED <<command, stopCommand, claimed>>

LookupFinds ==
    /\ pc \in {"lookup", "relookup"} /\ Exists("parent")
    /\ Acknowledge(Snapshot("parent", "initial"))
    /\ UNCHANGED <<broker, cancels>>

(* POST /v2/orders.  The broker takes a client_order_id once.               *)
Place(n, q) ==
    /\ ~Exists(n)
    /\ \E status \in {"new", "rejected"} :
          orders' = [orders EXCEPT ![n] = Placed(status, q)]
    /\ inflight' = inflight \ {n}
    /\ UNCHANGED <<whole, canceling, emitted>>

PostAccepted ==
    /\ pc = "post" /\ Place("parent", Qty)
    /\ GoTo("posted") /\ UNCHANGED <<stored, cancels>>

PostAnswered ==
    /\ pc = "posted" /\ Acknowledge(Snapshot("parent", "initial"))
    /\ UNCHANGED <<broker, cancels>>

PostTimesOutAssumed ==   \* mutant: the order is not looked for
    /\ pc \in {"post", "posted"} /\ Return(fine, NoUpdate)
    /\ inflight' \in IF pc = "post" THEN {inflight, inflight \cup {"parent"}} ELSE {inflight}
    /\ UNCHANGED <<command, stopCommand, claimed, reservation, unfilled>>
    /\ UNCHANGED <<orders, whole, canceling, emitted, cancels>>

(* A transient failure, before or after the order got there.                *)
PostTimesOut ==
    /\ pc \in {"post", "posted"} /\ GoTo("relookup")
    /\ inflight' \in IF pc = "post" THEN {inflight, inflight \cup {"parent"}} ELSE {inflight}
    /\ UNCHANGED <<stored, orders, whole, canceling, emitted, cancels>>

(* An error that is not transient: a refusal, or a reply that is no object. *)
PostRejected ==
    /\ pc \in {"post", "posted"} /\ Return("rejected", NoUpdate)
    /\ UNCHANGED <<command, stopCommand, claimed, reservation, unfilled, broker, cancels>>

RelookupFails ==
    /\ pc = "relookup" /\ Return("reconcile", NoUpdate)
    /\ UNCHANGED <<command, stopCommand, claimed, reservation, unfilled, broker, cancels>>

-----------------------------------------------------------------------------
(* handle_trade_update.  submit hands it the partial fill it finds itself.  *)
Deliver ==
    /\ Call("claim") /\ update' \in emitted
    /\ UNCHANGED <<fine, stored, broker, cancels>>

(* The exits of the bracket have client_order_ids of the broker's making.   *)
Known(n) == (n = "parent" /\ command) \/ (n = "stop" /\ stopCommand > 0)

ClaimIgnored ==   \* mutant: a claimed update is handled again
    /\ pc = "claim"
    /\ claimed' = claimed \cup {update} /\ GoTo("claimed")
    /\ UNCHANGED <<command, stopCommand, reservation, unfilled, result, broker, cancels>>

Claim ==
    /\ pc = "claim" /\ update \notin claimed
    /\ claimed' = claimed \cup {update} /\ GoTo("claimed")
    /\ UNCHANGED <<command, stopCommand, reservation, unfilled, result, broker, cancels>>

AlreadyClaimed ==
    /\ pc = "claim" /\ update \in claimed
    /\ Return(IF Known(update.order) THEN "existing" ELSE "reconcile", update)
    /\ UNCHANGED <<command, stopCommand, claimed, reservation, unfilled, broker, cancels>>

UnknownCommand ==
    /\ pc = "claimed" /\ ~Known(update.order) /\ Return("reconcile", update)
    /\ UNCHANGED <<command, stopCommand, claimed, reservation, unfilled, broker, cancels>>

Apply ==
    /\ pc = "claimed" /\ Known(update.order)
    /\ reservation' = ReservationFor(update.status)
    /\ unfilled' = (unfilled \/ (update.order = "parent" /\ Unfilled(update)))
    /\ IF update.status = "partial"
       THEN GoTo("cancel") /\ UNCHANGED result
       ELSE Return("existing", update)
    /\ UNCHANGED <<command, stopCommand, claimed, broker, cancels>>

CountCancel ==
    cancels' = [once |-> cancels.once \cup {update},
                again |-> cancels.again \cup ({update} \cap cancels.once)]

(* DELETE /v2/orders/{id}.  An error leaves open whether it was asked for.  *)
RequestCancel ==
    /\ pc = "cancel" /\ Live(update.order)
    /\ canceling' = canceling \cup {update.order}
    /\ CountCancel
    /\ GoTo("refetch")
    /\ UNCHANGED <<stored, orders, whole, inflight, emitted>>

RequestCancelFails ==
    /\ pc = "cancel"
    /\ canceling' \in {canceling, IF Live(update.order) THEN canceling \cup {update.order}
                                                        ELSE canceling}
    /\ CountCancel
    /\ Return("reconcile", update)
    /\ UNCHANGED <<command, stopCommand, claimed, reservation, unfilled>>
    /\ UNCHANGED <<orders, whole, inflight, emitted>>

(* get_order, once the cancellation was accepted.  Unless the order filled  *)
(* after all, only a confirmed cancellation leads on to the stop.           *)
Refetched == orders[update.order]

RefetchFails ==
    /\ pc = "refetch"
    /\ \/ Return("reconcile", update)
       \/ Refetched.status = "filled"
          /\ Return(IF update.order = "parent" /\ ~whole THEN "reconcile" ELSE "existing",
                    Snapshot(update.order, "initial"))
    /\ UNCHANGED <<command, stopCommand, claimed, reservation, unfilled, broker, cancels>>

(* save_command: the same client_order_id with another quantity is refused. *)
SaveStopCommandUnconfirmed ==   \* mutant: the cancellation is not confirmed
    /\ pc = "refetch" /\ Refetched.filled > 0
    /\ stopCommand \in {0, Refetched.filled}
    /\ stopCommand' = Refetched.filled /\ GoTo("stopLookup")
    /\ UNCHANGED <<command, claimed, reservation, unfilled, result, broker, cancels>>

SaveStopCommandWhole ==   \* mutant: a stop for the whole order
    /\ pc = "refetch" /\ Refetched.status = "canceled" /\ Refetched.filled > 0
    /\ stopCommand \in {0, Qty}
    /\ stopCommand' = Qty /\ GoTo("stopLookup")
    /\ UNCHANGED <<command, claimed, reservation, unfilled, result, broker, cancels>>

SaveStopCommand ==
    /\ pc = "refetch" /\ Refetched.status = "canceled" /\ Refetched.filled > 0
    /\ stopCommand \in {0, Refetched.filled}
    /\ stopCommand' = Refetched.filled /\ GoTo("stopLookup")
    /\ UNCHANGED <<command, claimed, reservation, unfilled, result, broker, cancels>>

SaveStopCommandRaises ==
    /\ pc = "refetch" /\ Refetched.status = "canceled"
    /\ stopCommand \notin {0, Refetched.filled} /\ GoTo("idle")
    /\ UNCHANGED <<stored, broker, cancels>>

StopMatches == orders["stop"].qty = stopCommand
Protected == Return(IF StopMatches THEN "protected" ELSE "reconcile",
                    Snapshot(update.order, "initial"))

StopFound ==
    /\ pc \in {"stopLookup", "stopPosted"} /\ Exists("stop") /\ Protected
    /\ UNCHANGED <<command, stopCommand, claimed, reservation, unfilled, broker, cancels>>

StopMissing ==
    /\ pc = "stopLookup" /\ ~Exists("stop") /\ GoTo("stopPost")
    /\ UNCHANGED <<stored, broker, cancels>>

StopAccepted ==
    /\ pc = "stopPost" /\ Place("stop", stopCommand) /\ GoTo("stopPosted")
    /\ UNCHANGED <<stored, cancels>>

(* Any error of the lookup or of the POST, the order taken or not.          *)
StopFails ==
    /\ pc \in {"stopLookup", "stopPost", "stopPosted"} /\ Return("reconcile", update)
    /\ inflight' \in IF pc = "stopPost" THEN {inflight, inflight \cup {"stop"}} ELSE {inflight}
    /\ UNCHANGED <<command, stopCommand, claimed, reservation, unfilled>>
    /\ UNCHANGED <<orders, whole, canceling, emitted, cancels>>

(* cancel_stale_entry, with a snapshot that may be out of date; the request *)
(* may fail.                                                                *)
CancelStaleEntry ==
    /\ pc = "idle" /\ unfilled /\ calls < MaxCalls /\ calls' = calls + 1
    /\ canceling' \in {canceling, IF Live("parent") THEN canceling \cup {"parent"}
                                                     ELSE canceling}
    /\ UNCHANGED <<pc, fine, update, stored, orders, whole, inflight, emitted, cancels>>

(* The process dies, or the database does not answer; the call is over.     *)
Crash ==
    /\ pc # "idle" /\ GoTo("idle")
    /\ UNCHANGED <<stored, broker, cancels>>

-----------------------------------------------------------------------------
(* The broker.                                                              *)
Becomes(n, status, filled) ==
    /\ orders' = [orders EXCEPT ![n] =
                      [status |-> status, qty |-> orders[n].qty, filled |-> filled]]
    /\ emitted' = emitted \cup {[order |-> n, status |-> status, filled |-> filled,
                                 source |-> "stream"]}
    /\ UNCHANGED <<local, stored, whole, canceling, inflight, cancels>>

Fill(n) ==
    /\ Live(n)
    /\ \E q \in (orders[n].filled + 1)..orders[n].qty :
          Becomes(n, IF q = orders[n].qty THEN "filled"
                     ELSE IF orders[n].status = "pending" THEN "pending" ELSE "partial", q)

Hold(n) == orders[n].status \in {"new", "partial"} /\ Becomes(n, "held", orders[n].filled)
Expire(n) == Live(n) /\ Becomes(n, "expired", orders[n].filled)
CancelPends(n) ==
    /\ n \in canceling /\ Live(n) /\ orders[n].status # "pending"
    /\ Becomes(n, "pending", orders[n].filled)
CancelSettles(n) == n \in canceling /\ Live(n) /\ Becomes(n, "canceled", orders[n].filled)

(* An exit of the filled bracket fills; only its first update is followed.  *)
LegFills ==
    /\ orders["parent"].status = "filled" /\ whole
    /\ \A u \in emitted : u.order # "leg"
    /\ \E q \in 1..Qty :
          emitted' = emitted \cup {[order |-> "leg", filled |-> q, source |-> "stream",
                                   status |-> IF q = Qty THEN "filled" ELSE "partial"]}
    /\ UNCHANGED <<local, stored, orders, whole, canceling, inflight, cancels>>

Arrives(n) ==
    /\ n \in inflight
    /\ Place(n, IF n = "parent" THEN Qty ELSE stopCommand)
    /\ UNCHANGED <<local, stored, cancels>>

-----------------------------------------------------------------------------
CallStep ==
    \/ SubmitRefused \/ Submit \/ LookupFails \/ LookupMisses \/ LookupFinds
    \/ PostAccepted \/ PostAnswered \/ PostTimesOut \/ PostRejected \/ RelookupFails
    \/ Deliver \/ Claim \/ AlreadyClaimed \/ UnknownCommand \/ Apply
    \/ RequestCancel \/ RequestCancelFails \/ RefetchFails \/ SaveStopCommand
    \/ SaveStopCommandRaises \/ StopFound \/ StopMissing \/ StopAccepted \/ StopFails
    \/ CancelStaleEntry \/ Crash

OrderStep ==
    LegFills \/ \E n \in Name :
        Fill(n) \/ Hold(n) \/ Expire(n) \/ CancelPends(n) \/ CancelSettles(n) \/ Arrives(n)

ExecutionNext == CallStep \/ OrderStep

ExecutionSpec == ExecutionInit /\ [][ExecutionNext]_executionVars

-----------------------------------------------------------------------------
(* Every variable stays in its type.                                        *)
ExecutionTypeOK ==
    /\ pc \in {"idle", "lookup", "post", "posted", "relookup", "claim", "claimed", "cancel",
               "refetch", "stopLookup", "stopPost", "stopPosted"}
    /\ calls \in 0..MaxCalls /\ fine \in {"submitted", "existing"}
    /\ update \in Update /\ claimed \subseteq Update /\ emitted \subseteq Update
    /\ command \in BOOLEAN /\ whole \in BOOLEAN /\ unfilled \in BOOLEAN
    /\ stopCommand \in Quantity
    /\ reservation \in {"reserved", "submitted", "partially_filled", "filled", "released",
                        "expired"}
    /\ result \in [outcome : {"none", "submitted", "existing", "rejected", "reconcile",
                              "protected"}, order : Update]
    /\ orders \in [Name -> Order]
    /\ canceling \subseteq Name /\ inflight \subseteq Name
    /\ cancels \in [once : SUBSET Update, again : SUBSET Update]

(***************************************************************************)
(* A partial fill reported as protected has its parent canceled and a stop *)
(* for exactly the shares that the parent bought in the end, although more *)
(* of them may have filled while the cancellation was on its way.          *)
(***************************************************************************)
ProtectedMeansCovered ==
    result.outcome = "protected" =>
        /\ orders["parent"].status = "canceled"
        /\ orders["stop"].qty = orders["parent"].filled

(***************************************************************************)
(* No stop is placed for more shares than the parent bought: whatever is   *)
(* lost, repeated or late, Daybreak's stop cannot sell short.              *)
(***************************************************************************)
StopWithinFill == Exists("stop") => orders["stop"].qty <= orders["parent"].filled

(***************************************************************************)
(* Every update is claimed once before side effects: it causes at most one *)
(* cancellation, however often it is delivered and wherever a call dies.   *)
(***************************************************************************)
CancelsOnce == cancels.again = {}

(***************************************************************************)
(* A result that reports success is about an order the broker has.         *)
(***************************************************************************)
SuccessMeansOrder ==
    result.outcome \in {"submitted", "existing", "protected"} => Exists("parent")

(***************************************************************************)
(* The service fails closed when the state cannot be proven: a request is  *)
(* not reported as rejected, with nothing to reconcile, while its order    *)
(* was working at the broker or had bought shares when the result came.    *)
(* Not claimed by a run: refuted with Qty = 2 and MaxCalls = 3, see the    *)
(* README, "Divergences".                                                  *)
(***************************************************************************)
RejectedMeansNoOrder ==
    [][result' # result /\ result'.outcome = "rejected" =>
          ~Live("parent") /\ orders["parent"].filled = 0]_executionVars

(***************************************************************************)
(* A partial fill is never reported as settled, with nothing to reconcile, *)
(* before a stop was placed or the order filled.  Not claimed by a run:    *)
(* refuted with Qty = 2 and MaxCalls = 3, see the README, "Divergences".   *)
(***************************************************************************)
PartialNeverForgotten ==
    result.outcome = "existing" /\ result.order.order = "parent"
        /\ result.order.status = "partial" =>
            Exists("stop") \/ orders["parent"].status = "filled"

(***************************************************************************)
(* What the service reports as done is so at the broker: an order it calls *)
(* placed exists, and one it calls protected has a stop for what it bought.*)
(***************************************************************************)
ResultIsTrue == ProtectedMeansCovered /\ SuccessMeansOrder
=============================================================================
