-------------------------- MODULE ExecutionProofs ---------------------------
(***************************************************************************)
(* Proofs about Execution, for every quantity and any number of calls.     *)
(***************************************************************************)
EXTENDS Execution, TLAPS

FlagsOK == command \in BOOLEAN /\ whole \in BOOLEAN /\ unfilled \in BOOLEAN

Reservation == {"reserved", "submitted", "partially_filled", "filled", "released", "expired"}

\* An order the broker does not have is blank, and one that is not filled has shares
\* left to fill.
OrderOK(n) ==
  /\ ~ Exists(n) => orders[n] = Absent
  /\ Exists(n) /\ orders[n].status # "filled" => orders[n].filled < orders[n].qty

\* A protective command is only stored for what a canceled parent bought, which does not
\* change any more, and every stop is the one that was commanded.
StopIsCommanded ==
  /\ stopCommand > 0 =>
       orders["parent"].status = "canceled" /\ orders["parent"].filled = stopCommand
  /\ Exists("stop") => stopCommand > 0 /\ orders["stop"].qty = stopCommand
  /\ "stop" \in inflight \/ pc \in {"stopLookup", "stopPost", "stopPosted"} => stopCommand > 0

\* A POST that was answered has placed its order.
PostedExists ==
  /\ pc = "posted" => Exists("parent")
  /\ pc = "stopPosted" => Exists("stop")

\* Whatever an update is about was placed; "leg" is an exit of the parent's bracket.
AboutOrder(u) == Exists(IF u.order = "stop" THEN "stop" ELSE "parent")

UpdatesOK ==
  /\ \A u \in emitted : AboutOrder(u)
  /\ pc \in {"claim", "claimed", "cancel", "refetch"} => AboutOrder(update)
  /\ pc \in {"cancel", "refetch", "stopLookup", "stopPost", "stopPosted"} => update.order \in Name

\* An update that has caused a cancellation is claimed, and the call that holds a claim
\* has not used it yet.
ClaimsOK ==
  /\ cancels.again = {} /\ cancels.once \subseteq claimed
  /\ pc \in {"claimed", "cancel"} => update \in claimed \ cancels.once

\* The last result is true, and a protected one has its stop.
ResultOK ==
  /\ ResultIsTrue
  /\ result.outcome = "protected" => Exists("stop")

\* The inductive invariant.
ExecutionInv ==
  /\ ExecutionTypeOK
  /\ \A n \in Name : OrderOK(n)
  /\ StopIsCommanded /\ PostedExists /\ UpdatesOK /\ ClaimsOK /\ ResultOK

USE ExecutionAssumption

\* Before the first call there is no order, command or claim.
LEMMA ExecutionInitInv == ExecutionInit => ExecutionInv
<1> SUFFICES ASSUME ExecutionInit PROVE ExecutionInv
  OBVIOUS
<1>1. NoUpdate \in Update /\ Absent \in Order
  BY DEF NoUpdate, Update, Absent, Order, Name, Status, Quantity
<1>2. ExecutionTypeOK
  <2>1. FlagsOK
    BY DEF ExecutionInit, FlagsOK
  <2> QED BY <1>1, <2>1 DEF ExecutionInit, ExecutionTypeOK, FlagsOK, Quantity
<1>3. \A n \in Name : orders[n] = Absent /\ ~ Exists(n)
  BY DEF ExecutionInit, Exists, Absent
<1> QED BY <1>2, <1>3 DEF ExecutionInit, ExecutionInv, OrderOK, StopIsCommanded, PostedExists,
           UpdatesOK, ClaimsOK, ResultOK, ResultIsTrue, ProtectedMeansCovered,
           SuccessMeansOrder, Name

\* What the broker's snapshot of an order is.
LEMMA SnapshotType ==
  ASSUME ExecutionTypeOK, NEW n \in Name, NEW s \in {"stream", "initial"}
  PROVE  /\ Snapshot(n, s) \in Update
         /\ Snapshot(n, s).order = n /\ Snapshot(n, s).status = orders[n].status
  BY DEF ExecutionTypeOK, Snapshot, Update, Order, Name

\* A step of a call that leaves the broker's orders and updates alone.
LEMMA SteadyBroker ==
  ASSUME ExecutionInv, UNCHANGED <<orders, emitted>>
  PROVE  /\ \A n \in Name : OrderOK(n)' /\ (Exists(n)' <=> Exists(n))
         /\ \A u : AboutOrder(u)' <=> AboutOrder(u)
         /\ \A u \in emitted' : AboutOrder(u)'
  BY DEF ExecutionInv, OrderOK, Exists, UpdatesOK, AboutOrder

\* A call's step that changes nothing but where the call is, or its result.
LEMMA LocalKeepsInv ==
  ASSUME ExecutionInv, UNCHANGED <<orders, emitted, cancels, stopCommand, claimed>>,
         ExecutionTypeOK', StopIsCommanded', PostedExists',
         pc' \in {"claim", "claimed", "cancel", "refetch"} => AboutOrder(update'),
         pc' \in {"cancel", "refetch", "stopLookup", "stopPost", "stopPosted"} =>
             update'.order \in Name,
         pc' \in {"claimed", "cancel"} => update' \in claimed \ cancels.once,
         \/ result' = result
         \/ /\ result'.outcome \in {"submitted", "existing"} => Exists("parent")
            /\ result'.outcome # "protected"
  PROVE  ExecutionInv'
<1>1. UpdatesOK' /\ \A n \in Name : OrderOK(n)'
  BY SteadyBroker DEF UpdatesOK
<1>2. ClaimsOK'
  BY DEF ExecutionInv, ClaimsOK, ExecutionTypeOK
<1>3. ResultOK'
  BY SteadyBroker DEF ExecutionInv, ResultOK, ResultIsTrue, ProtectedMeansCovered,
     SuccessMeansOrder, Name, ExecutionTypeOK
<1> QED BY <1>1, <1>2, <1>3 DEF ExecutionInv

\* The flags stay flags.
LEMMA FlagsStay == ExecutionInv /\ [ExecutionNext]_executionVars => FlagsOK'
<1> SUFFICES ASSUME ExecutionInv, [ExecutionNext]_executionVars PROVE FlagsOK'
  OBVIOUS
<1>1. command \in BOOLEAN /\ whole \in BOOLEAN /\ unfilled \in BOOLEAN
  BY DEF ExecutionInv, ExecutionTypeOK
<1>2. CASE CallStep
  <2>1. CASE Submit
    BY <1>1, <2>1 DEF Submit, FlagsOK, broker
  <2>2. CASE LookupFinds \/ PostAnswered
    BY <1>1, <2>2 DEF LookupFinds, PostAnswered, Acknowledge, FlagsOK, broker
  <2>3. CASE Apply
    BY <1>1, <2>3 DEF Apply, FlagsOK, broker
  <2>4. CASE PostAccepted \/ StopAccepted
    BY <1>1, <2>4 DEF PostAccepted, StopAccepted, Place, FlagsOK, stored
  <2>5. CASE ~ (Submit \/ LookupFinds \/ PostAnswered \/ Apply \/ PostAccepted \/ StopAccepted)
    <3>1. UNCHANGED <<command, whole, unfilled>>
      BY <1>2, <2>5 DEF CallStep, stored, broker,
        SubmitRefused, LookupFails, LookupMisses, PostTimesOut, PostRejected, RelookupFails,
        Deliver, Claim, AlreadyClaimed, UnknownCommand, RequestCancel, RequestCancelFails,
        RefetchFails, SaveStopCommand, SaveStopCommandRaises, StopFound, StopMissing, StopFails,
        CancelStaleEntry, Crash
    <3> QED BY <1>1, <3>1 DEF FlagsOK
  <2> QED BY <2>1, <2>2, <2>3, <2>4, <2>5
<1>3. CASE OrderStep \/ UNCHANGED executionVars
  <2>1. UNCHANGED <<command, whole, unfilled>>
    BY <1>3 DEF OrderStep, LegFills, Fill, Hold, Expire, CancelPends, CancelSettles, Arrives,
       Place, Becomes, stored, executionVars, broker
  <2> QED BY <1>1, <2>1 DEF FlagsOK
<1> QED BY <1>2, <1>3 DEF ExecutionNext

\* A call that ends with a result other than "protected".
LEMMA ReturnsKeepInv ==
  ASSUME ExecutionInv, FlagsOK',
         NEW o \in {"submitted", "existing", "rejected", "reconcile"}, NEW u \in Update,
         pc' = "idle", result' = [outcome |-> o, order |-> u],
         calls' \in 0 .. MaxCalls, reservation' \in Reservation,
         o \in {"submitted", "existing"} => Exists("parent"),
         inflight' \subseteq Name, "stop" \in inflight' => stopCommand > 0,
         UNCHANGED <<fine, update, stopCommand, claimed, orders, canceling, emitted, cancels>>
  PROVE  ExecutionInv'
<1>1. /\ result' \in [outcome : {"none", "submitted", "existing", "rejected", "reconcile",
                                 "protected"}, order : Update]
      /\ result'.outcome = o
  OBVIOUS
<1>2. ExecutionTypeOK'
  BY <1>1 DEF ExecutionInv, ExecutionTypeOK, FlagsOK, Reservation
<1>3. StopIsCommanded' /\ PostedExists'
  BY SteadyBroker DEF ExecutionInv, StopIsCommanded, PostedExists, Name
<1> QED BY <1>1, <1>2, <1>3, LocalKeepsInv

\* The same, when the broker is not involved.
LEMMA QuietReturn ==
  ASSUME ExecutionInv, FlagsOK',
         NEW o \in {"submitted", "existing", "rejected", "reconcile"}, NEW u \in Update,
         pc' = "idle", result' = [outcome |-> o, order |-> u],
         calls' \in 0 .. MaxCalls, reservation' \in Reservation,
         o \in {"submitted", "existing"} => Exists("parent"),
         UNCHANGED <<fine, update, stopCommand, claimed, broker, cancels>>
  PROVE  ExecutionInv'
<1>1. inflight' \subseteq Name /\ ("stop" \in inflight' => stopCommand > 0)
  BY DEF ExecutionInv, ExecutionTypeOK, StopIsCommanded, broker
<1>2. UNCHANGED <<orders, canceling, emitted>>
  BY DEF broker
<1> QED BY <1>1, <1>2, ReturnsKeepInv

\* The ends of submit and of handle_trade_update that report no protection.
LEMMA EndsKeepInv ==
  ASSUME ExecutionInv, FlagsOK',
         \/ SubmitRefused \/ LookupFails \/ PostRejected \/ RelookupFails
         \/ AlreadyClaimed \/ UnknownCommand \/ RefetchFails
  PROVE  ExecutionInv'
<1> USE DEF GoTo, Return
<1>0. NoUpdate \in Update /\ reservation \in Reservation /\ calls \in 0 .. MaxCalls /\ update \in Update
  BY DEF NoUpdate, Update, Name, Status, Quantity, ExecutionInv, ExecutionTypeOK, Reservation
<1>1. CASE SubmitRefused \/ LookupFails \/ PostRejected \/ RelookupFails
  BY <1>0, <1>1, QuietReturn DEF SubmitRefused, LookupFails, PostRejected, RelookupFails
<1>2. CASE AlreadyClaimed \/ UnknownCommand
  <2>1. Exists("parent")
    BY <1>2 DEF AlreadyClaimed, UnknownCommand, ExecutionInv, UpdatesOK, AboutOrder,
       StopIsCommanded, Exists
  <2> QED BY <1>0, <1>2, <2>1, QuietReturn DEF AlreadyClaimed, UnknownCommand
<1>3. CASE RefetchFails
  <2>1. update.order \in Name /\ Exists("parent")
    BY <1>3 DEF RefetchFails, ExecutionInv, UpdatesOK, AboutOrder, StopIsCommanded, Exists
  <2>2. Snapshot(update.order, "initial") \in Update
    BY <2>1, SnapshotType DEF ExecutionInv
  <2> QED BY <1>0, <1>3, <2>1, <2>2, QuietReturn DEF RefetchFails
<1> QED BY <1>1, <1>2, <1>3

\* Steps of a call that only move it on.
LEMMA MovesKeepInv ==
  ASSUME ExecutionInv, FlagsOK',
         \/ Submit \/ LookupMisses \/ Deliver \/ SaveStopCommandRaises \/ StopMissing
         \/ Crash \/ UNCHANGED executionVars
  PROVE  ExecutionInv'
<1> USE DEF GoTo, Call
<1>1. /\ UNCHANGED <<stopCommand, claimed, reservation, result, broker, cancels>>
      /\ calls' \in 0 .. MaxCalls /\ fine' \in {"submitted", "existing"}
      /\ \/ pc' \in {"idle", "lookup", "post"} /\ update' = update
         \/ pc' = pc /\ update' = update
         \/ pc' = "claim" /\ update' \in emitted
         \/ pc = "stopLookup" /\ pc' = "stopPost" /\ update' = update
  BY DEF ExecutionInv, ExecutionTypeOK, Submit, LookupMisses, Deliver, SaveStopCommandRaises,
     StopMissing, Crash, executionVars, local, stored, broker
<1>2. ExecutionTypeOK'
  BY <1>1 DEF ExecutionInv, ExecutionTypeOK, FlagsOK, broker
<1>3. StopIsCommanded' /\ PostedExists'
  BY <1>1, SteadyBroker DEF ExecutionInv, StopIsCommanded, PostedExists, broker, Name
<1> QED BY <1>1, <1>2, <1>3, LocalKeepsInv DEF ExecutionInv, UpdatesOK, ClaimsOK, broker

\* The order in hand is acknowledged; a partial fill goes on to handle_trade_update.
LEMMA AcknowledgeKeepsInv ==
  ASSUME ExecutionInv, FlagsOK', LookupFinds \/ PostAnswered
  PROVE  ExecutionInv'
<1> DEFINE s == Snapshot("parent", "initial")
<1>1. Exists("parent") /\ Acknowledge(s) /\ UNCHANGED <<broker, cancels>>
  BY DEF ExecutionInv, PostedExists, LookupFinds, PostAnswered
<1>2. s \in Update /\ s.order = "parent" /\ ReservationFor(s.status) \in Reservation
  BY SnapshotType DEF ExecutionInv, Name, ReservationFor, Reservation
<1> HIDE DEF s
<1>3. CASE whole /\ s.status = "partial"
  <2>1. /\ pc' = "claim" /\ update' = s /\ reservation' \in Reservation
        /\ UNCHANGED <<calls, fine, result, stopCommand, claimed>>
    BY <1>1, <1>2, <1>3 DEF Acknowledge
  <2>2. ExecutionTypeOK'
    BY <1>1, <1>2, <2>1 DEF ExecutionInv, ExecutionTypeOK, FlagsOK, Reservation, broker
  <2>3. StopIsCommanded' /\ PostedExists'
    BY <1>1, <2>1, SteadyBroker DEF ExecutionInv, StopIsCommanded, PostedExists, broker, Name
  <2>4. AboutOrder(update')
    BY <1>1, <1>2, <2>1 DEF AboutOrder
  <2> QED BY <1>1, <2>1, <2>2, <2>3, <2>4, LocalKeepsInv DEF broker
<1>4. CASE ~ (whole /\ s.status = "partial")
  <2>1. PICK o \in {"submitted", "existing", "rejected", "reconcile"} : Return(o, s)
    BY <1>1, <1>4 DEF Acknowledge, ExecutionInv, ExecutionTypeOK
  <2> QED BY <1>1, <1>2, <1>4, <2>1, QuietReturn
          DEF Acknowledge, Return, GoTo, ExecutionInv, ExecutionTypeOK
<1> QED BY <1>3, <1>4

\* An update is claimed, and what it says of its order stored.
LEMMA ClaimKeepsInv ==
  ASSUME ExecutionInv, FlagsOK', Claim \/ Apply
  PROVE  ExecutionInv'
<1> USE DEF GoTo
<1>1. CASE Claim
  <2>1. ExecutionTypeOK'
    BY <1>1 DEF Claim, ExecutionInv, ExecutionTypeOK, FlagsOK, broker
  <2>2. StopIsCommanded' /\ PostedExists' /\ UpdatesOK' /\ \A n \in Name : OrderOK(n)'
    BY <1>1, SteadyBroker DEF Claim, ExecutionInv, StopIsCommanded, PostedExists, UpdatesOK,
       broker, Name
  <2>3. ClaimsOK'
    BY <1>1 DEF Claim, ExecutionInv, ExecutionTypeOK, ClaimsOK
  <2>4. ResultOK'
    BY <1>1, SteadyBroker DEF Claim, ExecutionInv, ResultOK, ResultIsTrue,
       ProtectedMeansCovered, SuccessMeansOrder, Name, broker
  <2> QED BY <2>1, <2>2, <2>3, <2>4 DEF ExecutionInv
<1>2. CASE Apply /\ update.status = "partial"
  <2>1. /\ pc' = "cancel" /\ reservation' \in Reservation /\ update.order \in Name
        /\ UNCHANGED <<calls, fine, update, result, stopCommand, claimed, broker, cancels>>
    BY <1>2 DEF Apply, Known, Name, ReservationFor, Reservation
  <2>2. ExecutionTypeOK'
    BY <2>1 DEF ExecutionInv, ExecutionTypeOK, FlagsOK, Reservation, broker
  <2>3. StopIsCommanded' /\ PostedExists'
    BY <2>1, SteadyBroker DEF ExecutionInv, StopIsCommanded, PostedExists, broker, Name
  <2>4. pc = "claimed"
    BY <1>2 DEF Apply
  <2> QED BY <2>1, <2>2, <2>3, <2>4, LocalKeepsInv DEF ExecutionInv, UpdatesOK, ClaimsOK, broker
<1>3. CASE Apply /\ update.status # "partial"
  <2>1. /\ Return("existing", update) /\ reservation' \in Reservation
        /\ UNCHANGED <<stopCommand, claimed, broker, cancels>>
    BY <1>3 DEF Apply, ReservationFor, Reservation
  <2>2. Exists("parent")
    BY <1>3 DEF Apply, ExecutionInv, UpdatesOK, AboutOrder, StopIsCommanded, Exists
  <2> QED BY <2>1, <2>2, QuietReturn DEF Return, ExecutionInv, ExecutionTypeOK
<1> QED BY <1>1, <1>2, <1>3

\* A POST that is given up: its order may still be on its way.
LEMMA GivingUpKeepsInv ==
  ASSUME ExecutionInv, FlagsOK', PostTimesOut \/ StopFails
  PROVE  ExecutionInv'
<1>1. CASE PostTimesOut
  <2>1. /\ pc' = "relookup" /\ inflight' \subseteq Name /\ ("stop" \in inflight' => "stop" \in inflight)
        /\ UNCHANGED <<calls, fine, update, stopCommand, claimed, reservation, result>>
        /\ UNCHANGED <<orders, canceling, emitted, cancels>>
    BY <1>1 DEF PostTimesOut, GoTo, stored, ExecutionInv, ExecutionTypeOK, Name
  <2>2. ExecutionTypeOK'
    BY <2>1 DEF ExecutionInv, ExecutionTypeOK, FlagsOK
  <2>3. StopIsCommanded' /\ PostedExists'
    BY <2>1, SteadyBroker DEF ExecutionInv, StopIsCommanded, PostedExists, Name
  <2> QED BY <2>1, <2>2, <2>3, LocalKeepsInv
<1>2. CASE StopFails
  <2>1. stopCommand > 0 /\ inflight' \subseteq Name
    BY <1>2 DEF StopFails, ExecutionInv, ExecutionTypeOK, StopIsCommanded, Name
  <2> QED BY <1>2, <2>1, ReturnsKeepInv
          DEF StopFails, Return, GoTo, ExecutionInv, ExecutionTypeOK, Reservation
<1> QED BY <1>1, <1>2

\* Asking for a cancellation: the claim is used up.
LEMMA CancelKeepsInv ==
  ASSUME ExecutionInv, FlagsOK', RequestCancel \/ RequestCancelFails \/ CancelStaleEntry
  PROVE  ExecutionInv'
<1> USE DEF GoTo, Return
<1>1. /\ UNCHANGED <<fine, update, stopCommand, claimed, reservation, orders, inflight, emitted>>
      /\ calls' \in 0 .. MaxCalls
      /\ \/ pc = "cancel" /\ pc' = "refetch" /\ result' = result
         \/ pc' = "idle" /\ result' = [outcome |-> "reconcile", order |-> update]
         \/ pc = "idle" /\ pc' = "idle" /\ result' = result
      /\ \/ cancels' = cancels
         \/ pc = "cancel" /\ CountCancel
  BY DEF RequestCancel, RequestCancelFails, CancelStaleEntry, stored, ExecutionInv, ExecutionTypeOK
<1>2. canceling' \subseteq Name
  BY DEF RequestCancel, RequestCancelFails, CancelStaleEntry, ExecutionInv, ExecutionTypeOK,
     UpdatesOK, Name
<1>3. result' \in [outcome : {"none", "submitted", "existing", "rejected", "reconcile",
                              "protected"}, order : Update]
  BY <1>1 DEF ExecutionInv, ExecutionTypeOK
<1>4. ExecutionTypeOK'
  <2>1. cancels' \in [once : SUBSET Update, again : SUBSET Update]
    BY <1>1 DEF ExecutionInv, ExecutionTypeOK, CountCancel
  <2> QED BY <1>1, <1>2, <1>3, <2>1 DEF ExecutionInv, ExecutionTypeOK, FlagsOK
<1>5. StopIsCommanded' /\ PostedExists' /\ UpdatesOK' /\ \A n \in Name : OrderOK(n)'
  BY <1>1, SteadyBroker DEF ExecutionInv, StopIsCommanded, PostedExists, UpdatesOK, Name
<1>6. ClaimsOK'
  BY <1>1 DEF ExecutionInv, ExecutionTypeOK, ClaimsOK, CountCancel
<1>7. ResultOK'
  BY <1>1, SteadyBroker DEF ExecutionInv, ResultOK, ResultIsTrue, ProtectedMeansCovered,
     SuccessMeansOrder, Name
<1> QED BY <1>4, <1>5, <1>6, <1>7 DEF ExecutionInv

\* The protective command is for what the canceled parent bought: a stop that was canceled
\* itself has shares left, so the command that placed it has another quantity.
LEMMA SaveStopKeepsInv ==
  ASSUME ExecutionInv, FlagsOK', SaveStopCommand
  PROVE  ExecutionInv'
<1>1. /\ pc = "refetch" /\ pc' = "stopLookup" /\ update.order \in Name
      /\ orders[update.order].status = "canceled" /\ orders[update.order].filled > 0
      /\ stopCommand \in {0, orders[update.order].filled}
      /\ stopCommand' = orders[update.order].filled
      /\ UNCHANGED <<calls, fine, update, claimed, reservation, result, cancels>>
      /\ UNCHANGED <<orders, canceling, inflight, emitted>>
  BY DEF SaveStopCommand, Refetched, GoTo, broker, ExecutionInv, UpdatesOK
<1>2. update.order = "parent"
  BY <1>1 DEF ExecutionInv, ExecutionTypeOK, Order, Quantity, OrderOK, StopIsCommanded, Exists, Name
<1>3. ExecutionTypeOK'
  BY <1>1 DEF ExecutionInv, ExecutionTypeOK, FlagsOK, Order
<1>4. StopIsCommanded' /\ PostedExists' /\ UpdatesOK' /\ \A n \in Name : OrderOK(n)'
  BY <1>1, <1>2, SteadyBroker DEF ExecutionInv, StopIsCommanded, PostedExists, UpdatesOK, Name,
     ExecutionTypeOK, Quantity
<1>5. ClaimsOK'
  BY <1>1 DEF ExecutionInv, ExecutionTypeOK, ClaimsOK
<1>6. ResultOK'
  BY <1>1, SteadyBroker DEF ExecutionInv, ResultOK, ResultIsTrue, ProtectedMeansCovered,
     SuccessMeansOrder, Name
<1> QED BY <1>3, <1>4, <1>5, <1>6 DEF ExecutionInv

\* Protection is reported for a stop that is there.
LEMMA StopFoundKeepsInv ==
  ASSUME ExecutionInv, FlagsOK', StopFound
  PROVE  ExecutionInv'
<1> DEFINE s == Snapshot(update.order, "initial")
<1>1. /\ Exists("stop") /\ stopCommand > 0 /\ StopMatches
      /\ orders["parent"].status = "canceled" /\ orders["parent"].filled = stopCommand
      /\ pc' = "idle" /\ result' = [outcome |-> "protected", order |-> s]
      /\ UNCHANGED <<calls, fine, update, stopCommand, claimed, reservation, cancels>>
      /\ UNCHANGED <<orders, canceling, inflight, emitted>>
  BY DEF StopFound, Protected, StopMatches, Return, GoTo, broker, ExecutionInv, StopIsCommanded
<1>2. s \in Update
  BY SnapshotType DEF ExecutionInv, UpdatesOK, StopFound
<1> HIDE DEF s
<1>3. ExecutionTypeOK'
  <2>1. result' \in [outcome : {"none", "submitted", "existing", "rejected", "reconcile",
                                "protected"}, order : Update]
    BY <1>1, <1>2
  <2> QED BY <1>1, <2>1 DEF ExecutionInv, ExecutionTypeOK, FlagsOK
<1>4. StopIsCommanded' /\ PostedExists' /\ UpdatesOK' /\ \A n \in Name : OrderOK(n)'
  BY <1>1, SteadyBroker DEF ExecutionInv, StopIsCommanded, PostedExists, UpdatesOK, Name
<1>5. ClaimsOK'
  BY <1>1 DEF ExecutionInv, ClaimsOK
<1>6. ResultOK'
  BY <1>1 DEF StopMatches, ResultOK, ResultIsTrue, ProtectedMeansCovered, SuccessMeansOrder, Exists
<1> QED BY <1>3, <1>4, <1>5, <1>6 DEF ExecutionInv

\* The broker's orders come and advance, and the canceled ones stay as they are.
LEMMA OrdersKeepInv ==
  ASSUME ExecutionInv, ExecutionTypeOK', PostedExists',
         \A n \in Name : /\ OrderOK(n)'
                         /\ Exists(n) => Exists(n)' /\ orders'[n].qty = orders[n].qty
                         /\ orders[n].status = "canceled" => orders'[n] = orders[n],
         Exists("stop")' => stopCommand > 0 /\ orders'["stop"].qty = stopCommand,
         \A u \in emitted' : AboutOrder(u)',
         inflight' \subseteq inflight,
         \/ pc' = pc
         \/ pc = "post" /\ pc' = "posted"
         \/ pc = "stopPost" /\ pc' = "stopPosted",
         UNCHANGED <<update, stopCommand, claimed, result, cancels>>
  PROVE  ExecutionInv'
<1>1. StopIsCommanded'
  BY DEF ExecutionInv, StopIsCommanded, Name
<1>2. UpdatesOK'
  <2>1. \A u : AboutOrder(u) => AboutOrder(u)'
    BY DEF AboutOrder, Name
  <2> QED BY <2>1 DEF ExecutionInv, UpdatesOK
<1>3. ClaimsOK'
  BY DEF ExecutionInv, ClaimsOK
<1>4. ResultOK'
  BY DEF ExecutionInv, ResultOK, ResultIsTrue, ProtectedMeansCovered, SuccessMeansOrder, Name
<1> QED BY <1>1, <1>2, <1>3, <1>4 DEF ExecutionInv

\* An order is placed, by the reply in time or behind the service's back.
LEMMA PlaceKeepsInv ==
  ASSUME ExecutionInv, FlagsOK', NEW n \in Name, NEW q \in Quantity \ {0}, Place(n, q),
         n = "stop" => stopCommand > 0 /\ q = stopCommand,
         \/ pc' = pc
         \/ pc = "post" /\ pc' = "posted" /\ n = "parent"
         \/ pc = "stopPost" /\ pc' = "stopPosted" /\ n = "stop",
         UNCHANGED <<calls, fine, update, stored, cancels>>
  PROVE  ExecutionInv'
<1>1. PICK st \in {"new", "rejected"} : orders' = [orders EXCEPT ![n] = Placed(st, q)]
  BY DEF Place
<1>2. /\ Placed(st, q) \in Order /\ Placed(st, q).status = st /\ Placed(st, q).qty = q
      /\ Placed(st, q).filled = 0
  BY DEF Placed, Order, Status, Quantity
<1>3. /\ ~ Exists(n) /\ inflight' = inflight \ {n} /\ UNCHANGED <<canceling, emitted>>
      /\ UNCHANGED <<calls, fine, update, stopCommand, claimed, reservation, result, cancels>>
  BY DEF Place, stored
<1>4. /\ orders' \in [Name -> Order] /\ orders'[n] = Placed(st, q)
      /\ \A m \in Name \ {n} : orders'[m] = orders[m]
  BY <1>1, <1>2 DEF ExecutionInv, ExecutionTypeOK
<1>5. Exists(n)' /\ \A m \in Name \ {n} : Exists(m)' <=> Exists(m)
  BY <1>2, <1>4 DEF Exists
<1>6. ExecutionTypeOK'
  BY <1>3, <1>4 DEF ExecutionInv, ExecutionTypeOK, FlagsOK
<1>7. ASSUME NEW m \in Name
      PROVE  /\ OrderOK(m)'
             /\ Exists(m) => Exists(m)' /\ orders'[m].qty = orders[m].qty
             /\ orders[m].status = "canceled" => orders'[m] = orders[m]
  <2>1. CASE m = n
    BY <1>2, <1>3, <1>4, <1>5, <2>1 DEF OrderOK, Exists, Quantity
  <2>2. CASE m # n
    BY <1>4, <1>5, <2>2 DEF ExecutionInv, OrderOK
  <2> QED BY <2>1, <2>2
<1>8. PostedExists'
  BY <1>5 DEF ExecutionInv, PostedExists, Name
<1>9. Exists("stop")' => stopCommand > 0 /\ orders'["stop"].qty = stopCommand
  BY <1>2, <1>4, <1>5 DEF ExecutionInv, StopIsCommanded, Name
<1>10. \A u \in emitted' : AboutOrder(u)'
  BY <1>3, <1>7 DEF ExecutionInv, UpdatesOK, AboutOrder, Name
<1> QED BY <1>3, <1>6, <1>7, <1>8, <1>9, <1>10, OrdersKeepInv

\* The replies to a POST, and an order that arrives after its POST was given up.
LEMMA PlacementsKeepInv ==
  ASSUME ExecutionInv, FlagsOK',
         PostAccepted \/ StopAccepted \/ \E n \in Name : Arrives(n)
  PROVE  ExecutionInv'
<1>1. Qty \in Quantity \ {0} /\ "parent" \in Name /\ "stop" \in Name
  BY DEF Quantity, Name
<1>2. CASE PostAccepted
  BY <1>1, <1>2, PlaceKeepsInv DEF PostAccepted, GoTo
<1>3. CASE StopAccepted
  <2>1. stopCommand > 0 /\ stopCommand \in Quantity
    BY <1>3 DEF StopAccepted, ExecutionInv, ExecutionTypeOK, StopIsCommanded
  <2> QED BY <1>1, <1>3, <2>1, PlaceKeepsInv DEF StopAccepted, GoTo
<1>4. ASSUME NEW n \in Name, Arrives(n) PROVE ExecutionInv'
  <2>1. n = "stop" => stopCommand > 0 /\ stopCommand \in Quantity
    BY <1>4 DEF Arrives, ExecutionInv, ExecutionTypeOK, StopIsCommanded
  <2>2. CASE n = "parent"
    BY <1>1, <1>4, <2>2, PlaceKeepsInv DEF Arrives, local
  <2>3. CASE n = "stop"
    BY <1>4, <2>1, <2>3, PlaceKeepsInv DEF Arrives, local
  <2> QED BY <2>2, <2>3 DEF Name
<1> QED BY <1>2, <1>3, <1>4

\* A live order fills, is held, expires or is canceled, and the stream says so.
LEMMA BecomesKeepsInv ==
  ASSUME ExecutionInv, FlagsOK', NEW n \in Name, Live(n),
         NEW st \in Status \ {"none"}, NEW q \in Quantity, Becomes(n, st, q),
         st # "filled" => q < orders[n].qty
  PROVE  ExecutionInv'
<1> DEFINE o == [status |-> st, qty |-> orders[n].qty, filled |-> q]
           u == [order |-> n, status |-> st, filled |-> q, source |-> "stream"]
<1>1. /\ orders' = [orders EXCEPT ![n] = o] /\ emitted' = emitted \cup {u}
      /\ UNCHANGED <<pc, calls, fine, update, stopCommand, claimed, reservation, result>>
      /\ UNCHANGED <<canceling, inflight, cancels>>
  BY DEF Becomes, local, stored
<1>2. /\ o \in Order /\ o.status = st /\ o.qty = orders[n].qty /\ o.filled = q
      /\ u \in Update /\ u.order = n
  BY DEF Order, Update, ExecutionInv, ExecutionTypeOK
<1> HIDE DEF o, u
<1>3. /\ orders' \in [Name -> Order] /\ orders'[n] = o
      /\ \A m \in Name \ {n} : orders'[m] = orders[m]
  BY <1>1, <1>2 DEF ExecutionInv, ExecutionTypeOK
<1>4. Exists(n) /\ \A m \in Name : Exists(m)' <=> Exists(m)
  BY <1>2, <1>3 DEF Exists, Live
<1>5. ExecutionTypeOK'
  BY <1>1, <1>2, <1>3 DEF ExecutionInv, ExecutionTypeOK, FlagsOK
<1>6. ASSUME NEW m \in Name
      PROVE  /\ OrderOK(m)'
             /\ Exists(m) => Exists(m)' /\ orders'[m].qty = orders[m].qty
             /\ orders[m].status = "canceled" => orders'[m] = orders[m]
  <2>1. CASE m = n
    BY <1>2, <1>3, <1>4, <2>1 DEF OrderOK, Live
  <2>2. CASE m # n
    BY <1>3, <1>4, <2>2 DEF ExecutionInv, OrderOK
  <2> QED BY <2>1, <2>2
<1>7. PostedExists'
  BY <1>1, <1>4 DEF ExecutionInv, PostedExists, Name
<1>8. Exists("stop")' => stopCommand > 0 /\ orders'["stop"].qty = stopCommand
  BY <1>4, <1>6 DEF ExecutionInv, StopIsCommanded, Name
<1>9. \A v \in emitted' : AboutOrder(v)'
  BY <1>1, <1>2, <1>4 DEF ExecutionInv, UpdatesOK, AboutOrder, Name
<1> QED BY <1>1, <1>5, <1>6, <1>7, <1>8, <1>9, OrdersKeepInv

\* What the broker does to the orders it has.
LEMMA ProgressKeepsInv ==
  ASSUME ExecutionInv, FlagsOK', NEW n \in Name,
         Fill(n) \/ Hold(n) \/ Expire(n) \/ CancelPends(n) \/ CancelSettles(n)
  PROVE  ExecutionInv'
<1>1. Live(n) /\ orders[n] \in Order /\ orders[n].filled < orders[n].qty
  BY DEF Fill, Hold, Expire, CancelPends, CancelSettles, Live, ExecutionInv, ExecutionTypeOK,
     OrderOK, Exists
<1>2. CASE Fill(n)
  <2>1. PICK q \in (orders[n].filled + 1) .. orders[n].qty :
          Becomes(n, IF q = orders[n].qty THEN "filled"
                     ELSE IF orders[n].status = "pending" THEN "pending" ELSE "partial", q)
    BY <1>2 DEF Fill
  <2>2. q \in Quantity /\ q =< orders[n].qty
    BY <1>1, <2>1 DEF Order, Quantity
  <2> QED BY <1>1, <2>1, <2>2, BecomesKeepsInv DEF Status, Order, Quantity
<1>3. CASE ~ Fill(n)
  <2>1. PICK st \in {"held", "expired", "pending", "canceled"} : Becomes(n, st, orders[n].filled)
    BY <1>3 DEF Hold, Expire, CancelPends, CancelSettles
  <2> QED BY <1>1, <2>1, BecomesKeepsInv DEF Status, Order
<1> QED BY <1>2, <1>3

\* An exit of the bracket fills.
LEMMA LegKeepsInv ==
  ASSUME ExecutionInv, FlagsOK', LegFills
  PROVE  ExecutionInv'
<1>1. PICK q \in 1 .. Qty :
        emitted' = emitted \cup {[order |-> "leg", filled |-> q, source |-> "stream",
                                 status |-> IF q = Qty THEN "filled" ELSE "partial"]}
  BY DEF LegFills
<1> DEFINE u == [order |-> "leg", filled |-> q, source |-> "stream",
                 status |-> IF q = Qty THEN "filled" ELSE "partial"]
<1>2. u \in Update /\ u.order = "leg"
  BY DEF Update, Quantity, Status
<1> HIDE DEF u
<1>3. /\ UNCHANGED <<pc, calls, fine, update, stopCommand, claimed, reservation, result, orders>>
      /\ UNCHANGED <<canceling, inflight, cancels>> /\ Exists("parent")
      /\ emitted' = emitted \cup {u}
  BY <1>1 DEF u, LegFills, local, stored, Exists
<1>4. ExecutionTypeOK'
  BY <1>2, <1>3 DEF ExecutionInv, ExecutionTypeOK, FlagsOK
<1>5. /\ \A n \in Name : OrderOK(n)' /\ (Exists(n)' <=> Exists(n))
      /\ PostedExists'
  BY <1>3 DEF ExecutionInv, OrderOK, Exists, PostedExists
<1>6. \A v \in emitted' : AboutOrder(v)'
  BY <1>2, <1>3 DEF ExecutionInv, UpdatesOK, AboutOrder, Exists
<1>7. Exists("stop")' => stopCommand > 0 /\ orders'["stop"].qty = stopCommand
  BY <1>3, <1>5 DEF ExecutionInv, StopIsCommanded, Name
<1> QED BY <1>3, <1>4, <1>5, <1>6, <1>7, OrdersKeepInv

\* Every step of the service and of the broker keeps the invariant.
LEMMA ExecutionNextInv == ExecutionInv /\ [ExecutionNext]_executionVars => ExecutionInv'
<1> SUFFICES ASSUME ExecutionInv, [ExecutionNext]_executionVars PROVE ExecutionInv'
  OBVIOUS
<1>1. FlagsOK'
  BY FlagsStay
<1>2. CASE CallStep \/ UNCHANGED executionVars
  BY <1>1, <1>2, EndsKeepInv, MovesKeepInv, AcknowledgeKeepsInv, ClaimKeepsInv, GivingUpKeepsInv,
     CancelKeepsInv, SaveStopKeepsInv, StopFoundKeepsInv, PlacementsKeepInv DEF CallStep
<1>3. CASE OrderStep
  BY <1>1, <1>3, PlacementsKeepInv, ProgressKeepsInv, LegKeepsInv DEF OrderStep
<1> QED BY <1>2, <1>3 DEF ExecutionNext

\* The invariant holds in every behaviour of the service and the broker.
THEOREM ExecutionInvHolds == ExecutionSpec => []ExecutionInv
  BY ExecutionInitInv, ExecutionNextInv, PTL DEF ExecutionSpec

\* Every variable stays in its type, for every quantity.
THEOREM ExecutionTypesHold == ExecutionSpec => []ExecutionTypeOK
<1>1. ExecutionInv => ExecutionTypeOK
  BY DEF ExecutionInv
<1> QED BY <1>1, ExecutionInvHolds, PTL

\* No protective stop is for more shares than its parent bought, whatever is lost, repeated
\* or late (_protect_partial_fill, save_command).
THEOREM StopStaysWithinFill == ExecutionSpec => []StopWithinFill
<1>1. ExecutionInv => StopWithinFill
  BY DEF ExecutionInv, ExecutionTypeOK, StopIsCommanded, StopWithinFill, Order, Quantity, Name
<1> QED BY <1>1, ExecutionInvHolds, PTL

\* A trade update causes at most one cancellation, however often it is delivered and wherever
\* a call dies (claim_trade_update before the side effects).
THEOREM UpdatesCancelOnce == ExecutionSpec => []CancelsOnce
<1>1. ExecutionInv => CancelsOnce
  BY DEF ExecutionInv, ClaimsOK, CancelsOnce
<1> QED BY <1>1, ExecutionInvHolds, PTL

\* An order reported as placed exists, and one reported as protected is canceled and has a
\* stop for exactly what it bought, now and in every later state.
THEOREM ResultStaysTrue == ExecutionSpec => []ResultIsTrue
<1>1. ExecutionInv => ResultIsTrue
  BY DEF ExecutionInv, ResultOK
<1> QED BY <1>1, ExecutionInvHolds, PTL
=============================================================================
