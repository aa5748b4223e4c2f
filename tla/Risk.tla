-------------------------------- MODULE Risk --------------------------------
(***************************************************************************)
(* RiskService (daybreak_risk/service.py) and its repository               *)
(* (persistence.py).  evaluate stores the request, sizes it and stores the *)
(* decision; evaluate_batch sizes the whole batch, each request with the   *)
(* session state the earlier ones left, and then stores request and        *)
(* decision of each in transactions of their own.  Any of them may fail,   *)
(* and the caller may then repeat the call, with what it was called with   *)
(* or with fresh snapshots, or give it up.                                 *)
(*                                                                         *)
(* The caller is outside src/: it reads the session state anew for each    *)
(* call, and it has one call at a time under way.                          *)
(***************************************************************************)
EXTENDS RiskEngine, Sequences, FiniteSetsExt

CONSTANTS Tickers,    \* the tickers of the day
          Offers,     \* the market data of a request (everything but the ticker)
          Accounts,   \* the snapshots of the account
          Sessions,   \* the session states at the start
          MaxBatch,   \* at most three setups are approved
          MaxCalls    \* bound of the model: the calls with request ids of their own

ASSUME RiskAssumption ==
  /\ MaxBatch \in 1 .. 3
  /\ MaxCalls \in Nat
  /\ \A q \in Offers : q \in Offer
  /\ \A a \in Accounts : a \in Account
  /\ \A s \in Sessions : s \in Session(Tickers)

VARIABLES opening,       \* the session state before any reservation
          account,       \* the snapshot the call under way uses
          base,          \* the session state the call under way was given
          batch,         \* its requests, by rank
          call,          \* how many calls there were: the request ids of this one
          pc,            \* where the call is
          current,       \* current_state of size_approved_batch
          sized,         \* the decisions it has made
          stored,        \* how many of them are stored
          requestRows,   \* risk_sizing_requests
          decisionRows,  \* risk_sizing_decisions
          reservationRows \* risk_reservations, with their first event

callVars == <<account, base, batch, call, pc, current, sized, stored>>
tables   == <<requestRows, decisionRows, reservationRows>>
riskVars == <<opening, callVars, tables>>

Ids == (1 .. MaxCalls) \X (1 .. MaxBatch)
Id(n) == <<call, n>>

\* What the session has reserved so far, added to its opening state: the state
\* a caller reads before a new call.
Reread ==
  LET ids == DOMAIN reservationRows
  IN  [opening EXCEPT
        !.open_risk = opening.open_risk
                        + MapThenSumSet(LAMBDA i : reservationRows[i].risk, ids),
        !.reserved_notional = opening.reserved_notional
                        + MapThenSumSet(LAMBDA i : reservationRows[i].notional, ids),
        !.reserved_positions = opening.reserved_positions + Cardinality(ids)]

Reservation == [ticker : Tickers, risk : Nat \ {0}, notional : Nat \ {0}]

\* What a stored request or the input hash of a decision stands for.
Input(q, s) == [request |-> q, account |-> account, session |-> s]

\* BatchSizingRequest.validate_rank_order: ranks without a gap, tickers unique,
\* one account snapshot and one session state for all.
Batches ==
  {b \in UNION {[1 .. n -> [ticker : Tickers, offer : Offers]] : n \in 1 .. MaxBatch} :
     \A i, j \in DOMAIN b : b[i].ticker = b[j].ticker => i = j}

RequestOf(r) == [f \in DOMAIN r.offer \cup {"ticker"} |->
                   IF f = "ticker" THEN r.ticker ELSE r.offer[f]]

RiskInit ==
  /\ opening \in Sessions
  /\ account \in Accounts
  /\ base = opening /\ current = opening
  /\ batch = << >> /\ sized = << >> /\ stored = 0
  /\ call = 0 /\ pc = "idle"
  /\ requestRows = << >> /\ decisionRows = << >> /\ reservationRows = << >>

-----------------------------------------------------------------------------
(* PostgresRiskRepository: each operation is one transaction.              *)

\* Broken variant: ON CONFLICT DO NOTHING without the comparison of the hashes.
RequestCollidesNever(id, in) == FALSE

RequestCollides(id, in) == id \in DOMAIN requestRows /\ requestRows[id] # in

\* Broken variant: any row that is there already counts as a collision.
DecisionCollidesAlways(id, row) == id \in DOMAIN decisionRows

DecisionCollides(id, row) == id \in DOMAIN decisionRows /\ decisionRows[id] # row

\* The client_order_id of a reservation is made of the run and the ticker, and
\* it is unique.
TickerTaken(id, ticker) ==
  \E i \in DOMAIN reservationRows \ {id} : reservationRows[i].ticker = ticker

\* INSERT ... ON CONFLICT DO NOTHING.
Inserted(table, id, value) ==
  [i \in DOMAIN table \cup {id} |-> IF i \in DOMAIN table THEN table[i] ELSE value]

SaveRequest(id, in) == requestRows' = Inserted(requestRows, id, in)

\* reserve, or save_decision of a decision without a reservation.
SaveDecision(id, row, ticker) ==
  /\ decisionRows' = Inserted(decisionRows, id, row)
  /\ reservationRows' =
       IF row.decision.approved
       THEN Inserted(reservationRows, id,
                     [ticker |-> ticker, risk |-> row.decision.modeled_risk,
                      notional |-> row.decision.notional])
       ELSE reservationRows

-----------------------------------------------------------------------------
(* The service.                                                            *)

Given(a, s, b) == /\ account' = a /\ base' = s /\ current' = s
                  /\ batch' = b /\ sized' = << >> /\ stored' = 0

\* A call of its own, with the state the caller has just read.
EvaluateBatch ==
  /\ pc = "idle" /\ call < MaxCalls
  /\ call' = call + 1 /\ pc' = "sizing"
  /\ \E a \in Accounts, b \in Batches : Given(a, Reread, b)
  /\ UNCHANGED <<opening, tables>>

Evaluate ==
  /\ pc = "idle" /\ call < MaxCalls
  /\ call' = call + 1 /\ pc' = "evaluating"
  /\ \E a \in Accounts, b \in Batches : Len(b) = 1 /\ Given(a, Reread, b)
  /\ UNCHANGED <<opening, tables>>

\* size_approved_batch, one request of the loop.
SizeNext ==
  /\ pc = "sizing"
  /\ LET n == Len(sized) + 1
         d == SizePosition(RequestOf(batch[n]), account, current)
     IN  /\ sized' = Append(sized, [decision |-> d,
                                    input |-> Input(batch[n], current)])
         /\ current' = AfterDecision(current, d)
         /\ pc' = IF n = Len(batch) THEN "saving" ELSE "sizing"
  /\ UNCHANGED <<opening, account, base, batch, call, stored, tables>>

\* save_request of the next request.  It stores the request as it was handed
\* in, with the session state of the whole batch.
StoreRequest ==
  /\ pc \in {"saving", "evaluating"}
  /\ LET n  == stored + 1
         in == Input(batch[n], base)
     IN  IF RequestCollides(Id(n), in)
         THEN /\ pc' = "collision"
              /\ UNCHANGED requestRows
         ELSE /\ SaveRequest(Id(n), in)
              /\ pc' = IF pc = "saving" THEN "storing" ELSE "deciding"
  /\ UNCHANGED <<opening, account, base, batch, call, current, sized, stored,
                 decisionRows, reservationRows>>

\* evaluate sizes after it has stored the request.
SizeOne ==
  /\ pc = "deciding"
  /\ LET d == SizePosition(RequestOf(batch[1]), account, base)
     IN  sized' = << [decision |-> d, input |-> Input(batch[1], base)] >>
  /\ pc' = "storing"
  /\ UNCHANGED <<opening, account, base, batch, call, current, stored, tables>>

StoreDecision ==
  /\ pc = "storing"
  /\ LET n == stored + 1
         ticker == batch[n].ticker
         refused == \/ DecisionCollides(Id(n), sized[n])
                    \/ sized[n].decision.approved /\ TickerTaken(Id(n), ticker)
     IN  IF refused
         THEN /\ pc' = "collision"
              /\ UNCHANGED <<stored, decisionRows, reservationRows>>
         ELSE /\ SaveDecision(Id(n), sized[n], ticker)
              /\ stored' = n
              /\ pc' = IF n = Len(sized) THEN "done" ELSE "saving"
  /\ UNCHANGED <<opening, account, base, batch, call, current, sized, requestRows>>

\* The process dies or the database is lost: what was committed stays.
Fail ==
  /\ pc \in {"saving", "storing", "evaluating", "deciding"}
  /\ pc' = "failed"
  /\ current' = base /\ sized' = << >> /\ stored' = 0
  /\ UNCHANGED <<opening, account, base, batch, call, tables>>

\* The caller repeats the call under the same request ids: with the same
\* tickers, but perhaps with another quote, account snapshot or session state.
Retry ==
  /\ pc = "failed"
  /\ \E a \in Accounts, s \in {base, Reread}, b \in Batches :
        /\ Len(b) = Len(batch)
        /\ \A i \in DOMAIN b : b[i].ticker = batch[i].ticker
        /\ Given(a, s, b)
  /\ pc' \in (IF Len(batch) = 1 THEN {"sizing", "evaluating"} ELSE {"sizing"})
  /\ UNCHANGED <<opening, call, tables>>

\* The call has returned or raised, or the caller gives it up.
Return ==
  /\ pc \in {"done", "collision", "failed"}
  /\ pc' = "idle"
  /\ base' = opening /\ current' = opening
  /\ batch' = << >> /\ sized' = << >> /\ stored' = 0
  /\ UNCHANGED <<opening, account, call, tables>>

RiskNext ==
  \/ EvaluateBatch \/ Evaluate \/ SizeNext \/ StoreRequest \/ SizeOne
  \/ StoreDecision \/ Fail \/ Retry \/ Return

RiskSpec == RiskInit /\ [][RiskNext]_riskVars

-----------------------------------------------------------------------------
(* Properties.                                                             *)

\* The variables hold what they should, and the tables what their foreign keys
\* ask for: a reservation belongs to an approved decision of a stored request,
\* with its amounts.
RiskTypeOK ==
  /\ pc \in {"idle", "sizing", "saving", "evaluating", "deciding", "storing",
             "collision", "failed", "done"}
  /\ call \in 0 .. MaxCalls /\ stored \in 0 .. Len(batch)
  /\ DOMAIN decisionRows \subseteq DOMAIN requestRows
  /\ \A i \in DOMAIN decisionRows : decisionRows[i].decision \in Decision
  /\ DOMAIN reservationRows = {i \in DOMAIN decisionRows : decisionRows[i].decision.approved}
  /\ \A i \in DOMAIN reservationRows :
        /\ reservationRows[i] \in Reservation
        /\ reservationRows[i].risk = decisionRows[i].decision.modeled_risk

\* The session's limits, as the ledger of RiskLedger counts them: what is left
\* of them before the first reservation.
LimitsFor(a, s) ==
  [risk     |-> MaxOpenRisk(s) - s.open_risk,
   loss     |-> HardLossLimit(s) - Larger(0, - Smaller(BrokerPnl(a, s), InternalPnl(s)))
                  - s.open_risk,
   cash     |-> (Smaller(a.cash_buying_power, a.buying_power)
                   * (Whole - Policy.buying_power_reserve)) \div Whole - s.reserved_notional,
   exposure |-> MaxGrossExposure(s) - s.long_value - s.reserved_notional,
   slots    |-> Policy.max_concurrent - s.open_positions - s.reserved_positions]

Ledger == INSTANCE RiskLedger WITH
            Amounts <- Nat,
            granted <- [i \in DOMAIN reservationRows |->
                          [risk |-> reservationRows[i].risk,
                           notional |-> reservationRows[i].notional]],
            limits  <- LimitsFor(account, opening)

\* The stored reservations of a session are an append-only ledger that stays
\* within the open-risk, daily-loss, cash, exposure and position limits, however
\* often calls fail between two of their transactions and are repeated with the
\* same or with fresh snapshots (evaluate, evaluate_batch, reserve).
KeepsLedger == Ledger!LedgerSpec

\* Sizing a whole batch of stored inputs again: the decision on rank n of a call
\* whose first inputs were stored as ins.
Replayed(ins) ==
  LET state[n \in 1 .. Len(ins)] ==
        IF n = 1 THEN ins[1].session
        ELSE AfterDecision(state[n - 1],
               SizePosition(RequestOf(ins[n - 1].request), ins[n - 1].account, state[n - 1]))
  IN  [n \in 1 .. Len(ins) |-> SizePosition(RequestOf(ins[n].request), ins[n].account, state[n])]

\* Every stored decision follows from the stored requests of its call, sized in
\* the order of their ranks: a call that failed half-way and was repeated with
\* another quote never leaves a decision that the stored requests do not explain
\* (save_request and _insert_decision compare hashes before they accept a row).
DecisionsFollowFromRequests ==
  \A id \in DOMAIN decisionRows :
    LET ins == [n \in 1 .. id[2] |-> requestRows[<<id[1], n>>]]
    IN  decisionRows[id].decision = Replayed(ins)[id[2]]

\* A call is refused for an identity collision only if the caller really changed
\* a stored request or asks for a ticker that another call has reserved: to repeat
\* an unchanged call after a failure never collides with its own rows.
CollisionMeansChanged ==
  pc = "collision" =>
    \E n \in DOMAIN batch :
      \/ Id(n) \in DOMAIN requestRows /\ requestRows[Id(n)] # Input(batch[n], base)
      \/ TickerTaken(Id(n), batch[n].ticker)

\* verify_risk_replay sizes the stored request alone and asks for the stored
\* decision (docs/PHASE4_RISK_ENGINE.md, "Replay").  Not claimed by a run: batches
\* of two refute it, see the README, "Divergences".
ReplayMatches ==
  \A id \in DOMAIN decisionRows :
    LET in == requestRows[id]
    IN  decisionRows[id].decision = SizePosition(RequestOf(in.request), in.account, in.session)

\* The tables explain themselves: stored decisions follow from stored requests, and
\* a call is refused for a collision only when its caller changed something.
RowsExplained == DecisionsFollowFromRequests /\ CollisionMeansChanged
=============================================================================
