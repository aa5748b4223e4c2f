----------------------------- MODULE RiskLedger -----------------------------
(***************************************************************************)
(* What the risk service promises its session: an append-only ledger of    *)
(* reservations that never adds up to more than the session may put at     *)
(* risk.  Which positions are asked for, how a quantity is found and how   *)
(* often a call is repeated do not matter here.                            *)
(***************************************************************************)
EXTENDS Integers, FiniteSets, FiniteSetsExt

CONSTANTS Ids,      \* the identifiers a reservation may carry
          Amounts   \* the amounts of risk and of notional

VARIABLES granted,  \* a function from the reservations granted to their amounts
          limits    \* what all of them together may use

ledgerVars == <<granted, limits>>

Entries == [risk : Amounts, notional : Amounts]
Limits  == [risk : Int, loss : Int, cash : Int, exposure : Int, slots : Int]

TotalRisk(g)     == MapThenSumSet(LAMBDA i : g[i].risk, DOMAIN g)
TotalNotional(g) == MapThenSumSet(LAMBDA i : g[i].notional, DOMAIN g)

Within(g, l) ==
  /\ TotalRisk(g) =< l.risk
  /\ TotalRisk(g) =< l.loss
  /\ TotalNotional(g) =< l.cash
  /\ TotalNotional(g) =< l.exposure
  /\ Cardinality(DOMAIN g) =< l.slots

LedgerInit ==
  /\ granted = [i \in {} |-> 0]
  /\ limits \in Limits

\* A new snapshot of the account: what it may lose and what it can pay for
\* changes, the limits that were frozen at the open do not.
Observe ==
  /\ limits' \in [risk : {limits.risk}, loss : Int, cash : Int,
                  exposure : {limits.exposure}, slots : {limits.slots}]
  /\ UNCHANGED granted

\* One more reservation; the ledger it leads to is within the limits.
Grant ==
  /\ \E i \in Ids \ DOMAIN granted :
        /\ DOMAIN granted' = DOMAIN granted \cup {i}
        /\ granted'[i] \in Entries
        /\ \A j \in DOMAIN granted : granted'[j] = granted[j]
  /\ Within(granted', limits)
  /\ UNCHANGED limits

LedgerNext == Observe \/ Grant

LedgerSpec == LedgerInit /\ [][LedgerNext]_ledgerVars
=============================================================================
