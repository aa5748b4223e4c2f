----------------------------- MODULE RiskEngine -----------------------------
(***************************************************************************)
(* The sizing of one approved setup: size_position of daybreak_risk/       *)
(* engine.py with the rounding rules of rounding.py and the policy of      *)
(* models.py.                                                              *)
(*                                                                         *)
(* Decimal amounts are whole numbers of a unit below the cent (Cent units  *)
(* to the cent), ratios whole numbers of 1 / Whole.  The unit is chosen so *)
(* fine that quantize_money (ten decimal places) never rounds; floor_to_   *)
(* cent, floor_to_int and the tick rounding are kept.                      *)
(*                                                                         *)
(* Conditions that do nothing but add their own rejection code (an account *)
(* that is blocked, a stale quote, an unhealthy stream ...) are inputs:    *)
(* the codes they would add, in the field faults.                          *)
(***************************************************************************)
EXTENDS Integers, FiniteSets

CONSTANTS Policy,   \* RiskPolicyConfig
          Cent,     \* units of money in a cent
          Whole     \* the ratio 1

\* RiskPolicyConfig.validate_coherence, and the bounds of its fields.
RiskPolicyConfig ==
  /\ \A f \in {"risk_per_trade", "max_open_risk", "max_position_notional",
               "max_gross_exposure", "soft_daily_loss", "hard_daily_loss",
               "max_adv", "max_premarket", "max_spread", "max_drift"} :
        Policy[f] \in 1 .. Whole - 1
  /\ \A f \in {"buying_power_reserve", "max_spread_atr", "max_drift_atr",
               "slippage_atr", "slippage_spread", "pnl_tolerance"} :
        Policy[f] \in Nat
  /\ Policy.buying_power_reserve < Whole
  /\ Policy.max_concurrent \in 1 .. 3 /\ Policy.max_entries \in 1 .. 3
  /\ Policy.max_losses \in 1 .. 10
  /\ Policy.soft_daily_loss < Policy.hard_daily_loss
  /\ Policy.risk_per_trade =< Policy.max_open_risk
  /\ Policy.max_position_notional =< Policy.max_gross_exposure
  /\ Policy.max_concurrent =< Policy.max_entries

ASSUME PolicyCoherence == Cent \in Nat \ {0} /\ Whole \in Nat \ {0} /\ RiskPolicyConfig

MinimumQuantity == 1

-----------------------------------------------------------------------------
(* The inputs (models.py).                                                 *)

AccountFaults == {"account_not_active", "account_blocked", "trading_blocked",
                  "trade_suspended_by_user", "account_snapshot_stale",
                  "invalid_account_value", "pending_transfer_out"}
SessionFaults == {"account_state_unreconciled", "stream_health_failure",
                  "database_health_failure", "kill_switch_active"}
RequestFaults == {"market_not_normal", "symbol_halted", "quote_snapshot_stale",
                  "last_trade_stale", "invalid_quote",
                  "regular_session_nbbo_not_confirmed", "invalid_liquidity_input"}

Account == [equity : Int, last_equity : Int, buying_power : Int,
            cash_buying_power : Int, long_market_value : Int,
            faults : SUBSET AccountFaults]

Session(tickers) ==
  [reference_equity : Nat \ {0}, start_equity : Nat \ {0}, cash_flow : Int,
   realized : Int, unrealized : Int, open_risk : Nat, reserved_notional : Nat,
   long_value : Nat, open_positions : Nat, reserved_positions : Nat,
   completed_entries : Nat, closed_losses : Nat, traded : SUBSET tickers,
   faults : SUBSET SessionFaults]

\* QuoteSnapshot, LiquiditySnapshot and the trade parameters of a setup.  A
\* request that is past its execution cutoff does not pass SizingRequest's own
\* validator, so there is no fault for it.
Offer == [entry_limit : Nat \ {0}, tick : Nat \ {0}, reference : Int, atr : Int,
          premarket_low : Int, stop_multiple : Nat, target_multiple : Nat,
          bid : Int, ask : Int, last : Int, flags : SUBSET {"parabolic", "low_float",
            "spiky_volume", "secondary_source", "hard_to_borrow", "unknown_borrow"},
          adv : Nat \ {0}, premarket_volume : Nat \ {0},
          faults : SUBSET RequestFaults]

-----------------------------------------------------------------------------
(* rounding.py *)

FloorToCent(x) == (x \div Cent) * Cent

RoundDownToIncrement(x, tick) == (x \div tick) * tick
RoundUpToIncrement(x, tick)   == - (((- x) \div tick) * tick)

\* A share of an amount, floored to the cent.
ShareOf(amount, ratio) == ((amount * ratio) \div (Whole * Cent)) * Cent

Smaller(x, y) == IF x =< y THEN x ELSE y
Larger(x, y)  == IF x >= y THEN x ELSE y
Abs(x)        == Larger(x, - x)

-----------------------------------------------------------------------------
(* The session's limits, frozen at the open with the reference equity.     *)

HardLossLimit(s)      == ShareOf(s.reference_equity, Policy.hard_daily_loss)
SoftLossLimit(s)      == ShareOf(s.reference_equity, Policy.soft_daily_loss)
MaxOpenRisk(s)        == ShareOf(s.reference_equity, Policy.max_open_risk)
MaxPositionNotional(s) == ShareOf(s.reference_equity, Policy.max_position_notional)
MaxGrossExposure(s)   == ShareOf(s.reference_equity, Policy.max_gross_exposure)

\* initialize_session_state, for an account with positive equity.
SessionState(a) ==
  [reference_equity |-> Smaller(a.equity, a.last_equity),
   start_equity |-> a.equity,
   cash_flow |-> 0, realized |-> 0, unrealized |-> 0,
   open_risk |-> 0, reserved_notional |-> 0,
   long_value |-> Larger(0, a.long_market_value),
   open_positions |-> 0, reserved_positions |-> 0, completed_entries |-> 0,
   closed_losses |-> 0, traded |-> {}, faults |-> {}]

BrokerPnl(a, s) == a.equity - s.start_equity - s.cash_flow
InternalPnl(s) == s.realized + s.unrealized

RiskPnl(a, s) == Smaller(BrokerPnl(a, s), InternalPnl(s))
CurrentLoss(a, s) == Larger(0, - RiskPnl(a, s))

UsableBuyingPower(a, s) ==
  FloorToCent((Smaller(a.cash_buying_power, a.buying_power)
                 * (Whole - Policy.buying_power_reserve)) \div Whole
              - s.reserved_notional)

RemainingOpenRisk(s) == FloorToCent(MaxOpenRisk(s) - s.open_risk)

RemainingLoss(a, s) ==
  FloorToCent(HardLossLimit(s) - CurrentLoss(a, s) - s.open_risk)
RemainingExposure(s) ==
  FloorToCent(MaxGrossExposure(s) - (s.long_value + s.reserved_notional))

-----------------------------------------------------------------------------
(* The prices and the risk of one share of request q.                      *)

EntryLimit(q)  == RoundUpToIncrement(q.entry_limit, q.tick)
StopPrice(q)   == RoundDownToIncrement(q.reference - (q.stop_multiple * q.atr) \div Whole, q.tick)
TargetPrice(q) == RoundDownToIncrement(q.reference + (q.target_multiple * q.atr) \div Whole, q.tick)
Spread(q)      == q.ask - q.bid

StructuralRisk(q) == EntryLimit(q) - StopPrice(q)
ExecutionBuffer(q) == Larger((Policy.slippage_atr * q.atr) \div Whole,
                             (Policy.slippage_spread * Spread(q)) \div Whole)

ModeledRisk(q) == StructuralRisk(q) + ExecutionBuffer(q)

\* A ratio of a quantity that is not positive counts as 999, above every limit.
Exceeds(part, base, limit) == base =< 0 \/ part * Whole > limit * base

SpreadTooWide(q) ==
  \/ q.bid + q.ask =< 0 \/ 2 * Spread(q) * Whole > Policy.max_spread * (q.bid + q.ask)
  \/ Exceeds(Spread(q), q.atr, Policy.max_spread_atr)
DriftTooLarge(q) ==
  LET drift == Abs(EntryLimit(q) - q.reference)
  IN  \/ Exceeds(drift, q.reference, Policy.max_drift)
      \/ Exceeds(drift, q.atr, Policy.max_drift_atr)

\* _RISK_FLAG_MULTIPLIERS, in hundredths.  The borrow flags do not reduce the
\* budget; of several flags the smallest multiplier counts, not the product.
Multiplier == [parabolic |-> 50, low_float |-> 50, spiky_volume |-> 60,
               secondary_source |-> 75, hard_to_borrow |-> 100, unknown_borrow |-> 100]
FlagMultiplier(flags) ==
  LET all == {100} \cup {Multiplier[f] : f \in flags}
  IN  CHOOSE m \in all : \A n \in all : m =< n

TradeRiskBudget(q, s) ==
  FloorToCent((ShareOf(s.reference_equity, Policy.risk_per_trade) * FlagMultiplier(q.flags)) \div 100)

-----------------------------------------------------------------------------
(* size_position *)

\* Every check is made; the codes of those that fail are collected.
Failed(q, a, s) ==
  [invalid_account_value |->
      a.equity =< 0 \/ a.last_equity =< 0 \/ a.buying_power < 0 \/ a.cash_buying_power < 0,
   invalid_quote |-> q.bid =< 0 \/ q.ask < q.bid \/ q.last =< 0,
   session_pnl_reconciliation_failure |->
      Abs(BrokerPnl(a, s) - InternalPnl(s)) > Policy.pnl_tolerance,
   hard_daily_loss_limit |-> RiskPnl(a, s) =< - HardLossLimit(s),
   soft_daily_loss_limit |->
      RiskPnl(a, s) =< - SoftLossLimit(s) /\ RiskPnl(a, s) > - HardLossLimit(s),
   max_consecutive_losses |-> s.closed_losses >= Policy.max_losses,
   max_new_entries_per_day |-> s.completed_entries >= Policy.max_entries,
   duplicate_ticker_day |-> q.ticker \in s.traded,
   max_concurrent_positions |->
      s.open_positions + s.reserved_positions >= Policy.max_concurrent,
   entry_limit_not_marketable |-> EntryLimit(q) < q.ask,
   invalid_price_geometry |->
      \/ StopPrice(q) =< 0 \/ TargetPrice(q) =< EntryLimit(q) \/ EntryLimit(q) =< StopPrice(q)
      \/ StructuralRisk(q) =< 0 \/ ModeledRisk(q) =< 0,
   stop_above_premarket_low |-> StopPrice(q) > q.premarket_low,
   premarket_low_broken |-> Smaller(q.last, q.bid) < q.premarket_low,
   spread_too_wide |-> SpreadTooWide(q),
   entry_price_drift_too_large |-> DriftTooLarge(q),
   no_buying_power_capacity |-> UsableBuyingPower(a, s) =< 0,
   no_open_risk_capacity |-> RemainingOpenRisk(s) =< 0,
   no_daily_loss_capacity |-> RemainingLoss(a, s) =< 0,
   no_gross_exposure_capacity |-> RemainingExposure(s) =< 0]

RejectionReasons(q, a, s) ==
  LET failed == Failed(q, a, s)
  IN  q.faults \cup a.faults \cup s.faults \cup {c \in DOMAIN failed : failed[c]}

KillSwitchRequired(reasons) ==
  reasons \cap {"kill_switch_active", "hard_daily_loss_limit"} # {}

\* QuantityCaps, as whole shares.
QuantityCaps(q, a, s) ==
  [trade_risk        |-> TradeRiskBudget(q, s) \div ModeledRisk(q),
   open_risk         |-> RemainingOpenRisk(s) \div ModeledRisk(q),
   daily_loss        |-> RemainingLoss(a, s) \div ModeledRisk(q),
   buying_power      |-> UsableBuyingPower(a, s) \div EntryLimit(q),
   position_notional |-> MaxPositionNotional(s) \div EntryLimit(q),
   gross_exposure    |-> RemainingExposure(s) \div EntryLimit(q),
   adv_liquidity     |-> (q.adv * Policy.max_adv) \div Whole,
   premarket_liquidity |-> (q.premarket_volume * Policy.max_premarket) \div Whole]

SmallestCap(caps) ==
  CHOOSE n \in {caps[c] : c \in DOMAIN caps} : \A c \in DOMAIN caps : n =< caps[c]

\* _BINDING_ORDER decides which of several equal caps is named.
BindingOrder == <<"trade_risk", "open_risk", "daily_loss", "buying_power",
                  "position_notional", "gross_exposure", "adv_liquidity",
                  "premarket_liquidity">>
BindingCap(caps) ==
  LET ties == {i \in DOMAIN BindingOrder : caps[BindingOrder[i]] = SmallestCap(caps)}
  IN  BindingOrder[CHOOSE i \in ties : \A j \in ties : i =< j]

\* RiskDecision.validate_terminal_shape: an approved decision has a quantity and
\* what it reserves, a rejected one has reasons and reserves nothing.
Decision ==
  [approved : {TRUE}, reasons : {{}}, kill_switch_required : {FALSE},
   binding_cap : {BindingOrder[i] : i \in DOMAIN BindingOrder},
   quantity : Nat \ {0}, modeled_risk : Nat \ {0}, notional : Nat \ {0}]
  \cup
  [approved : {FALSE}, reasons : SUBSET STRING \ {{}}, kill_switch_required : BOOLEAN,
   binding_cap : {"none"}, quantity : {0}, modeled_risk : {0}, notional : {0}]

Rejected(reasons) ==
  [approved |-> FALSE, reasons |-> reasons,
   kill_switch_required |-> KillSwitchRequired(reasons), binding_cap |-> "none",
   quantity |-> 0, modeled_risk |-> 0, notional |-> 0]

ApprovedFor(q, caps) ==
  [approved |-> TRUE, reasons |-> {}, kill_switch_required |-> FALSE,
   binding_cap |-> BindingCap(caps), quantity |-> SmallestCap(caps),
   modeled_risk |-> ModeledRisk(q) * SmallestCap(caps),
   notional |-> EntryLimit(q) * SmallestCap(caps)]

SizePosition(q, a, s) ==
  LET reasons == RejectionReasons(q, a, s)
      caps    == QuantityCaps(q, a, s)
  IN  IF reasons # {} THEN Rejected(reasons)
      ELSE IF SmallestCap(caps) < MinimumQuantity
        THEN Rejected({"final_quantity_below_minimum"})
        ELSE ApprovedFor(q, caps)

\* Broken variant: counts the position but not what it may lose.
AfterDecisionNoRisk(s, d) ==
  IF d.approved THEN [s EXCEPT !.reserved_notional = s.reserved_notional + d.notional,
                               !.reserved_positions = s.reserved_positions + 1]
  ELSE s

\* The session state the next request of a batch is sized with.
AfterDecision(s, d) ==
  IF d.approved THEN [s EXCEPT !.open_risk = s.open_risk + d.modeled_risk,
                               !.reserved_notional = s.reserved_notional + d.notional,
                               !.reserved_positions = s.reserved_positions + 1]
  ELSE s
=============================================================================
