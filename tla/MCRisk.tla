------------------------------- MODULE MCRisk -------------------------------
(***************************************************************************)
(* A session of 200 dollars under the ratios of RiskPolicyConfig.paper_v1  *)
(* (max_spread and max_drift relaxed to fit prices of about one dollar).   *)
(* Money is counted in tenths of a cent.                                   *)
(***************************************************************************)
EXTENDS Risk, TLC

TickerSymmetry == Permutations(Tickers)

PaperV1 ==
  [risk_per_trade |-> 25, max_open_risk |-> 75, max_position_notional |-> 1000,
   max_gross_exposure |-> 2500, buying_power_reserve |-> 2000,
   soft_daily_loss |-> 75, hard_daily_loss |-> 100,
   max_adv |-> 10, max_premarket |-> 50, max_spread |-> 400, max_drift |-> 500,
   max_spread_atr |-> 5000, max_drift_atr |-> 5000,
   slippage_atr |-> 1000, slippage_spread |-> 5000, pnl_tolerance |-> 1000,
   max_concurrent |-> 3, max_entries |-> 3, max_losses |-> 2]

\* A share of about a dollar that risks 9 cents, and one that risks 23.
Cheap == [entry_limit |-> 1000, tick |-> 10, reference |-> 1000, atr |-> 100,
          premarket_low |-> 950, stop_multiple |-> 7500, target_multiple |-> 20000,
          bid |-> 990, ask |-> 1000, last |-> 1000, flags |-> {}, adv |-> 9000,
          premarket_volume |-> 9000, faults |-> {}]
Wide  == [Cheap EXCEPT !.atr = 250, !.premarket_low = 900, !.flags = {"low_float"},
                       !.entry_limit = 1003]

MCOffers == {Cheap, Wide}

Rich == [equity |-> 200000, last_equity |-> 205000, buying_power |-> 400000,
         cash_buying_power |-> 200000, long_market_value |-> 0, faults |-> {}]
\* The same account after a loss of a dollar, and with little cash.
Hurt == [Rich EXCEPT !.equity = 199000, !.cash_buying_power = 10000]

MCAccounts == {Rich, Hurt}

Fresh == SessionState(Rich)
\* Later in the day: a position is open and the internal books show the loss.
Later == [Fresh EXCEPT !.unrealized = -600, !.open_risk = 700, !.long_value = 41000,
                       !.open_positions = 1, !.completed_entries = 1]

MCSessions == {Later}
=============================================================================
