SPECIFICATION RiskSpec
CONSTANTS
  Policy <- PaperV1
  Cent = 10
  Whole = 10000
  Tickers = {t1, t2, t3}
  Offers <- MCOffers
  Accounts <- MCAccounts
  Sessions <- MCSessions
  MaxBatch = 2
  MaxCalls = 2
  t1 = t1
  t2 = t2
  t3 = t3
SYMMETRY TickerSymmetry
CHECK_DEADLOCK FALSE
INVARIANTS
  RowsExplained
PROPERTY
  KeepsLedger
