\* Three tasks contend for two units and may ask again: enough for a
\* cancelled waiter between two others, and for a wake-up that races an
\* arrival.  No symmetry, for the sake of the liveness property.
CONSTANTS
  t1 = t1
  t2 = t2
  t3 = t3
  Tasks = {t1, t2, t3}
  MaxConcurrent = 2
  Budget = 4
  Interval = 1
  MaxTime = 4
  MaxDenied = 1
SPECIFICATION FairSpec
INVARIANTS
  TypeOK
  BudgetConserved
  MetricsBalance
  ConcurrencyBound
  NoLostWakeup
  SlotsSpaced
PROPERTIES
  AcquireReturns
CHECK_DEADLOCK FALSE
