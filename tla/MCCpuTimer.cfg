\* A 4-value counter and a 3-value prescaler: every accepted configuration.
CONSTANTS
  CounterMod = 4
  DividerMod = 3
SPECIFICATION TimerSpec
INVARIANTS TimerTypeOK StateFollowsCounter PeriodIsExact
