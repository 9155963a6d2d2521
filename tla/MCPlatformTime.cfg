\* A 4-value counter; measurements of up to two rounds of it.
CONSTANTS
  CounterMod = 4
  DividerMod = 2
  TimebaseConfigs <- MCTimebaseConfigs
  TimestampConfigs <- MCTimestampConfigs
  MaxSample = 8
SPECIFICATION FairSpec
INVARIANTS TypeOK ServicesAllOrNone OneTickPerPeriod TimestampMeasuresTime
PROPERTY TicksAreServed
