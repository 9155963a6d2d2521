---------------------------- MODULE MCPlatformTime ----------------------------
(* Instance of PlatformTime for TLC: for each timer the reference configuration, *)
(* a changed one and a refused one.                                              *)
EXTENDS PlatformTime

Ticks(period) == [periodTicks |-> period, clockDivider |-> 1]

MCTimebaseConfigs == {Ticks(3), Ticks(1), Ticks(0)}
MCTimestampConfigs == {Ticks(CounterMod), Ticks(3), Ticks(CounterMod + 1)}
===============================================================================
