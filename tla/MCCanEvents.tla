----------------------------- MODULE MCCanEvents -----------------------------
(* Instances of CanEvents for TLC: one object receives, one transmits.        *)
EXTENDS CanEvents

NoDataOrTooLong == {0, 9}
OnePayload == {1}
OneEach == <<{"RX_DATA"}, {"TX_DATA"}>>

\* Both queues; no queue, with the receive line
\* open for diagnostics; and two that are refused.
Interrupts(rx, storage, tx, diagnostics) ==
  [rxEventStorage |-> storage, rxEventCapacity |-> rx, txCompleteEventStorage |-> tx > 0,
   txCompleteEventCapacity |-> tx, diagnostics |-> diagnostics]
EventConfigs ==
  {Interrupts(1, TRUE, 1, FALSE), Interrupts(0, FALSE, 0, TRUE),
   Interrupts(1, FALSE, 1, FALSE), Interrupts(0, FALSE, 0, FALSE)}

Timing(brp, prop, seg1, seg2, sjw) ==
  [prescaler |-> brp, propagationSegmentTq |-> prop, phaseSegment1Tq |-> seg1,
   phaseSegment2Tq |-> seg2, syncJumpWidthTq |-> sjw]
Controller(clock, t) == [sourceClockHz |-> clock, bitTiming |-> t, mode |-> 0]

\* The longest bit with the first prescaler that needs the extension; the same
\* with one quantum too many in front of the sample point; rates one hertz too
\* high and zero.
BoundaryConfigs ==
  {Controller(160000000, Timing(65, 8, 8, 8, 4)),
   Controller(160000000, Timing(65, 9, 8, 7, 4)),
   Controller(160000160, Timing(10, 5, 4, 6, 4)),
   Controller(159, Timing(10, 5, 4, 6, 4))}
==============================================================================
