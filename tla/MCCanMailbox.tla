---------------------------- MODULE MCCanMailbox ----------------------------
(* Instances of CanMailbox for TLC: no data, some data, and a length the bus *)
(* allows but the code refuses; every object may take every role.            *)
EXTENDS CanMailbox

AllLengths == {0, 1, 9}
TwoPayloads == {1, 2}
AnyRole == [o \in Mailbox |-> Role \ {"NONE"}]
==============================================================================
