----------------------------- MODULE MCPackets -----------------------------
EXTENDS Packets

ByHeight == [height |-> 3, timestamp |-> 0]
ByTime == [height |-> 0, timestamp |-> 3]
Early == [height |-> 2, timestamp |-> 0]
MCTimeouts == {ByHeight, ByTime}
\* Due at different blocks: a packet may expire before an earlier one.
OrderedTimeouts == {Early, ByTime}
LiveTimeouts == {Early}
MCTimeSteps == {2}
UnitSteps == {1}
LiveMaxHeight == [c \in Chains |-> IF c = "A" THEN 3 ELSE 1]
OrderedMaxHeight == [c \in Chains |-> IF c = "A" THEN 4 ELSE 2]
MCMaxHeight == [c \in Chains |-> 3]
=============================================================================
