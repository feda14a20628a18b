---------------------------- MODULE MCDataDelivery ----------------------------
(* Instances of DataDelivery: impacts, which are sent at once and in the batch, *)
(* and locations, which have a slot of their own.                               *)
EXTENDS DataDelivery

MCBatchOrder == <<"impact">>
MCImmediate == {"impact"}

\* A ring of two: the head wraps with the second impact, and the third overwrites
\* the first, while any of them may be waiting to be sent.
MCBufferCount == [impact |-> 2]
MCMaxSamples == [impact |-> 3, cloud_location |-> 1]

\* For liveness: a message of each type, and a connection that comes back.
MCOneEntry == [impact |-> 1]
MCOneSample == [impact |-> 1, cloud_location |-> 1]
=============================================================================
