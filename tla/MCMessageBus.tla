---------------------------- MODULE MCMessageBus ----------------------------
(* MessageBus on small instances: model values for the goroutines.         *)
EXTENDS MessageBus

CONSTANTS p1, p2, w1

Publishers2 == {p1, p2}
Writers1 == {w1}
OutboundOnly == {"outbound"}
=============================================================================
