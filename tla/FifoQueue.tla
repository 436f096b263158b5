------------------------------ MODULE FifoQueue ------------------------------
(***************************************************************************)
(* What one direction of the message bus promises to its users: a queue    *)
(* without a visible bound.  Every message whose publication took effect   *)
(* is in `log`, in the order in which the publications took effect;        *)
(* `delivered` is what the consumer has been handed so far.  Messages are  *)
(* neither lost, duplicated nor overtaken, and none is accepted after the  *)
(* queue was shut.                                                         *)
(***************************************************************************)
EXTENDS Naturals, Sequences

CONSTANT Message

VARIABLES log,        \* every message accepted so far, oldest first
          delivered,  \* the messages handed to the consumer, oldest first
          open        \* FALSE once the queue was shut

fifoVars == <<log, delivered, open>>

Init == /\ log = <<>>
        /\ delivered = <<>>
        /\ open = TRUE

Accept == /\ open
          /\ \E m \in Message : log' = Append(log, m)
          /\ UNCHANGED <<delivered, open>>

Deliver == /\ Len(delivered) < Len(log)
           /\ delivered' = Append(delivered, log[Len(delivered) + 1])
           /\ UNCHANGED <<log, open>>

Shut == /\ open
        /\ open' = FALSE
        /\ UNCHANGED <<log, delivered>>

Next == Accept \/ Deliver \/ Shut

Spec == Init /\ [][Next]_fifoVars
=============================================================================
