--------------------------- MODULE DeliveryService ---------------------------
(***************************************************************************)
(* What the overlay promises: each interface is a FIFO channel of packets. *)
(* What the sink has recorded for an interface is, packet by packet and    *)
(* application by application, what the sender wrote to it so far, and     *)
(* nothing already recorded ever changes.                                  *)
(***************************************************************************)
EXTENDS Integers, Sequences

CONSTANTS Interface, Flow

VARIABLES written, recorded

dsVars == <<written, recorded>>

Init == /\ written = [i \in Interface |-> << >>]
        /\ recorded = [i \in Interface |-> << >>]

Write(i, f) == /\ written' = [written EXCEPT ![i] = Append(@, f)]
               /\ UNCHANGED recorded

\* Any number of packets, in order.
Record(i, n) == /\ recorded' = [recorded EXCEPT ![i] = SubSeq(written[i], 1, n)]
                /\ UNCHANGED written

Next == \E i \in Interface :
            \/ \E f \in Flow : Write(i, f)
            \/ \E n \in Len(recorded[i])..Len(written[i]) : Record(i, n)

Spec == Init /\ [][Next]_dsVars
=============================================================================
