--------------------------- MODULE MCDhcpClient ---------------------------
(***************************************************************************)
(* An instance of DhcpClient: times are scaled down, so that a lease takes *)
(* six seconds.                                                            *)
(***************************************************************************)
EXTENDS DhcpClient

Plain == [ip |-> 1, lease |-> 6, t1 |-> 0, t2 |-> 0, valid |-> TRUE, server |-> TRUE]
Short == [Plain EXCEPT !.lease = 5]

\* An offer that is too short, one without T1 and T2, one with times in order that names
\* no server (an ACK may do so), and one with a T2 before the T1 that calc_t1 makes up.
MCTerms ==
    {[Plain EXCEPT !.lease = 1], Plain, [Short EXCEPT !.t1 = 1, !.t2 = 4, !.server = FALSE],
     [Short EXCEPT !.t1 = 3, !.t2 = 1]}
=============================================================================
