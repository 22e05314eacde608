----------------------------- MODULE MCDatapath -----------------------------
(* Instances of Datapath: the messages that remotes send in the run. *)
EXTENDS Datapath

CONSTANTS c, d

M(type) == [type |-> type, xid |-> 0, id |-> NoId, meant |-> NoReport, in |-> 0, n |-> 99, outs |-> <<>>,
            command |-> "ADD",
            port |-> 0, bit |-> "PORT_DOWN", on |-> TRUE, send_flow_exp |-> FALSE, parts |-> 2]

\* The controller sends all kinds of messages; another remote asks, and uses buffers.
Instructions ==
  {[M("PACKET_OUT") EXCEPT !.outs = <<0>>],
   [M("FLOW_MOD") EXCEPT !.outs = <<1, ToController, Flood>>],
   [M("FLOW_MOD") EXCEPT !.in = 1, !.outs = <<1>>],
   [M("FLOW_MOD") EXCEPT !.command = "MODIFY", !.outs = <<Table>>],
   [M("FLOW_MOD") EXCEPT !.command = "DELETE"],
   [M("PORT_MOD") EXCEPT !.bit = "NO_RECV"]}

Questions ==
  {[M("PACKET_OUT") EXCEPT !.in = 1, !.outs = <<Table, All, InPort>>],
   M("STATS_REQUEST"), M("ECHO_REQUEST")}

MCRequests == [r \in {c, d} |-> IF r = c THEN Instructions \cup Questions ELSE Questions]
=============================================================================
