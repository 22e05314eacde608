----------------------------- MODULE FlowTable -----------------------------
(***************************************************************************)
(* The flow table of the OpenFlow switch: a chain of a double-hashing      *)
(* table for exact matches and a linear table for everything else          *)
(* (switch/chain.c, table-hash.c, table-linear.c, switch-flow.c), driven   *)
(* by the flow_mod messages, packets, timeouts and statistics requests of  *)
(* datapath.c.                                                             *)
(*                                                                         *)
(* A key is a set of header fields with values and the set of those that   *)
(* are wildcarded; the CRCs are two arbitrary functions from exact keys to *)
(* buckets.  Time stamps are ages, capped above the timeout.  id tells     *)
(* apart the flows that were inserted one after the other; the code has no *)
(* such number.                                                            *)
(***************************************************************************)
EXTENDS Integers, Sequences, SequencesExt, FiniteSets, FiniteSetsExt, TLC

CONSTANTS Field, Value,       \* header fields and what they may hold
          Matches,            \* the keys that flow_mods and requests use
          Crc,                \* Crc[t][flow]: the bucket of a flow in subtable t
          Buckets,            \* the buckets of each subtable
          TABLE_LINEAR_MAX_FLOWS,
          Priorities,         \* the priorities that controllers ask for
          ExactPriority,      \* (uint16_t) -1
          Port,               \* output ports; OFPP_NONE is not one of them
          Timeouts,           \* <<idle_timeout, hard_timeout>>; 0 is permanent
          FlowsPerReply,      \* flows that fit into one statistics reply
          MaxAdds,            \* bound: flows that are inserted
          MaxDumps            \* bound: statistics requests

Flows == [Field -> Value]
Keys == [flow : Flows, wildcards : SUBSET Field]

ASSUME FlowTableAssumption ==
    /\ Matches \subseteq Keys
    /\ Crc \in [1..2 -> [Flows -> Buckets]]
    /\ TABLE_LINEAR_MAX_FLOWS \in Nat
    /\ Buckets \subseteq Nat
    /\ ExactPriority \in Nat
    /\ Priorities \subseteq 0..ExactPriority
    /\ Timeouts \subseteq Nat \X Nat
    /\ FlowsPerReply \in Nat \ {0}
    /\ MaxAdds \in Nat /\ MaxDumps \in Nat

VARIABLES hash,      \* hash[t][b]: the flow in bucket b of subtable t, or NoFlow
          flows,     \* the list of the linear table, in lookup order
          n_flows,   \* n_flows[t] of the subtables 1 and 2 and of the linear table, 3
          adds,      \* history: flows inserted so far
          serial,    \* next_serial of the linear table
          dump,      \* the statistics request that is being answered
          dumps      \* history: requests so far

vars == <<hash, flows, n_flows, adds, serial, dump, dumps>>

OFPP_NONE == "none"
NoFlow == [id |-> 0]

-----------------------------------------------------------------------------
(* switch-flow.c *)

flow_fields_match(a, b, w) == \A f \in Field \ w : a.flow[f] = b.flow[f]

flow_matches_1wild(a, b) == flow_fields_match(a, b, b.wildcards)
flow_matches_2wild(a, b) == flow_fields_match(a, b, a.wildcards \union b.wildcards)

flow_matches_desc(t, d, strict) ==
    /\ strict => t.wildcards = d.wildcards
    /\ flow_matches_1wild(t, d)

flow_has_out_port(flow, out_port) == out_port = OFPP_NONE \/ flow.port = out_port

flow_timeout(flow) ==
    \/ flow.idle_timeout # 0 /\ flow.used > flow.idle_timeout
    \/ flow.hard_timeout # 0 /\ flow.created > flow.hard_timeout

\* One second older.  An age is capped above the timeout it is compared with.
AgeCap(limit) == IF limit = 0 THEN 0 ELSE limit + 1
Older(flow) == [flow EXCEPT !.used = Min({@ + 1, AgeCap(flow.idle_timeout)}),
                            !.created = Min({@ + 1, AgeCap(flow.hard_timeout)})]

\* Whether two keys and priorities name the same flow.
SameFlow(f, g) ==
    /\ f.priority = g.priority
    /\ f.key.wildcards = g.key.wildcards
    /\ flow_matches_2wild(f.key, g.key)

-----------------------------------------------------------------------------
(* What is in the tables *)

Slots == (1..2) \X Buckets
InHash == {hash[s[1]][s[2]] : s \in Slots} \ {NoFlow}
Stored == InHash \union ToSet(flows)

-----------------------------------------------------------------------------
(* table-hash.c *)

Bucket(t, key) == Crc[t][key.flow]

table_hash_lookup(t, key) ==
    LET flow == hash[t][Bucket(t, key)]
    IN IF flow # NoFlow /\ flow.key.flow = key.flow THEN flow ELSE NoFlow

table_hash2_lookup(key) ==
    IF table_hash_lookup(1, key) # NoFlow THEN table_hash_lookup(1, key)
    ELSE table_hash_lookup(2, key)

\* A subtable takes an exact flow if its bucket is free or holds the same key.
HashTakes(t, flow) ==
    /\ flow.key.wildcards = {}
    /\ LET old == hash[t][Bucket(t, flow.key)]
       IN IF old = NoFlow THEN TRUE ELSE old.key.flow = flow.key.flow

table_hash_insert(t, flow) ==
    /\ hash' = [hash EXCEPT ![t][Bucket(t, flow.key)] = flow]
    /\ n_flows' = [n_flows EXCEPT ![t] = @ + IF hash[t][Bucket(t, flow.key)] = NoFlow
                                              THEN 1 ELSE 0]

-----------------------------------------------------------------------------
(* table-linear.c *)

table_linear_lookup(key) ==
    LET hits == {i \in DOMAIN flows : flow_matches_1wild(key, flows[i].key)}
    IN IF hits = {} THEN NoFlow ELSE flows[Min(hits)]

\* Faulty variant: every entry goes to the end of the list.
LinearPositionLast(flow) == Len(flows) + 1

\* Where the loop stops: in front of the first entry with a lower priority.
LinearPosition(flow) ==
    LET lower == {i \in DOMAIN flows : flows[i].priority < flow.priority}
    IN IF lower = {} THEN Len(flows) + 1 ELSE Min(lower)

LinearDuplicates(flow) ==
    {i \in 1..(LinearPosition(flow) - 1) : SameFlow(flows[i], flow)}

LinearTakes(flow) ==
    LinearDuplicates(flow) # {} \/ n_flows[3] < TABLE_LINEAR_MAX_FLOWS

table_linear_insert(flow) ==
    IF LinearDuplicates(flow) # {}
    THEN LET i == Min(LinearDuplicates(flow))
         IN /\ flows' = [flows EXCEPT ![i] = [flow EXCEPT !.serial = flows[i].serial]]
            /\ UNCHANGED <<n_flows, serial>>
    ELSE /\ flows' = InsertAt(flows, LinearPosition(flow), [flow EXCEPT !.serial = serial])
         /\ n_flows' = [n_flows EXCEPT ![3] = @ + 1]
         /\ serial' = serial + 1

-----------------------------------------------------------------------------
(* chain.c *)

chain_lookup(key) ==
    IF table_hash2_lookup(key) # NoFlow THEN table_hash2_lookup(key)
    ELSE table_linear_lookup(key)

chain_insert(flow) ==
    \/ HashTakes(1, flow) /\ table_hash_insert(1, flow) /\ UNCHANGED <<flows, serial>>
    \/ /\ ~HashTakes(1, flow) /\ HashTakes(2, flow)
       /\ table_hash_insert(2, flow) /\ UNCHANGED <<flows, serial>>
    \/ /\ ~HashTakes(1, flow) /\ ~HashTakes(2, flow)
       /\ LinearTakes(flow)
       /\ table_linear_insert(flow) /\ UNCHANGED hash

\* n_flows follows the flows that leave the tables.
Uncount ==
    n_flows' = [t \in 1..3 |->
        n_flows[t] - IF t = 3 THEN Len(flows) - Len(flows')
                     ELSE Cardinality({b \in Buckets : hash[t][b] # NoFlow /\ hash'[t][b] = NoFlow})]

\* The enumeration of a set of positions in ascending order.
Ascending(P) ==
    {e \in [1..Cardinality(P) -> P] :
        /\ \A k, l \in 1..Cardinality(P) : k < l => e[k] < e[l]
        /\ \A i \in P : \E k \in 1..Cardinality(P) : e[k] = i}

\* Every flow of the chain is replaced, at its place, by what new holds for it;
\* NoFlow is a removal.
UpdateFlows(new) ==
    /\ hash' = [t \in 1..2 |-> [b \in Buckets |->
                  IF hash[t][b] = NoFlow THEN NoFlow ELSE new[hash[t][b]]]]
    /\ \E kept \in Ascending({i \in DOMAIN flows : new[flows[i]] # NoFlow}) :
          flows' = [k \in DOMAIN kept |-> new[flows[kept[k]]]]
    /\ Uncount

\* The flows a modification describes.
Described(flow, key, priority, strict) ==
    /\ flow_matches_desc(flow.key, key, strict)
    /\ strict => flow.priority = priority

\* Faulty variant: the hash tables skip descriptions with wildcards.
DeletedExact(flow, inHash, key, priority, strict) ==
    /\ flow_matches_desc(flow.key, key, strict)
    /\ inHash => key.wildcards = {}
    /\ (strict /\ ~inHash) => flow.priority = priority

\* table_hash_delete ignores the priority; all its flows have the highest one.
Deleted(flow, inHash, key, priority, strict) ==
    /\ flow_matches_desc(flow.key, key, strict)
    /\ (strict /\ ~inHash) => flow.priority = priority

-----------------------------------------------------------------------------
(* Statistics: iterate with a position that survives changes of the tables *)

NoDump == [key |-> NoFlow]
Infinity == MaxAdds + 1

Matching(flow, key) == flow_matches_2wild(key, flow.key)

\* The slots of the hash tables from a position on.
HashSlotsFrom(t, b) == {s \in Slots : s[1] > t \/ (s[1] = t /\ s[2] >= b)}

\* Faulty variant: the position names the flow after the next one.
AfterSerialSkipping(n) == IF n = 0 THEN Infinity ELSE n - 2

\* The position behind a flow of the linear table is ~(serial - 1): it counts down,
\* and serial 0 wraps to the start.
AfterSerial(n) == IF n = 0 THEN Infinity ELSE n - 1

\* The flows that are still to be reported, with the tables they are in.
Pending(d) ==
    {[flow |-> hash[s[1]][s[2]], table |-> s[1], bucket |-> s[2]] :
        s \in {r \in HashSlotsFrom(d.table, d.bucket) :
                  hash[r[1]][r[2]] # NoFlow /\ Matching(hash[r[1]][r[2]], d.key)}}
    \union
    {[flow |-> f, table |-> 3, bucket |-> 0] :
        f \in {g \in ToSet(flows) : g.serial <= d.start /\ Matching(g, d.key)}}

\* The order of the iteration: by bucket, and through the linear table from the
\* latest flow to the first.
Before(x, y) ==
    \/ x.table < y.table
    \/ x.table = y.table /\ x.bucket < y.bucket
    \/ x.table = y.table /\ x.bucket = y.bucket /\ x.flow.serial > y.flow.serial

\* The position behind a flow.
Behind(d, x) ==
    [d EXCEPT !.table = x.table, !.bucket = x.bucket + 1,
              !.start = IF x.table = 3 THEN AfterSerial(x.flow.serial) ELSE @]

\* Flows that stop being stored need not be reported.
StillOwed(d) == IF d = NoDump THEN d ELSE [d EXCEPT !.owed = @ \intersect {f.id : f \in Stored'}]

-----------------------------------------------------------------------------
(* datapath.c *)

Init ==
    /\ hash = [t \in 1..2 |-> [b \in Buckets |-> NoFlow]]
    /\ flows = <<>>
    /\ n_flows = <<0, 0, 0>>
    /\ adds = 0
    /\ serial = 0
    /\ dump = NoDump
    /\ dumps = 0

Priority(key, p) == IF key.wildcards = {} THEN ExactPriority ELSE p

add_flow(key, p, port, timeouts) ==
    /\ adds < MaxAdds
    /\ LET flow == [key |-> key, priority |-> Priority(key, p), port |-> port,
                    idle_timeout |-> timeouts[1], hard_timeout |-> timeouts[2],
                    used |-> 0, created |-> 0, serial |-> 0, id |-> adds + 1]
       IN \/ chain_insert(flow)
          \/ /\ ~HashTakes(1, flow) /\ ~HashTakes(2, flow) /\ ~LinearTakes(flow)
             /\ UNCHANGED <<hash, flows, n_flows, serial>>   \* OFPFMFC_ALL_TABLES_FULL
    /\ adds' = adds + 1
    /\ dump' = StillOwed(dump)
    /\ UNCHANGED dumps

mod_flow(key, p, strict, port) ==
    /\ UpdateFlows([f \in Stored |->
            IF Described(f, key, Priority(key, p), strict) THEN [f EXCEPT !.port = port]
            ELSE f])
    /\ UNCHANGED <<adds, serial, dump, dumps>>

delete_flow(key, p, strict, out_port) ==
    /\ UpdateFlows([f \in Stored |->
            IF /\ Deleted(f, f \in InHash, key, Priority(key, p), strict)
               /\ flow_has_out_port(f, out_port)
            THEN NoFlow ELSE f])
    /\ dump' = StillOwed(dump)
    /\ UNCHANGED <<adds, serial, dumps>>

\* A packet that hits a flow refreshes it.
packet(flow) ==
    LET hit == chain_lookup([flow |-> flow, wildcards |-> {}])
    IN /\ hit # NoFlow
       /\ UpdateFlows([f \in Stored |-> IF f.id = hit.id THEN [f EXCEPT !.used = 0] ELSE f])
       /\ UNCHANGED <<adds, serial, dump, dumps>>

\* A second passes, and dp_run removes what has timed out.
timeout ==
    /\ \E f \in Stored : f.idle_timeout # 0 \/ f.hard_timeout # 0
    /\ UpdateFlows([f \in Stored |-> IF flow_timeout(Older(f)) THEN NoFlow ELSE Older(f)])
    /\ dump' = StillOwed(dump)
    /\ UNCHANGED <<adds, serial, dumps>>

flow_stats_init(key) ==
    /\ dump = NoDump
    /\ dumps < MaxDumps
    /\ dump' = [key |-> key, table |-> 1, bucket |-> 0, start |-> Infinity,
                owed |-> {f.id : f \in {g \in Stored : Matching(g, key)}}]
    /\ dumps' = dumps + 1
    /\ UNCHANGED <<hash, flows, n_flows, adds, serial>>

\* One reply: it ends with the flow that fills it, or with the last one.
flow_stats_dump ==
    /\ dump # NoDump
    /\ \/ Cardinality(Pending(dump)) < FlowsPerReply /\ dump' = NoDump
       \/ \E last \in Pending(dump) :
             LET reply == {x \in Pending(dump) : ~Before(last, x)}
             IN /\ Cardinality(reply) = FlowsPerReply
                /\ dump' = [Behind(dump, last) EXCEPT !.owed = @ \ {x.flow.id : x \in reply}]
    /\ UNCHANGED <<hash, flows, n_flows, adds, serial, dumps>>

Next ==
    \/ \E key \in Matches :
          \/ \E p \in Priorities, port \in Port, t \in Timeouts : add_flow(key, p, port, t)
          \/ \E p \in Priorities, strict \in BOOLEAN, port \in Port :
                mod_flow(key, p, strict, port)
          \/ \E p \in Priorities, strict \in BOOLEAN, out \in Port \union {OFPP_NONE} :
                delete_flow(key, p, strict, out)
          \/ flow_stats_init(key)
    \/ \E flow \in Flows : packet(flow)
    \/ timeout
    \/ flow_stats_dump

Spec == Init /\ [][Next]_vars

-----------------------------------------------------------------------------
(* Properties *)

\* A packet never misses a flow that matches it, and no stored flow that matches has a
\* higher priority than the one chain_lookup finds, although the search is cut
\* short in every table and exact flows overflow from one table to the next.
LookupIsBestMatch ==
    \A flow \in Flows :
        LET key == [flow |-> flow, wildcards |-> {}]
            hit == chain_lookup(key)
            matching == {f \in Stored : flow_matches_1wild(key, f.key)}
        IN IF matching = {} THEN hit = NoFlow
           ELSE hit \in matching /\ \A f \in matching : f.priority <= hit.priority

\* <<k, l>>: every packet that l matches is matched by k.
Covers ==
    {kl \in Matches \X Matches :
        \A flow \in Flows :
            LET packetKey == [flow |-> flow, wildcards |-> {}]
            IN flow_matches_1wild(packetKey, kl[2]) => flow_matches_1wild(packetKey, kl[1])}

\* A DELETE without _STRICT leaves no flow behind whose packets the description all
\* covers, in whichever table the flow has ended up.
DeleteIsComplete ==
    [][\A key \in Matches :
          (\E f \in Stored' : <<key, f.key>> \in Covers)
             => ~delete_flow(key, ExactPriority, FALSE, OFPP_NONE)]_vars

\* A flow that is there from the request to the last reply is in some reply, although
\* flows are added, replaced, deleted and timed out between the replies.
DumpMissesNothing ==
    [][(dump # NoDump /\ dump' = NoDump)
          => dump.owed \subseteq {x.flow.id : x \in Pending(dump)}]_vars
=============================================================================
