-------------------------- MODULE FlowTableProofs --------------------------
(***************************************************************************)
(* A lookup finds the best match, a deletion leaves nothing that it        *)
(* covers, and statistics miss no flow that stays, for every set of header *)
(* fields, every hash function, every size of the tables and of a reply,   *)
(* and any number of additions and requests.                               *)
(***************************************************************************)
EXTENDS FlowTable, SequenceTheorems, FiniteSetTheorems, WellFoundedInduction, TLAPS

FlowRec == [key : Keys, priority : 0..ExactPriority, port : Port,
            idle_timeout : Nat, hard_timeout : Nat, used : Nat, created : Nat,
            serial : Nat, id : Nat \ {0}]

DumpRec == [key : Keys, table : 1..3, bucket : Nat, start : Nat, owed : SUBSET Nat]

TypeOK ==
  /\ hash \in [1..2 -> [Buckets -> FlowRec \union {NoFlow}]]
  /\ flows \in Seq(FlowRec)
  /\ adds \in 0..MaxAdds /\ serial \in 0..adds
  /\ dump \in DumpRec \union {NoDump}

\* The hash tables hold exact flows, each of them in the bucket of its key.
InPlace ==
  \A t \in 1..2, b \in Buckets : hash[t][b] # NoFlow =>
    /\ hash[t][b].key.wildcards = {}
    /\ hash[t][b].priority = ExactPriority
    /\ b = Bucket(t, hash[t][b].key)

\* The linear table is in the order of the priorities.
Sorted ==
  \A i, j \in DOMAIN flows : i < j => flows[j].priority <= flows[i].priority

Serials == \A i \in DOMAIN flows : flows[i].serial < serial

\* A number means one key.
Ids == /\ \A f \in Stored : f.id <= adds
       /\ \A f, g \in Stored : f.id = g.id => f.key = g.key

\* A flow that is still to be reported is stored, behind the position of the request.
Owed ==
  dump # NoDump =>
    /\ \A n \in dump.owed : \E f \in Stored : f.id = n
    /\ \A t \in 1..2, b \in Buckets :
         hash[t][b] # NoFlow /\ hash[t][b].id \in dump.owed =>
           /\ t > dump.table \/ (t = dump.table /\ b >= dump.bucket)
           /\ Matching(hash[t][b], dump.key)
    /\ \A i \in DOMAIN flows : flows[i].id \in dump.owed =>
         flows[i].serial <= dump.start /\ Matching(flows[i], dump.key)

IInv == TypeOK /\ InPlace /\ Sorted /\ Serials /\ Ids /\ Owed

-----------------------------------------------------------------------------
(* The tables *)

\* A loop that stops at the first hit stops somewhere.
LEMMA MinIs ==
    ASSUME NEW T \in SUBSET Nat, T # {}
    PROVE  Min(T) \in T /\ \A m \in T : Min(T) <= m
<1> DEFINE R == {mn \in Nat \X Nat : mn[1] < mn[2]}
<1>1. IsWellFoundedOn(R, Nat)
  BY NatLessThanWellFounded DEF OpToRel
<1>2. PICK n \in T : \A m \in T : ~ (<<m, n>> \in R)
  BY <1>1, WFMin
<1>3. \A m \in T : n <= m
  <2>1. SUFFICES ASSUME NEW m \in T PROVE n <= m
    OBVIOUS
  <2>2. <<m, n>> \in Nat \X Nat /\ <<m, n>>[1] = m /\ <<m, n>>[2] = n
    OBVIOUS
  <2>3. ~(m < n)
    BY <1>2, <2>2
  <2>4. m \in Nat /\ n \in Nat
    OBVIOUS
  <2> QED BY <2>3, <2>4
<1> QED
  BY <1>3 DEF Min

\* The smaller of two natural numbers.
LEMMA MinOfTwo ==
    ASSUME NEW m \in Nat, NEW n \in Nat
    PROVE  Min({m, n}) \in Nat
<1>1. {m, n} \in SUBSET Nat /\ {m, n} # {} OBVIOUS
<1> QED BY <1>1, MinIs

\* A flow is not the empty bucket.
LEMMA FlowIsSome ==
    ASSUME NEW f \in FlowRec
    PROVE  /\ f # NoFlow
           /\ f.key \in Keys /\ f.id \in Nat /\ f.serial \in Nat
           /\ f.priority \in Nat /\ f.priority <= ExactPriority
  BY FlowTableAssumption DEF FlowRec, NoFlow

\* A flow is in a hash table if it is in a bucket, in the linear table if it is in the list.
IsInHash(f) ==
  f \in InHash <=> \E t \in 1..2, b \in Buckets : hash[t][b] = f /\ f # NoFlow
IsInList(f) ==
  f \in ToSet(flows) <=> \E i \in DOMAIN flows : flows[i] = f

\* The flows in all buckets of both hash tables.
LEMMA OfAllBuckets ==
    ASSUME NEW h
    PROVE  \A f : f \in {h[s[1]][s[2]] : s \in Slots}
                    <=> \E t \in 1..2, b \in Buckets : h[t][b] = f
<1>1. \A t \in 1..2, b \in Buckets : <<t, b>> \in Slots /\ <<t, b>>[1] = t /\ <<t, b>>[2] = b
  BY DEF Slots
<1>2. \A s \in Slots : s[1] \in 1..2 /\ s[2] \in Buckets
  BY DEF Slots
<1>3. ASSUME NEW f, NEW s \in Slots, h[s[1]][s[2]] = f
      PROVE  \E t \in 1..2, b \in Buckets : h[t][b] = f
  BY <1>2, <1>3
<1>4. ASSUME NEW t \in 1..2, NEW b \in Buckets
      PROVE  \E s \in Slots : h[s[1]][s[2]] = h[t][b]
  <2>1. <<t, b>> \in Slots /\ h[<<t, b>>[1]][<<t, b>>[2]] = h[t][b]
    BY <1>1
  <2> QED BY <2>1
<1> QED BY ONLY <1>3, <1>4

\* The sets of the flows in the tables are what the tables hold, before and after a step.
LEMMA Contents ==
    /\ (\A f : IsInHash(f)) /\ (\A f : IsInList(f))
    /\ (\A f : IsInHash(f)') /\ (\A f : IsInList(f)')
<1>1. \A f : f \in {hash[s[1]][s[2]] : s \in Slots}
                <=> \E t \in 1..2, b \in Buckets : hash[t][b] = f
  BY OfAllBuckets
<1>2. \A f : f \in {hash'[s[1]][s[2]] : s \in Slots}
                <=> \E t \in 1..2, b \in Buckets : hash'[t][b] = f
  BY OfAllBuckets
<1>3. \A f : IsInHash(f)
  BY <1>1 DEF InHash, IsInHash
<1>4. \A f : IsInHash(f)'
  BY <1>2 DEF InHash, IsInHash
<1>5. \A f : IsInList(f) /\ IsInList(f)'
  BY DEF ToSet, IsInList
<1> QED BY <1>3, <1>4, <1>5

\* Where the stored flows are.
Located ==
  /\ Stored \subseteq FlowRec
  /\ \A t \in 1..2, b \in Buckets : hash[t][b] # NoFlow => hash[t][b] \in InHash
  /\ InHash \subseteq Stored
  /\ \A f \in InHash : \E t \in 1..2, b \in Buckets : hash[t][b] = f /\ f # NoFlow
  /\ \A i \in DOMAIN flows : flows[i] \in Stored
  /\ \A f \in Stored : f \in InHash \/ \E i \in DOMAIN flows : flows[i] = f

\* A stored flow is in a bucket of a hash table or in the list of the linear table.
LEMMA Places == TypeOK => Located
<1> SUFFICES ASSUME TypeOK PROVE Located
  OBVIOUS
<1>1. (\A f : IsInHash(f)) /\ (\A f : IsInList(f))
  BY Contents
<1>2. InHash \subseteq FlowRec
  BY <1>1 DEF TypeOK, IsInHash
<1>3. \A i \in DOMAIN flows : flows[i] \in FlowRec
  BY DEF TypeOK
<1> QED
  BY <1>1, <1>2, <1>3 DEF Stored, Located, IsInHash, IsInList

\* The same after a step.
LEMMA PlacesNext == TypeOK' => Located'
  BY Places, PTL

-----------------------------------------------------------------------------
(* A lookup *)

\* Every invariant of the tables gives the best match: an exact flow can only be in the
\* bucket of its key, and the first match of an ordered list is its best one.
LEMMA BestMatch == IInv => LookupIsBestMatch
<1> SUFFICES ASSUME IInv, NEW flow \in Flows
             PROVE  LET key == [flow |-> flow, wildcards |-> {}]
                        hit == chain_lookup(key)
                        matching == {f \in Stored : flow_matches_1wild(key, f.key)}
                    IN IF matching = {} THEN hit = NoFlow
                       ELSE hit \in matching /\ \A f \in matching : f.priority <= hit.priority
  BY DEF LookupIsBestMatch
<1> DEFINE key == [flow |-> flow, wildcards |-> {}]
           hit == chain_lookup(key)
           matching == {f \in Stored : flow_matches_1wild(key, f.key)}
           hits == {i \in DOMAIN flows : flow_matches_1wild(key, flows[i].key)}
<1>1. TypeOK /\ InPlace /\ Sorted
  BY DEF IInv
<1>2. key.flow = flow /\ key.wildcards = {} /\ key.flow \in [Field -> Value]
  BY DEF Flows
<1>3. ASSUME NEW t \in 1..2
      PROVE  LET f == table_hash_lookup(t, key)
             IN f # NoFlow => f \in matching /\ \A g \in matching : g.priority <= f.priority
  <2> DEFINE f == table_hash_lookup(t, key)
  <2> SUFFICES ASSUME f # NoFlow
               PROVE  f \in matching /\ \A g \in matching : g.priority <= f.priority
    OBVIOUS
  <2>1. Bucket(t, key) \in Buckets
    BY <1>2, FlowTableAssumption DEF Bucket, Flows
  <2>2. f = hash[t][Bucket(t, key)] /\ f.key.flow = key.flow
    BY DEF table_hash_lookup
  <2>3. f \in Stored /\ f.priority = ExactPriority
    BY <1>1, <2>1, <2>2, Places DEF Located, InPlace
  <2>4. flow_matches_1wild(key, f.key)
    BY <2>2 DEF flow_matches_1wild, flow_fields_match
  <2> QED
    BY <1>1, <2>3, <2>4, Places, FlowIsSome DEF Located
<1>4. ASSUME NEW f \in matching, f \in InHash
      PROVE  table_hash2_lookup(key) # NoFlow
  <2>1. PICK t \in 1..2, b \in Buckets : hash[t][b] = f /\ f # NoFlow
    BY <1>1, <1>4, Places DEF Located
  <2>2. f.key.wildcards = {} /\ b = Bucket(t, f.key) /\ f.key \in Keys
    BY <1>1, <1>4, <2>1, Places, FlowIsSome DEF Located, InPlace
  <2>3. \A x \in Field : key.flow[x] = f.key.flow[x]
    BY <1>4, <2>2 DEF flow_matches_1wild, flow_fields_match
  <2>4. f.key.flow = key.flow
    BY <1>2, <2>2, <2>3 DEF Keys, Flows
  <2>5. table_hash_lookup(t, key) = f
    BY <2>1, <2>2, <2>4 DEF table_hash_lookup, Bucket
  <2> QED
    BY <2>1, <2>5 DEF table_hash2_lookup
<1>5. CASE table_hash2_lookup(key) # NoFlow
  <2>1. hit = table_hash2_lookup(key)
    BY <1>5 DEF chain_lookup
  <2>2. \E t \in 1..2 : hit = table_hash_lookup(t, key)
    BY <2>1 DEF table_hash2_lookup
  <2> QED
    BY <1>3, <1>5, <2>1, <2>2
<1>6. CASE table_hash2_lookup(key) = NoFlow
  <2>1. hit = IF hits = {} THEN NoFlow ELSE flows[Min(hits)]
    BY <1>6 DEF chain_lookup, table_linear_lookup
  <2>2. \A f \in matching : \E i \in hits : flows[i] = f
    BY <1>1, <1>4, <1>6, Places DEF Located
  <2>3. \A i \in hits : flows[i] \in matching
    BY <1>1, Places DEF Located
  <2>4. hits \in SUBSET Nat
    BY <1>1 DEF TypeOK
  <2>5. CASE hits = {}
    BY <2>1, <2>2, <2>5
  <2>6. CASE hits # {}
    <3>1. Min(hits) \in hits /\ \A i \in hits : Min(hits) <= i
      BY <2>4, <2>6, MinIs
    <3>2. ASSUME NEW f \in matching PROVE f.priority <= hit.priority
      <4>1. PICK i \in hits : flows[i] = f
        BY <2>2
      <4>2. Min(hits) <= i /\ i \in Nat /\ Min(hits) \in Nat
        BY <2>4, <3>1
      <4>3. flows[i].priority \in Nat
        BY <1>1, <4>1, Places, FlowIsSome DEF Located
      <4>4. hit = flows[Min(hits)] /\ i \in DOMAIN flows /\ Min(hits) \in DOMAIN flows
        BY <2>1, <2>6, <3>1
      <4>5. CASE Min(hits) = i
        BY <4>1, <4>3, <4>4, <4>5
      <4>6. CASE Min(hits) < i
        BY <1>1, <4>1, <4>4, <4>6 DEF Sorted
      <4> QED
        BY <4>2, <4>5, <4>6
    <3> QED
      BY <2>1, <2>3, <2>6, <3>1, <3>2
  <2> QED
    BY <2>5, <2>6
<1> HIDE DEF key, hit, matching
<1> QED
  BY <1>5, <1>6 DEF key, hit, matching

-----------------------------------------------------------------------------
(* Modification, deletion, timeouts and packets *)

\* The same flow, with another port or other times.
Alike(f, g) == /\ f.key = g.key /\ f.priority = g.priority
               /\ f.serial = g.serial /\ f.id = g.id

\* Every flow is at the place where it was, or gone, and the order is kept.
Thins ==
  /\ hash' \in [1..2 -> [Buckets -> FlowRec \union {NoFlow}]]
  /\ flows' \in Seq(FlowRec)
  /\ \A t \in 1..2, b \in Buckets : hash'[t][b] # NoFlow =>
        hash[t][b] # NoFlow /\ Alike(hash'[t][b], hash[t][b])
  /\ \A k \in DOMAIN flows' : \E i \in DOMAIN flows : Alike(flows'[k], flows[i])
  /\ \A k, l \in DOMAIN flows' : k < l =>
        \E i, j \in DOMAIN flows : /\ i < j
                                   /\ Alike(flows'[k], flows[i]) /\ Alike(flows'[l], flows[j])

\* A loop over all tables that changes or removes flows.
LEMMA UpdateThins ==
    ASSUME IInv, NEW new \in [Stored -> FlowRec \union {NoFlow}],
           \A f \in Stored : new[f] # NoFlow => Alike(new[f], f),
           UpdateFlows(new)
    PROVE  /\ Thins
           /\ \A f \in Stored : new[f] # NoFlow => new[f] \in Stored'
           /\ \A g \in Stored' : \E f \in Stored : g = new[f] /\ g # NoFlow
<1> DEFINE P == {i \in DOMAIN flows : new[flows[i]] # NoFlow}
<1>1. TypeOK /\ Located
  BY Places DEF IInv
<1>2. PICK kept \in Ascending(P) : flows' = [k \in DOMAIN kept |-> new[flows[kept[k]]]]
  BY DEF UpdateFlows
<1> DEFINE n == Cardinality(P)
<1>3. n \in Nat
  <2>1. IsFiniteSet(DOMAIN flows) /\ P \subseteq DOMAIN flows
    BY <1>1, FS_Interval DEF TypeOK
  <2> QED BY <2>1, FS_Subset, FS_CardinalityType
<1>4. /\ kept \in [1..n -> P]
      /\ \A k, l \in 1..n : k < l => kept[k] < kept[l]
      /\ \A i \in P : \E k \in 1..n : kept[k] = i
  BY DEF Ascending
<1>5. P \subseteq DOMAIN flows /\ \A i \in P : new[flows[i]] # NoFlow
  OBVIOUS
<1> HIDE DEF P, n
<1>6. \A k \in 1..n : /\ flows'[k] = new[flows[kept[k]]] /\ kept[k] \in P
                      /\ flows[kept[k]] \in Stored
                      /\ flows'[k] \in FlowRec /\ Alike(flows'[k], flows[kept[k]])
  BY <1>1, <1>2, <1>4, <1>5 DEF Located
<1>7. flows' \in Seq(FlowRec) /\ DOMAIN flows' = 1..n
  <2>1. flows' = [k \in 1..n |-> new[flows[kept[k]]]]
    BY <1>2, <1>4
  <2> QED BY <1>3, <1>6, <2>1
<1>8. hash' = [t \in 1..2 |-> [b \in Buckets |->
                 IF hash[t][b] = NoFlow THEN NoFlow ELSE new[hash[t][b]]]]
  BY DEF UpdateFlows
<1>9. \A t \in 1..2, b \in Buckets :
        /\ hash'[t][b] = IF hash[t][b] = NoFlow THEN NoFlow ELSE new[hash[t][b]]
        /\ hash[t][b] # NoFlow => hash[t][b] \in Stored
  BY <1>1, <1>8 DEF Located
<1>10. hash' \in [1..2 -> [Buckets -> FlowRec \union {NoFlow}]]
  BY <1>8, <1>9
<1>11. Thins
  BY <1>4, <1>5, <1>6, <1>7, <1>9, <1>10 DEF Thins
<1>12. \A g : g \in Stored' <=> \/ \E t \in 1..2, b \in Buckets : hash'[t][b] = g /\ g # NoFlow
                                \/ \E k \in 1..n : flows'[k] = g
  BY <1>7, Contents DEF Stored, IsInHash, IsInList
<1>13. ASSUME NEW f \in Stored, new[f] # NoFlow PROVE new[f] \in Stored'
  <2>1. CASE f \in InHash
    BY <1>1, <1>9, <1>12, <1>13, <2>1 DEF Located
  <2>2. CASE \E i \in DOMAIN flows : flows[i] = f
    <3>1. PICK i \in P : flows[i] = f
      BY <1>13, <2>2 DEF P
    <3> QED BY <1>4, <1>6, <1>12, <3>1
  <2> QED BY <1>1, <2>1, <2>2 DEF Located
<1>14. ASSUME NEW g \in Stored' PROVE \E f \in Stored : g = new[f] /\ g # NoFlow
  <2>1. CASE \E t \in 1..2, b \in Buckets : hash'[t][b] = g /\ g # NoFlow
    BY <1>9, <2>1
  <2>2. CASE \E k \in 1..n : flows'[k] = g
    BY <1>6, <2>2, FlowIsSome
  <2> QED BY <1>12, <2>1, <2>2
<1> QED
  BY <1>11, <1>13, <1>14

\* The tables stay as they should be when flows are changed or removed at their places.
LEMMA ThinnedTables ==
    ASSUME IInv, Thins, UNCHANGED <<adds, serial>>, dump' \in DumpRec \union {NoDump}
    PROVE  /\ TypeOK' /\ InPlace' /\ Sorted' /\ Serials' /\ Ids'
           /\ \A g \in Stored' : \E f \in Stored : Alike(g, f)
<1>1. TypeOK' /\ Located' /\ TypeOK /\ Located
  BY Places, PlacesNext DEF IInv, TypeOK, Thins
<1>2. InPlace'
  BY DEF IInv, InPlace, Thins, Alike, Bucket
<1>3. Sorted'
  <2>1. SUFFICES ASSUME NEW k \in DOMAIN flows', NEW l \in DOMAIN flows', k < l
                 PROVE  flows'[l].priority <= flows'[k].priority
    BY DEF Sorted
  <2>2. PICK i \in DOMAIN flows, j \in DOMAIN flows :
          i < j /\ Alike(flows'[k], flows[i]) /\ Alike(flows'[l], flows[j])
    BY <2>1 DEF Thins
  <2> QED BY <2>2 DEF IInv, Sorted, Alike
<1>4. Serials'
  BY DEF IInv, Serials, Thins, Alike
<1>5. ASSUME NEW g \in Stored' PROVE \E f \in Stored : Alike(g, f)
  <2>1. CASE g \in InHash'
    <3>1. PICK t \in 1..2, b \in Buckets : hash'[t][b] = g /\ g # NoFlow
      BY <1>1, <2>1 DEF Located
    <3>2. hash[t][b] \in Stored /\ Alike(g, hash[t][b])
      BY <1>1, <3>1 DEF Thins, Located
    <3> QED BY <3>2
  <2>2. CASE \E k \in DOMAIN flows' : flows'[k] = g
    BY <1>1, <2>2 DEF Thins, Located
  <2> QED BY <1>1, <2>1, <2>2 DEF Located
<1>6. Ids'
  <2>1. \A f, g \in Stored' : f.id <= adds' /\ (f.id = g.id => f.key = g.key)
    BY <1>5 DEF IInv, Ids, Alike
  <2> QED BY <2>1 DEF Ids
<1> QED BY <1>1, <1>2, <1>3, <1>4, <1>5, <1>6

\* What a request is still owed stays where it is, or is not stored any more.
LEMMA ThinnedDump ==
    ASSUME IInv, Thins, UNCHANGED <<adds, serial>>,
           \/ dump' = StillOwed(dump)
           \/ dump' = dump /\ \A f \in Stored : \E g \in Stored' : g.id = f.id
    PROVE  IInv'
<1>1. dump' \in DumpRec \union {NoDump}
  BY DEF IInv, TypeOK, StillOwed, DumpRec
<1>2. TypeOK' /\ InPlace' /\ Sorted' /\ Serials' /\ Ids'
  BY <1>1, ThinnedTables
<1>3. Owed'
  <2>1. SUFFICES ASSUME dump' # NoDump
                 PROVE  Owed'
    BY DEF Owed
  <2>2. dump # NoDump /\ dump \in DumpRec
    BY <2>1 DEF IInv, TypeOK, StillOwed
  <2>3. /\ dump'.key = dump.key /\ dump'.table = dump.table
        /\ dump'.bucket = dump.bucket /\ dump'.start = dump.start
        /\ \A n \in dump'.owed : n \in dump.owed /\ \E g \in Stored' : g.id = n
    <3>1. CASE dump' = StillOwed(dump)
      BY <2>2, <3>1 DEF StillOwed, DumpRec
    <3>2. CASE dump' = dump /\ \A f \in Stored : \E g \in Stored' : g.id = f.id
      BY <2>2, <3>2 DEF IInv, Owed
    <3> QED BY <3>1, <3>2
  <2>4. ASSUME NEW t \in 1..2, NEW b \in Buckets,
               hash'[t][b] # NoFlow, hash'[t][b].id \in dump'.owed
        PROVE  /\ t > dump'.table \/ (t = dump'.table /\ b >= dump'.bucket)
               /\ Matching(hash'[t][b], dump'.key)
    BY <2>2, <2>3, <2>4 DEF IInv, Owed, Thins, Alike, Matching
  <2>5. ASSUME NEW k \in DOMAIN flows', flows'[k].id \in dump'.owed
        PROVE  flows'[k].serial <= dump'.start /\ Matching(flows'[k], dump'.key)
    BY <2>2, <2>3, <2>5 DEF IInv, Owed, Thins, Alike, Matching
  <2> QED BY <2>3, <2>4, <2>5 DEF Owed, Matching
<1> QED BY <1>2, <1>3 DEF IInv

\* A flow that is changed by a modification, a packet or the clock is the same flow.
LEMMA Changes ==
    ASSUME NEW f \in FlowRec, NEW port \in Port
    PROVE  /\ [f EXCEPT !.port = port] \in FlowRec /\ Alike([f EXCEPT !.port = port], f)
           /\ [f EXCEPT !.used = 0] \in FlowRec /\ Alike([f EXCEPT !.used = 0], f)
           /\ Older(f) \in FlowRec /\ Alike(Older(f), f)
<1>1. /\ [f EXCEPT !.port = port] \in FlowRec /\ Alike([f EXCEPT !.port = port], f)
      /\ [f EXCEPT !.used = 0] \in FlowRec /\ Alike([f EXCEPT !.used = 0], f)
  BY DEF FlowRec, Alike
<1>2. f.used \in Nat /\ f.created \in Nat /\ f.idle_timeout \in Nat /\ f.hard_timeout \in Nat
  BY DEF FlowRec
<1> DEFINE u == Min({f.used + 1, AgeCap(f.idle_timeout)})
           c == Min({f.created + 1, AgeCap(f.hard_timeout)})
<1>3. u \in Nat /\ c \in Nat
  BY <1>2, MinOfTwo DEF AgeCap
<1>4. Older(f) = [f EXCEPT !.used = u, !.created = c]
  BY DEF Older
<1> HIDE DEF u, c
<1>5. Older(f) \in FlowRec /\ Alike(Older(f), f)
  BY <1>3, <1>4 DEF FlowRec, Alike
<1> QED BY <1>1, <1>5

\* An OFPFC_MODIFY changes the actions of flows at their places.
LEMMA StepMod ==
    ASSUME IInv, NEW key \in Matches, NEW p \in Priorities, NEW strict \in BOOLEAN,
           NEW port \in Port, mod_flow(key, p, strict, port)
    PROVE  IInv'
<1> DEFINE new == [f \in Stored |->
              IF Described(f, key, Priority(key, p), strict) THEN [f EXCEPT !.port = port]
              ELSE f]
<1>1. Stored \subseteq FlowRec
  BY Places DEF IInv, Located
<1>2. UpdateFlows(new) /\ UNCHANGED <<adds, serial, dump>>
  BY DEF mod_flow
<1>3. \A f \in Stored : new[f] \in FlowRec /\ Alike(new[f], f) /\ new[f] # NoFlow
  BY <1>1, Changes, FlowIsSome DEF Alike
<1>4. new \in [Stored -> FlowRec \union {NoFlow}]
  BY <1>3
<1> HIDE DEF new
<1>5. Thins /\ \A f \in Stored : new[f] \in Stored'
  BY <1>2, <1>3, <1>4, UpdateThins
<1> QED
  BY <1>2, <1>3, <1>5, ThinnedDump DEF Alike

\* A packet refreshes the flow that it hits.
LEMMA StepPacket ==
    ASSUME IInv, NEW flow \in Flows, packet(flow)
    PROVE  IInv'
<1> DEFINE hit == chain_lookup([flow |-> flow, wildcards |-> {}])
           new == [f \in Stored |-> IF f.id = hit.id THEN [f EXCEPT !.used = 0] ELSE f]
<1>1. Stored \subseteq FlowRec
  BY Places DEF IInv, Located
<1>2. UpdateFlows(new) /\ UNCHANGED <<adds, serial, dump>>
  BY DEF packet
<1>3. \A f \in Stored : new[f] \in FlowRec /\ Alike(new[f], f) /\ new[f] # NoFlow
  <2>1. SUFFICES ASSUME NEW f \in Stored
                 PROVE  new[f] \in FlowRec /\ Alike(new[f], f) /\ new[f] # NoFlow
    OBVIOUS
  <2>2. f \in FlowRec /\ f.port \in Port /\ Alike(f, f)
    BY <1>1 DEF FlowRec, Alike
  <2> QED BY <2>2, Changes, FlowIsSome
<1>4. new \in [Stored -> FlowRec \union {NoFlow}]
  BY <1>3
<1> HIDE DEF new
<1>5. Thins /\ \A f \in Stored : new[f] \in Stored'
  BY <1>2, <1>3, <1>4, UpdateThins
<1> QED
  BY <1>2, <1>3, <1>5, ThinnedDump DEF Alike

\* An OFPFC_DELETE removes flows.
LEMMA StepDelete ==
    ASSUME IInv, NEW key \in Matches, NEW p, NEW strict \in BOOLEAN,
           NEW out_port, delete_flow(key, p, strict, out_port)
    PROVE  IInv'
<1> DEFINE new == [f \in Stored |->
              IF /\ Deleted(f, f \in InHash, key, Priority(key, p), strict)
                 /\ flow_has_out_port(f, out_port)
              THEN NoFlow ELSE f]
<1>1. Stored \subseteq FlowRec
  BY Places DEF IInv, Located
<1>2. UpdateFlows(new) /\ UNCHANGED <<adds, serial>> /\ dump' = StillOwed(dump)
  BY DEF delete_flow
<1>3. \A f \in Stored : new[f] \in FlowRec \union {NoFlow} /\ (new[f] # NoFlow => Alike(new[f], f))
  BY <1>1 DEF Alike
<1>4. new \in [Stored -> FlowRec \union {NoFlow}]
  BY <1>3
<1> HIDE DEF new
<1>5. Thins
  BY <1>2, <1>3, <1>4, UpdateThins
<1> QED
  BY <1>2, <1>5, ThinnedDump

\* A second passes, and flows time out.
LEMMA StepTimeout == IInv /\ timeout => IInv'
<1> SUFFICES ASSUME IInv, timeout PROVE IInv'
  OBVIOUS
<1> DEFINE new == [f \in Stored |-> IF flow_timeout(Older(f)) THEN NoFlow ELSE Older(f)]
<1>1. Stored \subseteq FlowRec
  BY Places DEF IInv, Located
<1>2. UpdateFlows(new) /\ UNCHANGED <<adds, serial>> /\ dump' = StillOwed(dump)
  BY DEF timeout
<1>3. \A f \in Stored : new[f] \in FlowRec \union {NoFlow} /\ (new[f] # NoFlow => Alike(new[f], f))
  <2>1. SUFFICES ASSUME NEW f \in Stored
                 PROVE  Older(f) \in FlowRec /\ Alike(Older(f), f)
    OBVIOUS
  <2>2. f \in FlowRec /\ f.port \in Port
    BY <1>1 DEF FlowRec
  <2> QED BY <2>2, Changes
<1>4. new \in [Stored -> FlowRec \union {NoFlow}]
  BY <1>3
<1> HIDE DEF new
<1>5. Thins
  BY <1>2, <1>3, <1>4, UpdateThins
<1> QED
  BY <1>2, <1>5, ThinnedDump

-----------------------------------------------------------------------------
(* Additions *)

\* Every other flow stays at its place, so the new number means the new flow alone and
\* nothing that is owed moves.
LEMMA AddedOne ==
    ASSUME IInv, TypeOK', adds' = adds + 1, dump' = StillOwed(dump), NEW key,
           \A t \in 1..2, b \in Buckets :
              \/ hash'[t][b] = hash[t][b]
              \/ hash'[t][b].id = adds' /\ hash'[t][b].key = key,
           \A k \in DOMAIN flows' :
              \/ \E i \in DOMAIN flows : flows'[k] = flows[i]
              \/ flows'[k].id = adds' /\ flows'[k].key = key
    PROVE  Ids' /\ Owed'
<1>1. Located /\ Located' /\ TypeOK
  BY Places, PlacesNext DEF IInv
<1>2. adds \in Nat
  BY <1>1 DEF TypeOK
<1>3. ASSUME NEW f \in Stored' PROVE f \in Stored \/ (f.id = adds' /\ f.key = key)
  <2>1. CASE f \in InHash'
    <3>1. PICK t \in 1..2, b \in Buckets : hash'[t][b] = f /\ f # NoFlow
      BY <1>1, <2>1 DEF Located
    <3> QED BY <1>1, <3>1 DEF Located
  <2>2. CASE \E k \in DOMAIN flows' : flows'[k] = f
    BY <1>1, <2>2 DEF Located
  <2> QED BY <1>1, <2>1, <2>2 DEF Located
<1>4. \A f \in Stored : f.id \in Nat /\ f.id <= adds
  BY <1>1, FlowIsSome DEF IInv, Ids, Located
<1>5. Ids'
  <2>1. \A f \in Stored' : f.id <= adds'
    BY <1>2, <1>3, <1>4
  <2>2. \A f, g \in Stored' : f.id = g.id => f.key = g.key
    BY <1>2, <1>3, <1>4 DEF IInv, Ids
  <2> QED BY <2>1, <2>2 DEF Ids
<1>6. Owed'
  <2>1. SUFFICES ASSUME dump' # NoDump PROVE Owed'
    BY DEF Owed
  <2>2. dump # NoDump /\ dump \in DumpRec
    BY <1>1, <2>1 DEF TypeOK, StillOwed
  <2>3. /\ dump'.key = dump.key /\ dump'.table = dump.table
        /\ dump'.bucket = dump.bucket /\ dump'.start = dump.start
        /\ \A n \in dump'.owed : n \in dump.owed /\ \E g \in Stored' : g.id = n
    BY <2>2 DEF StillOwed, DumpRec
  <2>4. adds' \notin dump.owed
    BY <1>2, <1>4, <2>2 DEF IInv, Owed
  <2>5. ASSUME NEW t \in 1..2, NEW b \in Buckets,
               hash'[t][b] # NoFlow, hash'[t][b].id \in dump'.owed
        PROVE  /\ t > dump'.table \/ (t = dump'.table /\ b >= dump'.bucket)
               /\ Matching(hash'[t][b], dump'.key)
    <3>1. hash'[t][b] = hash[t][b]
      BY <2>3, <2>4, <2>5
    <3> QED BY <2>2, <2>3, <2>5, <3>1 DEF IInv, Owed
  <2>6. ASSUME NEW k \in DOMAIN flows', flows'[k].id \in dump'.owed
        PROVE  flows'[k].serial <= dump'.start /\ Matching(flows'[k], dump'.key)
    <3>1. PICK i \in DOMAIN flows : flows'[k] = flows[i]
      BY <2>3, <2>4, <2>6
    <3> QED BY <2>2, <2>3, <2>6, <3>1 DEF IInv, Owed
  <2> QED BY <2>3, <2>5, <2>6 DEF Owed, Matching
<1> QED BY <1>5, <1>6

\* An exact flow goes into the bucket of its key.
LEMMA AddHash ==
    ASSUME IInv, NEW flow \in FlowRec, NEW t \in 1..2,
           HashTakes(t, flow), table_hash_insert(t, flow), flow.priority = ExactPriority,
           flow.id = adds + 1, adds' = adds + 1, adds < MaxAdds,
           UNCHANGED <<flows, serial>>, dump' = StillOwed(dump)
    PROVE  IInv'
<1> DEFINE c == Bucket(t, flow.key)
<1>1. TypeOK
  BY DEF IInv
<1>2. c \in Buckets
  BY FlowIsSome, FlowTableAssumption DEF Bucket, Keys
<1>3. flow.key.wildcards = {} /\ flow # NoFlow
  BY FlowIsSome DEF HashTakes
<1> HIDE DEF c
<1>4. hash' = [hash EXCEPT ![t][c] = flow]
  BY DEF table_hash_insert, c
<1>5. /\ hash' \in [1..2 -> [Buckets -> FlowRec \union {NoFlow}]]
      /\ \A u \in 1..2, b \in Buckets :
            hash'[u][b] = IF u = t /\ b = c THEN flow ELSE hash[u][b]
  BY <1>1, <1>2, <1>4 DEF TypeOK
<1>6. dump' \in DumpRec \union {NoDump}
  BY <1>1 DEF TypeOK, StillOwed, DumpRec
<1>7. TypeOK'
  <2>1. adds \in Nat /\ MaxAdds \in Nat /\ adds' \in 0..MaxAdds /\ serial' \in 0..adds'
    BY <1>1, FlowTableAssumption DEF TypeOK
  <2> QED BY <1>1, <1>5, <1>6, <2>1 DEF TypeOK
<1>8. InPlace'
  BY <1>3, <1>5 DEF IInv, InPlace, c, Bucket
<1>9. Sorted' /\ Serials'
  BY DEF IInv, Sorted, Serials
<1>10. Ids' /\ Owed'
  <2>1. \A u \in 1..2, b \in Buckets :
              \/ hash'[u][b] = hash[u][b]
              \/ hash'[u][b].id = adds' /\ hash'[u][b].key = flow.key
    BY <1>5
  <2>2. \A k \in DOMAIN flows' :
              \/ \E i \in DOMAIN flows : flows'[k] = flows[i]
              \/ flows'[k].id = adds' /\ flows'[k].key = flow.key
    OBVIOUS
  <2> QED BY <1>7, <2>1, <2>2, AddedOne
<1> QED BY <1>7, <1>8, <1>9, <1>10 DEF IInv

\* list_insert moves the entries from a position on by one.
LEMMA InsertAtIs ==
    ASSUME NEW S, NEW s \in Seq(S), NEW p \in 1..(Len(s) + 1), NEW e \in S
    PROVE  /\ InsertAt(s, p, e) \in Seq(S)
           /\ Len(InsertAt(s, p, e)) = Len(s) + 1
           /\ \A k \in 1..(Len(s) + 1) :
                 InsertAt(s, p, e)[k] = IF k < p THEN s[k] ELSE IF k = p THEN e ELSE s[k - 1]
<1> DEFINE a == SubSeq(s, 1, p - 1)
           b == SubSeq(s, p, Len(s))
<1>1. Len(s) \in Nat /\ p \in Int /\ \A i \in 1..Len(s) : s[i] \in S
  OBVIOUS
<1>2. /\ a \in Seq(S) /\ Len(a) = p - 1
      /\ \A i \in 1..(p - 1) : a[i] = s[i]
  OBVIOUS
<1>3. /\ b \in Seq(S) /\ Len(b) = Len(s) - p + 1
      /\ \A i \in 1..(Len(s) - p + 1) : b[i] = s[p + i - 1]
  OBVIOUS
<1>4. <<e>> \in Seq(S) /\ Len(<<e>>) = 1 /\ <<e>>[1] = e
  OBVIOUS
<1> HIDE DEF a, b
<1>5. /\ a \o <<e>> \in Seq(S) /\ Len(a \o <<e>>) = p
      /\ \A k \in 1..p : (a \o <<e>>)[k] = IF k < p THEN s[k] ELSE e
  BY <1>2, <1>4
<1>6. /\ (a \o <<e>>) \o b \in Seq(S)
      /\ Len((a \o <<e>>) \o b) = Len(s) + 1
      /\ \A k \in 1..(Len(s) + 1) :
            ((a \o <<e>>) \o b)[k] = IF k < p THEN s[k] ELSE IF k = p THEN e ELSE s[k - 1]
  <2> DEFINE c == a \o <<e>>
  <2>1. c \in Seq(S) /\ Len(c) = p /\ \A k \in 1..p : c[k] = IF k < p THEN s[k] ELSE e
    BY <1>5
  <2> HIDE DEF c
  <2>2. c \o b \in Seq(S) /\ Len(c \o b) = Len(s) + 1
    BY <1>1, <1>3, <2>1
  <2>3. ASSUME NEW k \in 1..(Len(s) + 1)
        PROVE  (c \o b)[k] = IF k < p THEN s[k] ELSE IF k = p THEN e ELSE s[k - 1]
    <3>0. k \in Int /\ p \in Int
      OBVIOUS
    <3>1. CASE k <= p
      BY <1>1, <1>3, <2>1, <3>1
    <3>2. CASE k > p
      <4>1. (c \o b)[k] = b[k - p]
        BY <1>1, <1>3, <2>1, <3>2
      <4>2. b[k - p] = s[k - 1]
        BY <1>1, <1>3, <3>2
      <4>3. ~(k < p) /\ k # p
        BY <3>0, <3>2
      <4> QED BY <4>1, <4>2, <4>3
    <3>3. k <= p \/ k > p
      BY ONLY <3>0
    <3> QED BY ONLY <3>1, <3>2, <3>3
  <2> QED BY <2>2, <2>3 DEF c
<1> QED BY <1>6 DEF InsertAt, a, b

\* The loop of the insertion stops behind every entry of the same or a higher priority.
LEMMA PositionIs ==
    ASSUME IInv, NEW flow \in FlowRec
    PROVE  LET p == LinearPosition(flow)
           IN /\ p \in 1..(Len(flows) + 1)
              /\ \A i \in DOMAIN flows : i < p => flow.priority <= flows[i].priority
              /\ \A i \in DOMAIN flows : i >= p => flows[i].priority < flow.priority
<1> DEFINE lower == {i \in DOMAIN flows : flows[i].priority < flow.priority}
           p == LinearPosition(flow)
<1>1. /\ flows \in Seq(FlowRec) /\ DOMAIN flows = 1..Len(flows) /\ Len(flows) \in Nat
      /\ \A i \in DOMAIN flows : flows[i].priority \in Nat
      /\ flow.priority \in Nat
  BY FlowIsSome DEF IInv, TypeOK
<1>2. p = IF lower = {} THEN Len(flows) + 1 ELSE Min(lower)
  BY DEF LinearPosition
<1>3. CASE lower = {}
  BY <1>1, <1>2, <1>3
<1>4. CASE lower # {}
  <2>1. lower \in SUBSET Nat
    BY <1>1
  <2>2. p \in lower /\ \A i \in lower : p <= i
    BY <1>2, <1>4, <2>1, MinIs
  <2>3. ASSUME NEW i \in DOMAIN flows, i < p PROVE flow.priority <= flows[i].priority
    BY <1>1, <2>2, <2>3
  <2>4. ASSUME NEW i \in DOMAIN flows, i >= p PROVE flows[i].priority < flow.priority
    <3>1. flows[i].priority <= flows[p].priority
      BY <1>1, <2>2, <2>4 DEF IInv, Sorted
    <3> QED BY <1>1, <2>2, <3>1
  <2> QED BY <1>1, <2>2, <2>3, <2>4
<1> QED BY <1>3, <1>4

\* An entry with the same fields and priority is replaced, and its serial number is kept.
LEMMA AddReplacing ==
    ASSUME IInv, NEW flow \in FlowRec,
           LinearDuplicates(flow) # {}, table_linear_insert(flow),
           flow.id = adds + 1, adds' = adds + 1, adds < MaxAdds,
           UNCHANGED hash, dump' = StillOwed(dump)
    PROVE  IInv'
<1> DEFINE i == Min(LinearDuplicates(flow))
           g == [flow EXCEPT !.serial = flows[i].serial]
<1>1. TypeOK /\ flows \in Seq(FlowRec) /\ DOMAIN flows = 1..Len(flows) /\ Len(flows) \in Nat
  BY DEF IInv, TypeOK
<1>2. /\ i \in DOMAIN flows /\ flows[i].priority = flow.priority
  <2>1. LinearDuplicates(flow) \in SUBSET Nat
    BY <1>1, PositionIs DEF LinearDuplicates
  <2>2. i \in LinearDuplicates(flow)
    BY <2>1, MinIs
  <2>3. LinearPosition(flow) \in 1..(Len(flows) + 1)
    BY PositionIs
  <2> HIDE DEF i
  <2>4. i \in 1..(LinearPosition(flow) - 1) /\ SameFlow(flows[i], flow)
    BY <2>2 DEF LinearDuplicates
  <2> QED BY <1>1, <2>3, <2>4 DEF SameFlow
<1>3. flows' = [flows EXCEPT ![i] = g] /\ serial' = serial
  BY DEF table_linear_insert
<1> HIDE DEF i
<1>4. /\ g \in FlowRec /\ g.priority = flow.priority /\ g.serial = flows[i].serial
      /\ g.id = flow.id /\ g.key = flow.key
  <2>1. flows[i].serial \in Nat
    BY <1>1, <1>2, FlowIsSome
  <2> QED BY <2>1 DEF FlowRec
<1> HIDE DEF g
<1>5. /\ flows' \in Seq(FlowRec) /\ DOMAIN flows' = DOMAIN flows
      /\ \A k \in DOMAIN flows : flows'[k] = IF k = i THEN g ELSE flows[k]
  BY <1>1, <1>2, <1>3, <1>4
<1>6. dump' \in DumpRec \union {NoDump}
  BY <1>1 DEF TypeOK, StillOwed, DumpRec
<1>7. TypeOK'
  <2>1. adds \in Nat /\ MaxAdds \in Nat /\ adds' \in 0..MaxAdds /\ serial' \in 0..adds'
    BY <1>1, <1>3, FlowTableAssumption DEF TypeOK
  <2> QED BY <1>1, <1>5, <1>6, <2>1 DEF TypeOK
<1>8. InPlace'
  BY DEF IInv, InPlace, Bucket
<1>9. Sorted' /\ Serials'
  BY <1>2, <1>3, <1>4, <1>5 DEF IInv, Sorted, Serials
<1>10. Ids' /\ Owed'
  <2>1. \A u \in 1..2, b \in Buckets :
              \/ hash'[u][b] = hash[u][b]
              \/ hash'[u][b].id = adds' /\ hash'[u][b].key = flow.key
    OBVIOUS
  <2>2. \A k \in DOMAIN flows' :
              \/ \E j \in DOMAIN flows : flows'[k] = flows[j]
              \/ flows'[k].id = adds' /\ flows'[k].key = flow.key
    BY <1>4, <1>5
  <2> QED BY <1>7, <2>1, <2>2, AddedOne
<1> QED BY <1>7, <1>8, <1>9, <1>10 DEF IInv

\* A new entry goes behind those of its priority, with a serial number of its own.
LEMMA AddInserting ==
    ASSUME IInv, NEW flow \in FlowRec,
           LinearDuplicates(flow) = {}, table_linear_insert(flow),
           flow.id = adds + 1, adds' = adds + 1, adds < MaxAdds,
           UNCHANGED hash, dump' = StillOwed(dump)
    PROVE  IInv'
<1> DEFINE p == LinearPosition(flow)
           g == [flow EXCEPT !.serial = serial]
           n == Len(flows)
<1>1. TypeOK /\ flows \in Seq(FlowRec) /\ DOMAIN flows = 1..n /\ n \in Nat
  BY DEF IInv, TypeOK
<1>2. flows' = InsertAt(flows, p, g) /\ serial' = serial + 1
  BY DEF table_linear_insert
<1>3. /\ p \in 1..(n + 1)
      /\ \A i \in DOMAIN flows : i < p => flow.priority <= flows[i].priority
      /\ \A i \in DOMAIN flows : i >= p => flows[i].priority < flow.priority
  BY PositionIs
<1>4. /\ g \in FlowRec /\ g.priority = flow.priority /\ g.serial = serial
      /\ g.id = flow.id /\ g.key = flow.key
  <2>1. serial \in Nat
    BY <1>1 DEF TypeOK
  <2> QED BY <2>1 DEF FlowRec
<1> HIDE DEF p, g
<1>5. /\ flows' \in Seq(FlowRec) /\ Len(flows') = n + 1
      /\ \A k \in 1..(n + 1) :
            flows'[k] = IF k < p THEN flows[k] ELSE IF k = p THEN g ELSE flows[k - 1]
  <2>1. flows \in Seq(FlowRec) /\ p \in 1..(Len(flows) + 1) /\ g \in FlowRec
    BY <1>1, <1>3, <1>4
  <2>2. /\ InsertAt(flows, p, g) \in Seq(FlowRec)
        /\ Len(InsertAt(flows, p, g)) = Len(flows) + 1
        /\ \A k \in 1..(Len(flows) + 1) :
              InsertAt(flows, p, g)[k]
                = IF k < p THEN flows[k] ELSE IF k = p THEN g ELSE flows[k - 1]
    BY <2>1, InsertAtIs
  <2> QED BY ONLY <1>2, <2>2
<1>6. DOMAIN flows' = 1..(n + 1)
  BY <1>5
<1> HIDE DEF n
<1>7. dump' \in DumpRec \union {NoDump}
  BY <1>1 DEF TypeOK, StillOwed, DumpRec
<1>8. TypeOK'
  <2>1. adds \in Nat /\ MaxAdds \in Nat /\ adds' \in 0..MaxAdds /\ serial' \in 0..adds'
    BY <1>1, <1>2, FlowTableAssumption DEF TypeOK
  <2> QED BY <1>1, <1>5, <1>7, <2>1 DEF TypeOK
<1>9. InPlace'
  BY DEF IInv, InPlace, Bucket
<1>10. \A i \in DOMAIN flows : flows[i].priority \in Nat /\ flows[i].serial \in Nat
  BY <1>1, FlowIsSome
<1>11. flow.priority \in Nat /\ serial \in Nat
  BY <1>1, FlowIsSome DEF TypeOK
<1>12. \A k \in 1..(n + 1) : /\ k < p => k \in DOMAIN flows /\ flows'[k] = flows[k]
                             /\ k = p => flows'[k] = g
                             /\ k > p => k - 1 \in DOMAIN flows /\ k - 1 >= p
                                         /\ flows'[k] = flows[k - 1]
  BY <1>1, <1>3, <1>5
<1>13. Sorted'
  <2>1. SUFFICES ASSUME NEW k \in 1..(n + 1), NEW l \in 1..(n + 1), k < l
                 PROVE  flows'[l].priority <= flows'[k].priority
    BY <1>6 DEF Sorted
  <2>2. \A i, j \in DOMAIN flows : i < j => flows[j].priority <= flows[i].priority
    BY DEF IInv, Sorted
  <2>3. k \in Int /\ l \in Int /\ p \in Int
    BY <1>1, <1>3
  <2>4. CASE l < p
    BY <1>12, <2>1, <2>2, <2>3, <2>4
  <2>5. CASE l = p
    BY <1>3, <1>4, <1>12, <2>1, <2>3, <2>5
  <2>6. CASE l > p /\ k < p
    BY <1>12, <2>1, <2>2, <2>3, <2>6
  <2>7. CASE l > p /\ k = p
    BY <1>3, <1>4, <1>10, <1>11, <1>12, <2>1, <2>3, <2>7
  <2>8. CASE k > p
    BY <1>12, <2>1, <2>2, <2>3, <2>8
  <2> QED BY <2>1, <2>3, <2>4, <2>5, <2>6, <2>7, <2>8
<1>14. Serials'
  <2>1. SUFFICES ASSUME NEW k \in 1..(n + 1) PROVE flows'[k].serial < serial + 1
    BY <1>2, <1>6 DEF Serials
  <2>2. \A i \in DOMAIN flows : flows[i].serial < serial
    BY DEF IInv, Serials
  <2>3. k \in Int /\ p \in Int
    BY <1>1, <1>3
  <2> QED BY <1>4, <1>10, <1>11, <1>12, <2>2, <2>3
<1>15. Ids' /\ Owed'
  <2>1. \A u \in 1..2, b \in Buckets :
              \/ hash'[u][b] = hash[u][b]
              \/ hash'[u][b].id = adds' /\ hash'[u][b].key = flow.key
    OBVIOUS
  <2>2. \A k \in DOMAIN flows' :
              \/ \E j \in DOMAIN flows : flows'[k] = flows[j]
              \/ flows'[k].id = adds' /\ flows'[k].key = flow.key
    <3>1. SUFFICES ASSUME NEW k \in 1..(n + 1)
                   PROVE  \/ \E j \in DOMAIN flows : flows'[k] = flows[j]
                          \/ flows'[k].id = adds' /\ flows'[k].key = flow.key
      BY <1>6
    <3>2. k \in Int /\ p \in Int
      BY <1>1, <1>3
    <3> QED BY <1>4, <1>12, <3>2
  <2> QED BY <1>8, <2>1, <2>2, AddedOne
<1> QED BY <1>8, <1>9, <1>13, <1>14, <1>15 DEF IInv

\* An OFPFC_ADD: into the first table that takes the flow, or an error.
LEMMA StepAdd ==
    ASSUME IInv, NEW key \in Matches, NEW p \in Priorities, NEW port \in Port,
           NEW timeouts \in Timeouts, add_flow(key, p, port, timeouts)
    PROVE  IInv'
<1> DEFINE flow == [key |-> key, priority |-> Priority(key, p), port |-> port,
                    idle_timeout |-> timeouts[1], hard_timeout |-> timeouts[2],
                    used |-> 0, created |-> 0, serial |-> 0, id |-> adds + 1]
<1>1. TypeOK /\ adds \in Nat
  BY DEF IInv, TypeOK
<1>2. /\ adds < MaxAdds /\ adds' = adds + 1 /\ dump' = StillOwed(dump)
      /\ \/ chain_insert(flow)
         \/ UNCHANGED <<hash, flows, n_flows, serial>>
  BY DEF add_flow
<1>3. flow \in FlowRec
  <2>1. key \in Keys /\ timeouts[1] \in Nat /\ timeouts[2] \in Nat
    BY FlowTableAssumption
  <2>2. Priority(key, p) \in 0..ExactPriority
    BY FlowTableAssumption DEF Priority
  <2>3. adds + 1 \in Nat \ {0} /\ 0 \in Nat
    BY <1>1
  <2> QED BY <2>1, <2>2, <2>3 DEF FlowRec
<1>4. flow.id = adds + 1 /\ (flow.key.wildcards = {} => flow.priority = ExactPriority)
  BY DEF Priority
<1> HIDE DEF flow
<1>5. ASSUME NEW t \in 1..2, HashTakes(t, flow), table_hash_insert(t, flow),
             UNCHANGED <<flows, serial>>
      PROVE  IInv'
  <2>1. flow.priority = ExactPriority
    BY <1>4, <1>5 DEF HashTakes
  <2> QED BY <1>2, <1>3, <1>4, <1>5, <2>1, AddHash
<1>6. ASSUME table_linear_insert(flow), UNCHANGED hash
      PROVE  IInv'
  BY <1>2, <1>3, <1>4, <1>6, AddReplacing, AddInserting
<1>7. ASSUME UNCHANGED <<hash, flows, serial>>
      PROVE  IInv'
  <2>1. dump' \in DumpRec \union {NoDump}
    BY <1>1, <1>2 DEF TypeOK, StillOwed, DumpRec
  <2>2. TypeOK'
    <3>1. MaxAdds \in Nat /\ adds' \in 0..MaxAdds /\ serial' \in 0..adds'
      BY <1>1, <1>2, <1>7, FlowTableAssumption DEF TypeOK
    <3> QED BY <1>1, <1>7, <2>1, <3>1 DEF TypeOK
  <2>3. InPlace' /\ Sorted' /\ Serials'
    BY <1>7 DEF IInv, InPlace, Sorted, Serials, Bucket
  <2>4. Ids' /\ Owed'
    <3>1. \A u \in 1..2, b \in Buckets : hash'[u][b] = hash[u][b]
      BY <1>7
    <3>2. \A k \in DOMAIN flows' : \E i \in DOMAIN flows : flows'[k] = flows[i]
      BY <1>7
    <3> QED BY <1>2, <2>2, <3>1, <3>2, AddedOne
  <2> QED BY <2>2, <2>3, <2>4 DEF IInv
<1> QED
  BY <1>2, <1>5, <1>6, <1>7 DEF chain_insert

-----------------------------------------------------------------------------
(* Statistics *)

\* A request starts in front of all tables.
LEMMA StepStatsInit ==
    ASSUME IInv, NEW key \in Matches, flow_stats_init(key)
    PROVE  IInv'
<1>1. TypeOK /\ Located /\ key \in Keys
  BY Places, FlowTableAssumption DEF IInv
<1>2. /\ UNCHANGED <<hash, flows, adds, serial>>
      /\ dump' = [key |-> key, table |-> 1, bucket |-> 0, start |-> Infinity,
                  owed |-> {f.id : f \in {g \in Stored : Matching(g, key)}}]
  BY DEF flow_stats_init
<1>3. dump' \in DumpRec
  <2>1. {f.id : f \in {g \in Stored : Matching(g, key)}} \subseteq Nat
    BY <1>1, FlowIsSome DEF Located
  <2>2. Infinity \in Nat
    BY FlowTableAssumption DEF Infinity
  <2> QED BY <1>1, <1>2, <2>1, <2>2 DEF DumpRec
<1>4. TypeOK' /\ InPlace' /\ Sorted' /\ Serials'
  BY <1>1, <1>2, <1>3 DEF IInv, TypeOK, InPlace, Sorted, Serials, Bucket
<1>5. Stored' = Stored
  BY <1>2 DEF Stored, InHash
<1>6. Ids'
  BY <1>2, <1>5 DEF IInv, Ids
<1>7. /\ \A n \in dump'.owed : \E f \in Stored : f.id = n
      /\ \A f \in Stored : f.id \in dump'.owed => Matching(f, key)
      /\ dump'.key = key /\ dump'.table = 1 /\ dump'.bucket = 0 /\ dump'.start = Infinity
  <2>1. \A n \in dump'.owed : \E f \in Stored : f.id = n /\ Matching(f, key)
    BY <1>2
  <2> QED BY <1>2, <2>1 DEF IInv, Ids, Matching
<1>8. \A t \in 1..2, b \in Buckets : t > 1 \/ (t = 1 /\ b >= 0)
  BY FlowTableAssumption
<1>9. \A i \in DOMAIN flows : flows[i].serial <= Infinity
  <2>1. serial \in Nat /\ MaxAdds \in Nat /\ serial <= MaxAdds
    BY <1>1, FlowTableAssumption DEF TypeOK
  <2>2. \A i \in DOMAIN flows : flows[i].serial \in Nat /\ flows[i].serial < serial
    BY <1>1, FlowIsSome DEF IInv, Serials, Located
  <2> QED BY <2>1, <2>2 DEF Infinity
<1>10. Owed'
  <2>1. ASSUME NEW t \in 1..2, NEW b \in Buckets,
               hash'[t][b] # NoFlow, hash'[t][b].id \in dump'.owed
        PROVE  /\ t > dump'.table \/ (t = dump'.table /\ b >= dump'.bucket)
               /\ Matching(hash'[t][b], dump'.key)
    BY <1>1, <1>2, <1>7, <1>8, <2>1 DEF Located
  <2>2. ASSUME NEW i \in DOMAIN flows', flows'[i].id \in dump'.owed
        PROVE  flows'[i].serial <= dump'.start /\ Matching(flows'[i], dump'.key)
    BY <1>1, <1>2, <1>7, <1>9, <2>2 DEF Located
  <2> QED BY <1>5, <1>7, <2>1, <2>2 DEF Owed, Matching
<1> QED BY <1>4, <1>6, <1>10 DEF IInv

\* What the iteration still comes to is what the tables hold behind its position.
LEMMA PendingIs ==
    ASSUME TypeOK, dump \in DumpRec
    PROVE  /\ \A x \in Pending(dump) :
                 /\ x.flow \in FlowRec
                 /\ \/ x.table \in 1..2 /\ x.bucket \in Buckets /\ x.flow = hash[x.table][x.bucket]
                    \/ x.table = 3 /\ x.bucket = 0
           /\ \A t \in 1..2, b \in Buckets :
                 /\ hash[t][b] # NoFlow /\ Matching(hash[t][b], dump.key)
                 /\ t > dump.table \/ (t = dump.table /\ b >= dump.bucket)
                 => [flow |-> hash[t][b], table |-> t, bucket |-> b] \in Pending(dump)
           /\ \A i \in DOMAIN flows :
                 flows[i].serial <= dump.start /\ Matching(flows[i], dump.key)
                 => [flow |-> flows[i], table |-> 3, bucket |-> 0] \in Pending(dump)
<1> DEFINE H == {r \in HashSlotsFrom(dump.table, dump.bucket) :
                   hash[r[1]][r[2]] # NoFlow /\ Matching(hash[r[1]][r[2]], dump.key)}
           A == {[flow |-> hash[s[1]][s[2]], table |-> s[1], bucket |-> s[2]] : s \in H}
           G == {g \in ToSet(flows) : g.serial <= dump.start /\ Matching(g, dump.key)}
           B == {[flow |-> f, table |-> 3, bucket |-> 0] : f \in G}
<1>1. Pending(dump) = A \union B
  BY DEF Pending
<1>2. ASSUME NEW x \in A
      PROVE  /\ x.flow \in FlowRec
             /\ x.table \in 1..2 /\ x.bucket \in Buckets /\ x.flow = hash[x.table][x.bucket]
  <2>1. PICK s \in H : x = [flow |-> hash[s[1]][s[2]], table |-> s[1], bucket |-> s[2]]
    OBVIOUS
  <2>2. s[1] \in 1..2 /\ s[2] \in Buckets /\ hash[s[1]][s[2]] # NoFlow
    BY DEF HashSlotsFrom, Slots
  <2>3. x.flow = hash[s[1]][s[2]] /\ x.table = s[1] /\ x.bucket = s[2]
    BY <2>1
  <2> QED BY <2>2, <2>3 DEF TypeOK
<1>3. ASSUME NEW x \in B
      PROVE  x.flow \in FlowRec /\ x.table = 3 /\ x.bucket = 0
  <2>1. PICK f \in G : x = [flow |-> f, table |-> 3, bucket |-> 0]
    OBVIOUS
  <2>2. f \in FlowRec
    BY Contents DEF TypeOK, IsInList
  <2> QED BY <2>1, <2>2
<1>4. ASSUME NEW t \in 1..2, NEW b \in Buckets,
             hash[t][b] # NoFlow, Matching(hash[t][b], dump.key),
             t > dump.table \/ (t = dump.table /\ b >= dump.bucket)
      PROVE  [flow |-> hash[t][b], table |-> t, bucket |-> b] \in A
  <2>1. <<t, b>>[1] = t /\ <<t, b>>[2] = b /\ <<t, b>> \in Slots
    BY DEF Slots
  <2>2. <<t, b>> \in HashSlotsFrom(dump.table, dump.bucket)
    BY <1>4, <2>1 DEF HashSlotsFrom
  <2>3. <<t, b>> \in H
    BY <1>4, <2>1, <2>2
  <2> HIDE DEF H
  <2> QED BY <2>1, <2>3
<1>5. ASSUME NEW i \in DOMAIN flows,
             flows[i].serial <= dump.start, Matching(flows[i], dump.key)
      PROVE  [flow |-> flows[i], table |-> 3, bucket |-> 0] \in B
  <2>1. flows[i] \in G
    BY <1>5, Contents DEF IsInList
  <2> QED BY <2>1
<1> HIDE DEF A, B
<1> QED BY <1>1, <1>2, <1>3, <1>4, <1>5

\* Everything that is owed is still to come.
LEMMA OwedIsPending ==
    ASSUME IInv, dump # NoDump
    PROVE  dump.owed \subseteq {x.flow.id : x \in Pending(dump)}
<1>1. TypeOK /\ Located /\ dump \in DumpRec
  BY Places DEF IInv, TypeOK
<1> SUFFICES ASSUME NEW n \in dump.owed PROVE \E x \in Pending(dump) : x.flow.id = n
  OBVIOUS
<1>2. PICK f \in Stored : f.id = n
  BY DEF IInv, Owed
<1>3. CASE f \in InHash
  <2>1. PICK t \in 1..2, b \in Buckets : hash[t][b] = f /\ f # NoFlow
    BY <1>1, <1>3 DEF Located
  <2>2. [flow |-> hash[t][b], table |-> t, bucket |-> b] \in Pending(dump)
    BY <1>1, <1>2, <2>1, PendingIs DEF IInv, Owed
  <2> QED BY <1>2, <2>1, <2>2
<1>4. CASE \E i \in DOMAIN flows : flows[i] = f
  <2>1. PICK i \in DOMAIN flows : flows[i] = f
    BY <1>4
  <2>2. [flow |-> flows[i], table |-> 3, bucket |-> 0] \in Pending(dump)
    BY <1>1, <1>2, <2>1, PendingIs DEF IInv, Owed
  <2> QED BY <1>2, <2>1, <2>2
<1> QED BY <1>1, <1>2, <1>3, <1>4 DEF Located

\* A reply ends with a position in front of everything it left out.
LEMMA StepStatsDump == IInv /\ flow_stats_dump => IInv'
<1> SUFFICES ASSUME IInv, flow_stats_dump PROVE IInv'
  OBVIOUS
<1>1. TypeOK /\ Located /\ dump # NoDump /\ dump \in DumpRec
  BY Places DEF IInv, TypeOK, flow_stats_dump
<1>2. UNCHANGED <<hash, flows, adds, serial>>
  BY DEF flow_stats_dump
<1>3. Stored' = Stored
  BY <1>2 DEF Stored, InHash
<1>4. dump' \in DumpRec \union {NoDump} => TypeOK' /\ InPlace' /\ Sorted' /\ Serials' /\ Ids'
  BY <1>1, <1>2, <1>3 DEF IInv, TypeOK, InPlace, Sorted, Serials, Ids, Bucket
<1>5. CASE dump' = NoDump
  BY <1>4, <1>5 DEF IInv, Owed
<1>6. ASSUME NEW last \in Pending(dump),
             LET reply == {x \in Pending(dump) : ~Before(last, x)}
             IN dump' = [Behind(dump, last) EXCEPT !.owed = @ \ {x.flow.id : x \in reply}]
      PROVE  IInv'
  <2> DEFINE reply == {x \in Pending(dump) : ~Before(last, x)}
             ids == {x.flow.id : x \in reply}
  <2>1. /\ last.flow \in FlowRec
        /\ \/ /\ last.table \in 1..2 /\ last.bucket \in Buckets
              /\ last.flow = hash[last.table][last.bucket]
           \/ last.table = 3 /\ last.bucket = 0
    BY <1>1, PendingIs
  <2>2. last.table \in 1..3 /\ last.bucket \in Nat /\ last.flow.serial \in Nat
    <3>1. last.flow.serial \in Nat
      BY <2>1, FlowIsSome
    <3>2. \A t : t \in 1..2 => t \in 1..3
      OBVIOUS
    <3>3. 3 \in 1..3 /\ 0 \in Nat /\ Buckets \subseteq Nat
      BY FlowTableAssumption
    <3> QED BY ONLY <2>1, <3>1, <3>2, <3>3
  <2>3. /\ dump'.key = dump.key /\ dump'.table = last.table
        /\ dump'.bucket = last.bucket + 1
        /\ dump'.start = IF last.table = 3 THEN AfterSerial(last.flow.serial) ELSE dump.start
        /\ dump'.owed = dump.owed \ ids
        /\ dump' \in DumpRec
    <3> DEFINE s == IF last.table = 3 THEN AfterSerial(last.flow.serial) ELSE dump.start
               o == dump.owed \ ids
    <3>1. AfterSerial(last.flow.serial) \in Nat
      BY <2>2, FlowTableAssumption DEF AfterSerial, Infinity
    <3>2. s \in Nat /\ o \in SUBSET Nat
      BY <1>1, <3>1 DEF DumpRec
    <3>3. dump' = [Behind(dump, last) EXCEPT !.owed = @ \ ids]
      BY <1>6
    <3>4. Behind(dump, last) = [dump EXCEPT !.table = last.table, !.bucket = last.bucket + 1,
                                            !.start = s]
      BY DEF Behind
    <3> HIDE DEF s, ids
    <3>5. dump' = [dump EXCEPT !.table = last.table, !.bucket = last.bucket + 1,
                               !.start = s, !.owed = o]
      BY <1>1, <3>3, <3>4 DEF DumpRec
    <3> HIDE DEF o
    <3>6. last.bucket + 1 \in Nat
      BY <2>2
    <3>7. /\ dump'.key = dump.key /\ dump'.table = last.table
          /\ dump'.bucket = last.bucket + 1 /\ dump'.start = s /\ dump'.owed = o
      BY <1>1, <3>5 DEF DumpRec
    <3>8. dump' \in DumpRec
      BY <1>1, <2>2, <3>2, <3>5, <3>6 DEF DumpRec
    <3> QED BY ONLY <3>7, <3>8 DEF s, o
  <2>4. ASSUME NEW x \in Pending(dump), x.flow.id \in dump'.owed
        PROVE  Before(last, x)
    BY <2>3, <2>4
  <2>5. \A n \in dump'.owed : \E f \in Stored' : f.id = n
    BY <1>1, <1>3, <2>3 DEF IInv, Owed
  <2> HIDE DEF reply, ids
  <2>6. ASSUME NEW t \in 1..2, NEW b \in Buckets,
               hash[t][b] # NoFlow, hash[t][b].id \in dump'.owed
        PROVE  /\ t > last.table \/ (t = last.table /\ b >= last.bucket + 1)
               /\ Matching(hash[t][b], dump.key)
    <3> DEFINE x == [flow |-> hash[t][b], table |-> t, bucket |-> b]
    <3>1. /\ t > dump.table \/ (t = dump.table /\ b >= dump.bucket)
          /\ Matching(hash[t][b], dump.key)
      BY <1>1, <2>3, <2>6 DEF IInv, Owed
    <3>2. x \in Pending(dump)
      BY <1>1, <2>6, <3>1, PendingIs
    <3>3. x.flow = hash[t][b] /\ x.table = t /\ x.bucket = b
      OBVIOUS
    <3> HIDE DEF x
    <3>4. Before(last, x)
      BY <2>4, <2>6, <3>2, <3>3
    <3>5. b \in Nat
      BY FlowTableAssumption
    <3>6. ~(last.table = t /\ last.bucket = b /\ last.flow.serial > hash[t][b].serial)
      BY <2>1, <2>2
    <3> QED BY <2>2, <3>1, <3>3, <3>4, <3>5, <3>6 DEF Before
  <2>7. ASSUME NEW i \in DOMAIN flows, flows[i].id \in dump'.owed
        PROVE  flows[i].serial <= dump'.start /\ Matching(flows[i], dump.key)
    <3> DEFINE x == [flow |-> flows[i], table |-> 3, bucket |-> 0]
    <3>1. flows[i].serial <= dump.start /\ Matching(flows[i], dump.key)
      BY <1>1, <2>3, <2>7 DEF IInv, Owed
    <3>2. x \in Pending(dump)
      BY <1>1, <3>1, PendingIs
    <3>3. x.flow = flows[i] /\ x.table = 3 /\ x.bucket = 0
      OBVIOUS
    <3> HIDE DEF x
    <3>4. Before(last, x)
      BY <2>4, <2>7, <3>2, <3>3
    <3>5. flows[i].serial \in Nat
      BY <1>1, FlowIsSome DEF Located
    <3>6. last.table = 3 => last.flow.serial > flows[i].serial
      BY <2>1, <2>2, <3>3, <3>4 DEF Before
    <3> QED BY <2>2, <2>3, <3>1, <3>5, <3>6 DEF AfterSerial
  <2>8. Owed'
    BY <1>2, <2>3, <2>5, <2>6, <2>7 DEF Owed, Matching
  <2> QED BY <1>4, <2>3, <2>8 DEF IInv
<1> QED BY <1>5, <1>6 DEF flow_stats_dump

-----------------------------------------------------------------------------
(* Theorems *)

\* The empty tables of chain_create.
LEMMA Initialised == Init => IInv
<1> SUFFICES ASSUME Init PROVE IInv
  OBVIOUS
<1>1. TypeOK
  BY FlowTableAssumption DEF Init, TypeOK
<1>2. Stored = {}
  <2>1. \A f : f \notin InHash /\ f \notin ToSet(flows)
    BY Contents DEF Init, IsInHash, IsInList
  <2> QED BY <2>1 DEF Stored
<1>3. InPlace /\ Sorted /\ Serials
  BY DEF Init, InPlace, Sorted, Serials
<1> QED BY <1>1, <1>2, <1>3 DEF Init, IInv, Ids, Owed

\* The tables keep their order, and requests their place in them, through every message,
\* packet and timeout.
THEOREM Invariance == Spec => []IInv
<1>1. IInv /\ [Next]_vars => IInv'
  <2> SUFFICES ASSUME IInv, [Next]_vars PROVE IInv'
    OBVIOUS
  <2>1. ASSUME NEW key \in Matches, NEW p \in Priorities, NEW port \in Port,
               NEW t \in Timeouts, add_flow(key, p, port, t)
        PROVE  IInv'
    BY <2>1, StepAdd
  <2>2. ASSUME NEW key \in Matches, NEW p \in Priorities, NEW strict \in BOOLEAN,
               NEW port \in Port, mod_flow(key, p, strict, port)
        PROVE  IInv'
    BY <2>2, StepMod
  <2>3. ASSUME NEW key \in Matches, NEW p \in Priorities, NEW strict \in BOOLEAN,
               NEW out \in Port \union {OFPP_NONE}, delete_flow(key, p, strict, out)
        PROVE  IInv'
    BY <2>3, StepDelete
  <2>4. ASSUME NEW key \in Matches, flow_stats_init(key) PROVE IInv'
    BY <2>4, StepStatsInit
  <2>5. ASSUME NEW flow \in Flows, packet(flow) PROVE IInv'
    BY <2>5, StepPacket
  <2>6. CASE timeout
    BY <2>6, StepTimeout
  <2>7. CASE flow_stats_dump
    BY <2>7, StepStatsDump
  <2>8. CASE UNCHANGED vars
    <3>1. UNCHANGED <<hash, flows, adds, serial, dump>>
      BY <2>8 DEF vars
    <3>2. Stored' = Stored
      BY <3>1 DEF Stored, InHash
    <3> QED
      BY <3>1, <3>2 DEF IInv, TypeOK, InPlace, Sorted, Serials, Ids, Owed, Bucket, Matching
  <2> QED BY <2>1, <2>2, <2>3, <2>4, <2>5, <2>6, <2>7, <2>8 DEF Next
<1> QED BY Initialised, <1>1, PTL DEF Spec

\* chain_lookup never misses a flow and never prefers a worse one, wherever the
\* additions, deletions and timeouts before it have put them.
THEOREM BestMatchIsFound == Spec => []LookupIsBestMatch
  BY Invariance, BestMatch, PTL

\* flow_stats_dump does not end before it has reported every flow that was there all the
\* time, however the tables changed between the replies.
THEOREM NothingIsMissed == Spec => DumpMissesNothing
<1>1. IInv /\ [Next]_vars =>
        [(dump # NoDump /\ dump' = NoDump)
           => dump.owed \subseteq {x.flow.id : x \in Pending(dump)}]_vars
  BY OwedIsPending
<1> QED BY Invariance, <1>1, PTL DEF Spec, DumpMissesNothing

\* A delete_flow that is not strict, with a description that covers a key, leaves
\* no flow with that key in any table.
LEMMA DeleteCovers ==
    ASSUME IInv, NEW key \in Matches, NEW g \in Stored', <<key, g.key>> \in Covers,
           delete_flow(key, ExactPriority, FALSE, OFPP_NONE)
    PROVE  FALSE
<1> DEFINE pr == Priority(key, ExactPriority)
           new == [f \in Stored |->
              IF /\ Deleted(f, f \in InHash, key, pr, FALSE)
                 /\ flow_has_out_port(f, OFPP_NONE)
              THEN NoFlow ELSE f]
<1>1. Stored \subseteq FlowRec
  BY Places DEF IInv, Located
<1>2. UpdateFlows(new)
  BY DEF delete_flow
<1>3. \A f \in Stored : new[f] \in FlowRec \union {NoFlow} /\ (new[f] # NoFlow => Alike(new[f], f))
  BY <1>1 DEF Alike
<1>4. new \in [Stored -> FlowRec \union {NoFlow}]
  BY <1>3
<1> HIDE DEF new
<1>5. PICK f \in Stored : g = new[f] /\ g # NoFlow
  BY <1>2, <1>3, <1>4, UpdateThins
<1>6. g = f /\ ~flow_matches_1wild(f.key, key)
  BY <1>5 DEF new, Deleted, flow_matches_desc, flow_has_out_port
<1>7. f.key \in Keys
  BY <1>1, FlowIsSome
<1> DEFINE k == [flow |-> f.key.flow, wildcards |-> {}]
<1>8. f.key.flow \in Flows
  BY <1>7 DEF Keys
<1>9. flow_matches_1wild(k, f.key)
  BY DEF flow_matches_1wild, flow_fields_match
<1>10. flow_matches_1wild(k, key)
  <2>1. \A flow \in Flows :
            LET packetKey == [flow |-> flow, wildcards |-> {}]
            IN flow_matches_1wild(packetKey, <<key, g.key>>[2])
                 => flow_matches_1wild(packetKey, <<key, g.key>>[1])
    BY DEF Covers
  <2>2. flow_matches_1wild(k, g.key) => flow_matches_1wild(k, key)
    BY <1>8, <2>1
  <2> QED BY <1>6, <1>9, <2>2
<1> QED BY <1>6, <1>10 DEF flow_matches_1wild, flow_fields_match

\* No delete_flow step leaves a flow behind that its description covers.
THEOREM DeletionIsComplete == Spec => DeleteIsComplete
<1>1. IInv /\ [Next]_vars =>
        [\A key \in Matches :
           (\E f \in Stored' : <<key, f.key>> \in Covers)
             => ~delete_flow(key, ExactPriority, FALSE, OFPP_NONE)]_vars
  BY DeleteCovers
<1> QED BY Invariance, <1>1, PTL DEF Spec, DeleteIsComplete
=============================================================================
