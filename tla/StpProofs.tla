------------------------------ MODULE StpProofs ------------------------------
(***************************************************************************)
(* Nothing that a spanning tree bridge has to do later is forgotten: the   *)
(* timers that have to run do run, for any number of bridges, ports and    *)
(* LANs, any ids and costs, and however many changes and losses there are. *)
(*                                                                         *)
(* NothingForgotten is not inductive.  A bridge whose only other           *)
(* information vanishes becomes root, and not every handler that chooses   *)
(* the root port again (stp_port_set_path_cost does) starts the hello      *)
(* timer.  So the invariant (Good) says besides that a bridge that is not  *)
(* root has a port to choose (Rooted).  For that its own information must  *)
(* not come back to the port it left by: the ids differ, and a LAN carries *)
(* a BPDU to the other ports only (Net).                                   *)
(*                                                                         *)
(* A handler is a chain of calls.  What each of them preserves is stated   *)
(* once: one that only sends "talks", one that chooses port states         *)
(* "settles", and the loops over the ports keep what their bodies keep.    *)
(***************************************************************************)
EXTENDS Stp, WellFoundedInduction, SequenceTheorems, TLAPS

-----------------------------------------------------------------------------
(* Loops over the ports *)

\* Every nonempty set of natural numbers has a least element.
LEMMA LeastNat ==
    ASSUME NEW T \in SUBSET Nat, T # {}
    PROVE  \E n \in T : \A m \in T : n <= m
<1> DEFINE R == {mn \in Nat \X Nat : mn[1] < mn[2]}
<1>1. IsWellFoundedOn(R, Nat)
  BY NatLessThanWellFounded DEF OpToRel
<1>2. PICK n \in T : \A m \in T : ~ (<<m, n>> \in R)
  BY <1>1, WFMin
<1>3. ASSUME NEW m \in T PROVE n <= m
  <2>1. <<m, n>> \in Nat \X Nat /\ <<m, n>>[1] = m /\ <<m, n>>[2] = n
    OBVIOUS
  <2>2. ~(m < n)
    BY <1>2, <2>1
  <2>3. m \in Nat /\ n \in Nat
    OBVIOUS
  <2> QED BY <2>2, <2>3
<1> QED
  BY <1>3

\* Induction over an interval.
LEMMA IntervalInduction ==
    ASSUME NEW N \in Nat, NEW S, 0 \in S, \A n \in 1..N : n - 1 \in S => n \in S
    PROVE  N \in S
<1> DEFINE Gap == {n \in 0..N : n \notin S}
<1>1. SUFFICES ASSUME Gap # {} PROVE FALSE
  <2>1. N \in 0..N
    OBVIOUS
  <2> QED BY <2>1
<1>2. PICK n \in Gap : \A m \in Gap : n <= m
  <2>1. Gap \in SUBSET Nat
    OBVIOUS
  <2> HIDE DEF Gap
  <2> QED BY <1>1, <2>1, LeastNat
<1>3. n \in 1..N /\ n \notin S
  BY <1>2
<1>4. n - 1 \in 0..N /\ n \in Nat /\ ~ (n <= n - 1)
  BY <1>3
<1>5. n - 1 \notin Gap
  <2> HIDE DEF Gap
  <2> QED BY <1>2, <1>4
<1>6. n - 1 \in S
  BY <1>4, <1>5
<1> QED
  BY <1>3, <1>6

\* A loop that starts at s and whose steps g keep to D, and a run of it.
IsLoop(N, D, s, g) == /\ N \in Nat /\ s \in D
                      /\ \A p \in 1..N : \A t \in D : g[<<t, p>>] \in D
IsRun(f, N, D, s, g) == /\ f \in [0..N -> D] /\ f[0] = s
                        /\ \A q \in 1..N : f[q] = g[<<f[q - 1], q>>]

\* A loop runs to its end.
LEMMA LoopRuns ==
    ASSUME NEW N, NEW D, NEW s, NEW g, IsLoop(N, D, s, g)
    PROVE  \E f : IsRun(f, N, D, s, g)
<1> USE DEF IsLoop
<1> DEFINE S == {n \in 0..N : \E f : IsRun(f, n, D, s, g)}
<1>1. 0 \in S
  <2> DEFINE f == [q \in 0..0 |-> s]
  <2>1. IsRun(f, 0, D, s, g)
    BY DEF IsRun
  <2> HIDE DEF f
  <2> QED BY <2>1
<1>2. ASSUME NEW n \in 1..N, n - 1 \in S PROVE n \in S
  <2>1. PICK f : IsRun(f, n - 1, D, s, g)
    BY <1>2
  <2> DEFINE h == [q \in 0..n |-> IF q = n THEN g[<<f[n - 1], n>>] ELSE f[q]]
  <2>2. h[n] = g[<<h[n - 1], n>>] /\ h[n] \in D
    <3>1. n - 1 \in 0..(n - 1) /\ n - 1 \in 0..n /\ n \in 0..n /\ n - 1 # n
      OBVIOUS
    <3>2. f[n - 1] \in D
      BY <2>1, <3>1 DEF IsRun
    <3>3. g[<<f[n - 1], n>>] \in D
      BY <3>2
    <3> QED BY <3>1, <3>3
  <2>3. ASSUME NEW q \in 0..n, q # n PROVE h[q] = f[q] /\ h[q] \in D
    BY <2>1, <2>3 DEF IsRun
  <2>4. ASSUME NEW q \in 1..n PROVE h[q] = g[<<h[q - 1], q>>]
    <3>1. CASE q = n
      BY <2>2, <3>1
    <3>2. CASE q # n
      <4>1. q \in 0..n /\ q - 1 \in 0..n /\ q - 1 # n /\ q \in 1..(n - 1)
        BY <3>2
      <4>2. h[q] = f[q] /\ h[q - 1] = f[q - 1]
        BY <2>3, <3>2, <4>1
      <4> HIDE DEF h
      <4> QED BY <2>1, <4>1, <4>2 DEF IsRun
    <3> QED BY <3>1, <3>2
  <2>5. h \in [0..n -> D]
    <3>1. \A q \in 0..n : h[q] \in D
      <4> HIDE DEF h
      <4> QED BY <2>2, <2>3
    <3> QED BY <3>1
  <2>6. h[0] = s
    <3>1. 0 \in 0..n /\ 0 # n
      OBVIOUS
    <3> HIDE DEF h
    <3> QED BY <2>1, <2>3, <3>1 DEF IsRun
  <2> HIDE DEF h
  <2>7. IsRun(h, n, D, s, g)
    BY <2>4, <2>5, <2>6 DEF IsRun
  <2>8. n \in 0..N
    OBVIOUS
  <2> QED BY <2>7, <2>8
<1> HIDE DEF S
<1>3. N \in S
  BY <1>1, <1>2, IntervalInduction
<1> QED BY <1>3 DEF S

\* The loop that sends configuration BPDUs.
LEMMA GenerationLoop ==
    ASSUME NEW D, NEW s \in D,
           \A p \in Port : \A t \in D : p \in Enabled(t) => generate_config(t, p) \in D
    PROVE  stp_config_bpdu_generation(s) \in D
<1> DEFINE Step(t, p) == IF p \in Enabled(t) THEN generate_config(t, p) ELSE t
           Body(f) == [p \in 0..NPorts |->
                         IF p = 0 THEN s ELSE CHOOSE x \in {Step(t, p) : t \in {f[p - 1]}} : TRUE]
           after == CHOOSE f : f = Body(f)
           g == [x \in D \X (1..NPorts) |-> Step(x[1], x[2])]
<1>1. NPorts \in Nat /\ Port = 1..NPorts
  BY StpAssumption DEF Port
<1>2. stp_config_bpdu_generation(s) = after[NPorts]
  BY DEF stp_config_bpdu_generation, ForEachEnabledPort
<1>3. \A p \in 1..NPorts : \A t \in D : Step(t, p) \in D
  BY <1>1
<1> HIDE DEF Step
<1>4. \A p \in 1..NPorts : \A t \in D : g[<<t, p>>] = Step(t, p)
  OBVIOUS
<1>5. PICK f : IsRun(f, NPorts, D, s, g)
  <2>1. IsLoop(NPorts, D, s, g)
    BY <1>1, <1>3 DEF IsLoop
  <2> HIDE DEF g
  <2> QED BY <2>1, LoopRuns
<1> HIDE DEF g
<1>6. f = Body(f)
  <2>1. f \in [0..NPorts -> D]
    BY <1>5 DEF IsRun
  <2>2. ASSUME NEW p \in 0..NPorts PROVE f[p] = Body(f)[p]
    <3>1. CASE p = 0
      BY <1>5, <3>1 DEF IsRun
    <3>2. CASE p # 0
      <4>1. p \in 1..NPorts /\ p - 1 \in 0..NPorts
        BY <1>1, <3>2
      <4>2. f[p] = g[<<f[p - 1], p>>] /\ f[p - 1] \in D
        BY <1>5, <4>1 DEF IsRun
      <4> QED BY <1>4, <3>2, <4>1, <4>2
    <3> QED BY <3>1, <3>2
  <2> QED BY <2>1, <2>2
<1>7. after = Body(after)
  <2> HIDE DEF Body
  <2> QED BY <1>6
<1> HIDE DEF after
<1> DEFINE S == {p \in 0..NPorts : after[p] \in D}
<1>8. 0 \in S
  BY <1>1, <1>7
<1>9. ASSUME NEW p \in 1..NPorts, p - 1 \in S PROVE p \in S
  <2>1. after[p - 1] \in D /\ p \in 0..NPorts /\ p # 0
    BY <1>1, <1>9
  <2>2. after[p] = Step(after[p - 1], p)
    BY <1>7, <2>1
  <2> QED BY <1>3, <2>1, <2>2
<1> HIDE DEF S
<1>10. NPorts \in S
  BY <1>1, <1>8, <1>9, IntervalInduction
<1> QED BY <1>2, <1>10 DEF S

\* The loop of stp_designated_port_selection.
LEMMA DesignatedLoop ==
    ASSUME NEW D, NEW s \in D,
           \A p \in Port : \A t \in D : p \in Enabled(t) => select_designated_port(t, p) \in D
    PROVE  stp_designated_port_selection(s) \in D
<1> DEFINE Step(t, p) == IF p \in Enabled(t) THEN select_designated_port(t, p) ELSE t
           Body(f) == [p \in 0..NPorts |->
                         IF p = 0 THEN s ELSE CHOOSE x \in {Step(t, p) : t \in {f[p - 1]}} : TRUE]
           after == CHOOSE f : f = Body(f)
           g == [x \in D \X (1..NPorts) |-> Step(x[1], x[2])]
<1>1. NPorts \in Nat /\ Port = 1..NPorts
  BY StpAssumption DEF Port
<1>2. stp_designated_port_selection(s) = after[NPorts]
  BY DEF stp_designated_port_selection, ForEachEnabledPort
<1>3. \A p \in 1..NPorts : \A t \in D : Step(t, p) \in D
  BY <1>1
<1> HIDE DEF Step
<1>4. \A p \in 1..NPorts : \A t \in D : g[<<t, p>>] = Step(t, p)
  OBVIOUS
<1>5. PICK f : IsRun(f, NPorts, D, s, g)
  <2>1. IsLoop(NPorts, D, s, g)
    BY <1>1, <1>3 DEF IsLoop
  <2> HIDE DEF g
  <2> QED BY <2>1, LoopRuns
<1> HIDE DEF g
<1>6. f = Body(f)
  <2>1. f \in [0..NPorts -> D]
    BY <1>5 DEF IsRun
  <2>2. ASSUME NEW p \in 0..NPorts PROVE f[p] = Body(f)[p]
    <3>1. CASE p = 0
      BY <1>5, <3>1 DEF IsRun
    <3>2. CASE p # 0
      <4>1. p \in 1..NPorts /\ p - 1 \in 0..NPorts
        BY <1>1, <3>2
      <4>2. f[p] = g[<<f[p - 1], p>>] /\ f[p - 1] \in D
        BY <1>5, <4>1 DEF IsRun
      <4> QED BY <1>4, <3>2, <4>1, <4>2
    <3> QED BY <3>1, <3>2
  <2> QED BY <2>1, <2>2
<1>7. after = Body(after)
  <2> HIDE DEF Body
  <2> QED BY <1>6
<1> HIDE DEF after
<1> DEFINE S == {p \in 0..NPorts : after[p] \in D}
<1>8. 0 \in S
  BY <1>1, <1>7
<1>9. ASSUME NEW p \in 1..NPorts, p - 1 \in S PROVE p \in S
  <2>1. after[p - 1] \in D /\ p \in 0..NPorts /\ p # 0
    BY <1>1, <1>9
  <2>2. after[p] = Step(after[p - 1], p)
    BY <1>7, <2>1
  <2> QED BY <1>3, <2>1, <2>2
<1> HIDE DEF S
<1>10. NPorts \in S
  BY <1>1, <1>8, <1>9, IntervalInduction
<1> QED BY <1>2, <1>10 DEF S

\* The loop of stp_port_state_selection.
LEMMA StateLoop ==
    ASSUME NEW D, NEW s \in D,
           \A p \in Port : \A t \in D : p \in Enabled(t) => select_port_state(t, p) \in D
    PROVE  stp_port_state_selection(s) \in D
<1> DEFINE Step(t, p) == IF p \in Enabled(t) THEN select_port_state(t, p) ELSE t
           Body(f) == [p \in 0..NPorts |->
                         IF p = 0 THEN s ELSE CHOOSE x \in {Step(t, p) : t \in {f[p - 1]}} : TRUE]
           after == CHOOSE f : f = Body(f)
           g == [x \in D \X (1..NPorts) |-> Step(x[1], x[2])]
<1>1. NPorts \in Nat /\ Port = 1..NPorts
  BY StpAssumption DEF Port
<1>2. stp_port_state_selection(s) = after[NPorts]
  BY DEF stp_port_state_selection, ForEachEnabledPort
<1>3. \A p \in 1..NPorts : \A t \in D : Step(t, p) \in D
  BY <1>1
<1> HIDE DEF Step
<1>4. \A p \in 1..NPorts : \A t \in D : g[<<t, p>>] = Step(t, p)
  OBVIOUS
<1>5. PICK f : IsRun(f, NPorts, D, s, g)
  <2>1. IsLoop(NPorts, D, s, g)
    BY <1>1, <1>3 DEF IsLoop
  <2> HIDE DEF g
  <2> QED BY <2>1, LoopRuns
<1> HIDE DEF g
<1>6. f = Body(f)
  <2>1. f \in [0..NPorts -> D]
    BY <1>5 DEF IsRun
  <2>2. ASSUME NEW p \in 0..NPorts PROVE f[p] = Body(f)[p]
    <3>1. CASE p = 0
      BY <1>5, <3>1 DEF IsRun
    <3>2. CASE p # 0
      <4>1. p \in 1..NPorts /\ p - 1 \in 0..NPorts
        BY <1>1, <3>2
      <4>2. f[p] = g[<<f[p - 1], p>>] /\ f[p - 1] \in D
        BY <1>5, <4>1 DEF IsRun
      <4> QED BY <1>4, <3>2, <4>1, <4>2
    <3> QED BY <3>1, <3>2
  <2> QED BY <2>1, <2>2
<1>7. after = Body(after)
  <2> HIDE DEF Body
  <2> QED BY <1>6
<1> HIDE DEF after
<1> DEFINE S == {p \in 0..NPorts : after[p] \in D}
<1>8. 0 \in S
  BY <1>1, <1>7
<1>9. ASSUME NEW p \in 1..NPorts, p - 1 \in S PROVE p \in S
  <2>1. after[p - 1] \in D /\ p \in 0..NPorts /\ p # 0
    BY <1>1, <1>9
  <2>2. after[p] = Step(after[p - 1], p)
    BY <1>7, <2>1
  <2> QED BY <1>3, <2>1, <2>2
<1> HIDE DEF S
<1>10. NPorts \in S
  BY <1>1, <1>8, <1>9, IntervalInduction
<1> QED BY <1>2, <1>10 DEF S

\* The first loop of stp_tick.
LEMMA MessageAgeLoop ==
    ASSUME NEW D, NEW s \in D,
           \A p \in Port : \A t \in D : p \in Enabled(t) => tick_message_age(t, p) \in D
    PROVE  ForEachEnabledPort(s, tick_message_age) \in D
<1> DEFINE Step(t, p) == IF p \in Enabled(t) THEN tick_message_age(t, p) ELSE t
           Body(f) == [p \in 0..NPorts |->
                         IF p = 0 THEN s ELSE CHOOSE x \in {Step(t, p) : t \in {f[p - 1]}} : TRUE]
           after == CHOOSE f : f = Body(f)
           g == [x \in D \X (1..NPorts) |-> Step(x[1], x[2])]
<1>1. NPorts \in Nat /\ Port = 1..NPorts
  BY StpAssumption DEF Port
<1>2. ForEachEnabledPort(s, tick_message_age) = after[NPorts]
  BY DEF ForEachEnabledPort
<1>3. \A p \in 1..NPorts : \A t \in D : Step(t, p) \in D
  BY <1>1
<1> HIDE DEF Step
<1>4. \A p \in 1..NPorts : \A t \in D : g[<<t, p>>] = Step(t, p)
  OBVIOUS
<1>5. PICK f : IsRun(f, NPorts, D, s, g)
  <2>1. IsLoop(NPorts, D, s, g)
    BY <1>1, <1>3 DEF IsLoop
  <2> HIDE DEF g
  <2> QED BY <2>1, LoopRuns
<1> HIDE DEF g
<1>6. f = Body(f)
  <2>1. f \in [0..NPorts -> D]
    BY <1>5 DEF IsRun
  <2>2. ASSUME NEW p \in 0..NPorts PROVE f[p] = Body(f)[p]
    <3>1. CASE p = 0
      BY <1>5, <3>1 DEF IsRun
    <3>2. CASE p # 0
      <4>1. p \in 1..NPorts /\ p - 1 \in 0..NPorts
        BY <1>1, <3>2
      <4>2. f[p] = g[<<f[p - 1], p>>] /\ f[p - 1] \in D
        BY <1>5, <4>1 DEF IsRun
      <4> QED BY <1>4, <3>2, <4>1, <4>2
    <3> QED BY <3>1, <3>2
  <2> QED BY <2>1, <2>2
<1>7. after = Body(after)
  <2> HIDE DEF Body
  <2> QED BY <1>6
<1> HIDE DEF after
<1> DEFINE S == {p \in 0..NPorts : after[p] \in D}
<1>8. 0 \in S
  BY <1>1, <1>7
<1>9. ASSUME NEW p \in 1..NPorts, p - 1 \in S PROVE p \in S
  <2>1. after[p - 1] \in D /\ p \in 0..NPorts /\ p # 0
    BY <1>1, <1>9
  <2>2. after[p] = Step(after[p - 1], p)
    BY <1>7, <2>1
  <2> QED BY <1>3, <2>1, <2>2
<1> HIDE DEF S
<1>10. NPorts \in S
  BY <1>1, <1>8, <1>9, IntervalInduction
<1> QED BY <1>2, <1>10 DEF S

\* The second loop of stp_tick.
LEMMA PortLoop ==
    ASSUME NEW D, NEW s \in D,
           \A p \in Port : \A t \in D : p \in Enabled(t) => tick_port(t, p) \in D
    PROVE  ForEachEnabledPort(s, tick_port) \in D
<1> DEFINE Step(t, p) == IF p \in Enabled(t) THEN tick_port(t, p) ELSE t
           Body(f) == [p \in 0..NPorts |->
                         IF p = 0 THEN s ELSE CHOOSE x \in {Step(t, p) : t \in {f[p - 1]}} : TRUE]
           after == CHOOSE f : f = Body(f)
           g == [x \in D \X (1..NPorts) |-> Step(x[1], x[2])]
<1>1. NPorts \in Nat /\ Port = 1..NPorts
  BY StpAssumption DEF Port
<1>2. ForEachEnabledPort(s, tick_port) = after[NPorts]
  BY DEF ForEachEnabledPort
<1>3. \A p \in 1..NPorts : \A t \in D : Step(t, p) \in D
  BY <1>1
<1> HIDE DEF Step
<1>4. \A p \in 1..NPorts : \A t \in D : g[<<t, p>>] = Step(t, p)
  OBVIOUS
<1>5. PICK f : IsRun(f, NPorts, D, s, g)
  <2>1. IsLoop(NPorts, D, s, g)
    BY <1>1, <1>3 DEF IsLoop
  <2> HIDE DEF g
  <2> QED BY <2>1, LoopRuns
<1> HIDE DEF g
<1>6. f = Body(f)
  <2>1. f \in [0..NPorts -> D]
    BY <1>5 DEF IsRun
  <2>2. ASSUME NEW p \in 0..NPorts PROVE f[p] = Body(f)[p]
    <3>1. CASE p = 0
      BY <1>5, <3>1 DEF IsRun
    <3>2. CASE p # 0
      <4>1. p \in 1..NPorts /\ p - 1 \in 0..NPorts
        BY <1>1, <3>2
      <4>2. f[p] = g[<<f[p - 1], p>>] /\ f[p - 1] \in D
        BY <1>5, <4>1 DEF IsRun
      <4> QED BY <1>4, <3>2, <4>1, <4>2
    <3> QED BY <3>1, <3>2
  <2> QED BY <2>1, <2>2
<1>7. after = Body(after)
  <2> HIDE DEF Body
  <2> QED BY <1>6
<1> HIDE DEF after
<1> DEFINE S == {p \in 0..NPorts : after[p] \in D}
<1>8. 0 \in S
  BY <1>1, <1>7
<1>9. ASSUME NEW p \in 1..NPorts, p - 1 \in S PROVE p \in S
  <2>1. after[p - 1] \in D /\ p \in 0..NPorts /\ p # 0
    BY <1>1, <1>9
  <2>2. after[p] = Step(after[p - 1], p)
    BY <1>7, <2>1
  <2> QED BY <1>3, <2>1, <2>2
<1> HIDE DEF S
<1>10. NPorts \in S
  BY <1>1, <1>8, <1>9, IntervalInduction
<1> QED BY <1>2, <1>10 DEF S

\* The loop of stp_start.
EnableUp(s, up) ==
    LET enable(t, p) == IF p \in up THEN stp_port_enable(t, p) ELSE t
    IN ForEachPort(s, enable)

\* The loop that enables the ports of a new bridge that are up.
LEMMA EnableLoop ==
    ASSUME NEW D, NEW s \in D, NEW up,
           \A p \in Port : \A t \in D : stp_port_enable(t, p) \in D
    PROVE  EnableUp(s, up) \in D
<1> DEFINE Step(t, p) == IF p \in up THEN stp_port_enable(t, p) ELSE t
           Body(f) == [p \in 0..NPorts |->
                         IF p = 0 THEN s ELSE CHOOSE x \in {Step(t, p) : t \in {f[p - 1]}} : TRUE]
           after == CHOOSE f : f = Body(f)
           g == [x \in D \X (1..NPorts) |-> Step(x[1], x[2])]
<1>1. NPorts \in Nat /\ Port = 1..NPorts
  BY StpAssumption DEF Port
<1>2. EnableUp(s, up) = after[NPorts]
  BY DEF EnableUp, ForEachPort
<1>3. \A p \in 1..NPorts : \A t \in D : Step(t, p) \in D
  BY <1>1
<1> HIDE DEF Step
<1>4. \A p \in 1..NPorts : \A t \in D : g[<<t, p>>] = Step(t, p)
  OBVIOUS
<1>5. PICK f : IsRun(f, NPorts, D, s, g)
  <2>1. IsLoop(NPorts, D, s, g)
    BY <1>1, <1>3 DEF IsLoop
  <2> HIDE DEF g
  <2> QED BY <2>1, LoopRuns
<1> HIDE DEF g
<1>6. f = Body(f)
  <2>1. f \in [0..NPorts -> D]
    BY <1>5 DEF IsRun
  <2>2. ASSUME NEW p \in 0..NPorts PROVE f[p] = Body(f)[p]
    <3>1. CASE p = 0
      BY <1>5, <3>1 DEF IsRun
    <3>2. CASE p # 0
      <4>1. p \in 1..NPorts /\ p - 1 \in 0..NPorts
        BY <1>1, <3>2
      <4>2. f[p] = g[<<f[p - 1], p>>] /\ f[p - 1] \in D
        BY <1>5, <4>1 DEF IsRun
      <4> QED BY <1>4, <3>2, <4>1, <4>2
    <3> QED BY <3>1, <3>2
  <2> QED BY <2>1, <2>2
<1>7. after = Body(after)
  <2> HIDE DEF Body
  <2> QED BY <1>6
<1> HIDE DEF after
<1> DEFINE S == {p \in 0..NPorts : after[p] \in D}
<1>8. 0 \in S
  BY <1>1, <1>7
<1>9. ASSUME NEW p \in 1..NPorts, p - 1 \in S PROVE p \in S
  <2>1. after[p - 1] \in D /\ p \in 0..NPorts /\ p # 0
    BY <1>1, <1>9
  <2>2. after[p] = Step(after[p - 1], p)
    BY <1>7, <2>1
  <2> QED BY <1>3, <2>1, <2>2
<1> HIDE DEF S
<1>10. NPorts \in S
  BY <1>1, <1>8, <1>9, IntervalInduction
<1> QED BY <1>2, <1>10 DEF S

-----------------------------------------------------------------------------
(* Bridges *)

Timer == Nat \cup {Off}
State == {"disabled", "blocking", "listening", "learning", "forwarding"}
PortRec == [port_id : Port, state : State, path_cost : Nat \ {0},
            designated_root : Nat, designated_cost : Nat, designated_bridge : Nat, designated_port : Port,
            topology_change_ack : BOOLEAN, config_pending : BOOLEAN,
            message_age_timer : Timer, forward_delay_timer : Timer, hold_timer : Timer,
            state_changed : BOOLEAN, flag : State \cup {"none"}]
Config == [type : {"config"}, root_id : Nat, root_path_cost : Nat, bridge_id : Nat, port_id : Port,
           message_age : Nat, topology_change : BOOLEAN, topology_change_ack : BOOLEAN]
Bpdu == Config \cup [type : {"tcn"}]
StpRec == [bridge_id : Nat, designated_root : Nat, root_path_cost : Nat, root_port : Port \cup {NULL},
           topology_change_detected : BOOLEAN, topology_change : BOOLEAN,
           hello_timer : Timer, tcn_timer : Timer, topology_change_timer : Timer,
           ports : [Port -> PortRec], first_changed_port : Nat,
           out : Seq([port : Port, bpdu : Bpdu])]

\* What bridge id sends says so, and through which port.
Own(id, o) == /\ o \in [port : Port, bpdu : Bpdu]
              /\ o.bpdu.type = "config" => o.bpdu.bridge_id = id /\ o.bpdu.port_id = o.port

\* What every function of the code needs of the bridge that it is given.
Valid(s) == /\ s \in StpRec
            /\ \A p \in Port : s.ports[p].port_id = p
            /\ \A k \in 1..Len(s.out) : Own(s.bridge_id, s.out[k])

\* Ports that differ in nothing that NothingForgotten depends on.
SamePort(d, e) == /\ e.state = d.state /\ e.path_cost = d.path_cost
                  /\ e.designated_root = d.designated_root /\ e.designated_cost = d.designated_cost
                  /\ e.designated_bridge = d.designated_bridge /\ e.designated_port = d.designated_port
                  /\ e.message_age_timer = d.message_age_timer
                  /\ e.forward_delay_timer = d.forward_delay_timer

\* What the bridge knows of the root.
SameRoot(s, t) == /\ t.bridge_id = s.bridge_id /\ t.designated_root = s.designated_root
                  /\ t.root_path_cost = s.root_path_cost /\ t.root_port = s.root_port

\* A function that sends, and remembers what it has sent.
Talks(s, t) == /\ Valid(t) /\ SameRoot(s, t) /\ t.hello_timer = s.hello_timer
               /\ \A p \in Port : SamePort(s.ports[p], t.ports[p])

-----------------------------------------------------------------------------
(* Transmission *)

\* A bridge that differs in the notes that it keeps talks.
LEMMA TalksIs ==
    ASSUME NEW s, Valid(s), NEW t \in StpRec, SameRoot(s, t), t.hello_timer = s.hello_timer, t.out = s.out,
           \A p \in Port : SamePort(s.ports[p], t.ports[p]) /\ t.ports[p].port_id = p
    PROVE  Talks(s, t)
  BY DEF Talks, Valid, SameRoot

\* Talking twice is talking.
LEMMA TalksTwice ==
    ASSUME NEW s, NEW t, NEW u, Talks(s, t), Talks(t, u)
    PROVE  Talks(s, u)
  BY DEF Talks, SameRoot, SamePort

\* A message of the bridge's own is added to what it has sent.
LEMMA SendTalks ==
    ASSUME NEW s, Valid(s), NEW o, Own(s.bridge_id, o)
    PROVE  Talks(s, [s EXCEPT !.out = Append(@, o)])
<1> DEFINE t == [s EXCEPT !.out = Append(@, o)]
<1>1. s \in StpRec /\ s.out \in Seq([port : Port, bpdu : Bpdu]) /\ o \in [port : Port, bpdu : Bpdu]
  BY DEF Valid, Own, StpRec
<1>2. Append(s.out, o) \in Seq([port : Port, bpdu : Bpdu])
  BY <1>1
<1>3. t \in StpRec /\ t.out = Append(s.out, o) /\ SameRoot(s, t) /\ t.hello_timer = s.hello_timer /\ t.ports = s.ports
  BY <1>1, <1>2 DEF StpRec, SameRoot
<1>4. ASSUME NEW k \in 1..Len(t.out) PROVE Own(s.bridge_id, t.out[k])
  <2>1. Len(t.out) = Len(s.out) + 1 /\ t.out[k] = IF k = Len(s.out) + 1 THEN o ELSE s.out[k]
    BY <1>1, <1>3
  <2>2. k # Len(s.out) + 1 => k \in 1..Len(s.out)
    BY <1>1, <2>1
  <2> QED BY <2>1, <2>2 DEF Valid
<1> SUFFICES Talks(s, t)
  OBVIOUS
<1> HIDE DEF t
<1> QED BY <1>3, <1>4 DEF Talks, Valid, SamePort, SameRoot

PutPort(s, p, d) == [s EXCEPT !.ports[p] = d]

\* A function that writes one port.
LEMMA PortWrite ==
    ASSUME NEW s \in StpRec, NEW p \in Port, NEW d \in PortRec
    PROVE  LET t == PutPort(s, p, d)
           IN /\ t \in StpRec /\ t.ports[p] = d
              /\ \A q \in Port \ {p} : t.ports[q] = s.ports[q]
              /\ SameRoot(s, t) /\ t.hello_timer = s.hello_timer /\ t.out = s.out
  BY DEF PutPort, StpRec, SameRoot

\* A function that writes what does not matter of one port talks.
LEMMA PortTalks ==
    ASSUME NEW s, Valid(s), NEW p \in Port, NEW d \in PortRec,
           SamePort(s.ports[p], d), d.port_id = s.ports[p].port_id
    PROVE  Talks(s, PutPort(s, p, d))
<1> DEFINE t == PutPort(s, p, d)
<1>1. s \in StpRec /\ \A q \in Port : s.ports[q].port_id = q
  BY DEF Valid
<1>2. /\ t \in StpRec /\ t.ports[p] = d
      /\ \A q \in Port \ {p} : t.ports[q] = s.ports[q]
      /\ SameRoot(s, t) /\ t.hello_timer = s.hello_timer /\ t.out = s.out
  BY <1>1, PortWrite
<1> HIDE DEF t
<1>3. \A q \in Port : SamePort(s.ports[q], t.ports[q]) /\ t.ports[q].port_id = q
  BY <1>1, <1>2 DEF SamePort
<1> QED BY <1>2, <1>3, TalksIs DEF t

\* transmit_config sends what the bridge knows, or notes that it is to be sent.
LEMMA TransmitTalks ==
    ASSUME NEW s, Valid(s), NEW p \in Port
    PROVE  Talks(s, stp_transmit_config(s, p))
<1> DEFINE age == IF stp_is_root_bridge(s) THEN 0 ELSE s.ports[s.root_port].message_age_timer + 1
           config == [type |-> "config", root_id |-> s.designated_root,
                      root_path_cost |-> s.root_path_cost, bridge_id |-> s.bridge_id,
                      port_id |-> s.ports[p].port_id, message_age |-> age,
                      topology_change |-> Flag(s.topology_change),
                      topology_change_ack |-> Flag(s.ports[p].topology_change_ack)]
           o == [port |-> p, bpdu |-> config]
           quiet == [s EXCEPT !.ports[p].topology_change_ack = FALSE,
                              !.ports[p].config_pending = FALSE,
                              !.ports[p].hold_timer = 0]
           pending == [s EXCEPT !.ports[p].config_pending = TRUE]
<1>1. s \in StpRec /\ \A q \in Port : s.ports[q].port_id = q
  BY DEF Valid
<1>2. s.ports[p] \in PortRec /\ Talks(s, s)
  BY <1>1, TalksIs DEF StpRec, SameRoot, SamePort
<1>3. Talks(s, pending)
  <2> DEFINE d == [s.ports[p] EXCEPT !.config_pending = TRUE]
  <2>1. d \in PortRec /\ SamePort(s.ports[p], d) /\ d.port_id = s.ports[p].port_id
    BY <1>2 DEF PortRec, SamePort
  <2>2. pending = PutPort(s, p, d)
    BY <1>1 DEF PutPort, StpRec
  <2> HIDE DEF pending, d
  <2> QED BY <2>1, <2>2, PortTalks
<1>4. Talks(s, quiet)
  <2> DEFINE d == [s.ports[p] EXCEPT !.topology_change_ack = FALSE, !.config_pending = FALSE,
                                     !.hold_timer = 0]
  <2>1. d \in PortRec /\ SamePort(s.ports[p], d) /\ d.port_id = s.ports[p].port_id
    BY <1>2 DEF PortRec, SamePort, Timer
  <2>2. quiet = PutPort(s, p, d)
    BY <1>1 DEF PutPort, StpRec
  <2> HIDE DEF quiet, d
  <2> QED BY <2>1, <2>2, PortTalks
<1>5. quiet.out = s.out /\ quiet.bridge_id = s.bridge_id
  BY <1>1 DEF StpRec
<1>6. ASSUME stp_is_root_bridge(s) \/ s.root_port # NULL
      PROVE  Talks(s, [quiet EXCEPT !.out = Append(@, o)])
  <2>1. age \in Nat
    <3>1. CASE stp_is_root_bridge(s)
      BY <3>1
    <3>2. CASE ~stp_is_root_bridge(s)
      <4>1. s.root_port \in Port
        BY <1>1, <1>6, <3>2 DEF StpRec
      <4>2. s.ports[s.root_port].message_age_timer \in Timer
        BY <1>1, <4>1 DEF StpRec, PortRec
      <4> QED BY <3>2, <4>2 DEF Timer, Off
    <3> QED BY <3>1, <3>2
  <2> HIDE DEF age
  <2>2. config \in Config
    BY <1>1, <2>1 DEF Config, StpRec, PortRec, Flag
  <2>3. config.bridge_id = s.bridge_id /\ config.port_id = p
    BY <1>1
  <2> HIDE DEF config
  <2>4. Own(quiet.bridge_id, o)
    BY <1>5, <2>2, <2>3 DEF Own, Bpdu
  <2> HIDE DEF quiet, o
  <2>5. Valid(quiet)
    BY <1>4 DEF Talks
  <2> QED BY <1>4, <2>4, <2>5, SendTalks, TalksTwice
<1>7. [quiet EXCEPT !.out = Append(@, o)]
        = [s EXCEPT !.ports[p].topology_change_ack = FALSE,
                    !.ports[p].config_pending = FALSE,
                    !.ports[p].hold_timer = 0,
                    !.out = Append(@, o)]
  <2> HIDE DEF o
  <2> QED BY <1>1, <1>5 DEF StpRec
<1> DEFINE sent == [s EXCEPT !.ports[p].topology_change_ack = FALSE,
                            !.ports[p].config_pending = FALSE,
                            !.ports[p].hold_timer = 0,
                            !.out = Append(@, o)]
<1>8. \/ stp_transmit_config(s, p) \in {s, pending}
      \/ stp_transmit_config(s, p) = sent /\ (stp_is_root_bridge(s) \/ s.root_port # NULL)
  BY DEF stp_transmit_config
<1>9. stp_is_root_bridge(s) \/ s.root_port # NULL => Talks(s, sent)
  BY <1>6, <1>7
<1> HIDE DEF sent, pending
<1> QED BY <1>2, <1>3, <1>8, <1>9

\* transmit_tcn sends through the root port.
LEMMA TcnTalks ==
    ASSUME NEW s, Valid(s)
    PROVE  Talks(s, stp_transmit_tcn(s))
<1> DEFINE o == [port |-> s.root_port, bpdu |-> [type |-> "tcn"]]
<1>1. s \in StpRec /\ \A q \in Port : s.ports[q].port_id = q
  BY DEF Valid
<1>2. Talks(s, s)
  BY <1>1, TalksIs DEF SameRoot, SamePort
<1>3. ASSUME s.root_port # NULL PROVE Talks(s, [s EXCEPT !.out = Append(@, o)])
  <2>1. s.root_port \in Port
    BY <1>1, <1>3 DEF StpRec
  <2>2. Own(s.bridge_id, o)
    BY <2>1 DEF Own, Bpdu
  <2> HIDE DEF o
  <2> QED BY <2>2, SendTalks
<1> QED BY <1>2, <1>3 DEF stp_transmit_tcn

\* What the bridge notes of topology changes does not matter.
LEMMA NoteTalks ==
    ASSUME NEW s, Valid(s), NEW d \in BOOLEAN, NEW c \in BOOLEAN, NEW tt \in Timer, NEW ct \in Timer
    PROVE  Talks(s, [s EXCEPT !.topology_change_detected = d, !.topology_change = c,
                              !.tcn_timer = tt, !.topology_change_timer = ct])
<1> DEFINE t == [s EXCEPT !.topology_change_detected = d, !.topology_change = c,
                          !.tcn_timer = tt, !.topology_change_timer = ct]
<1>1. s \in StpRec /\ \A q \in Port : s.ports[q].port_id = q
  BY DEF Valid
<1>2. t \in StpRec /\ SameRoot(s, t) /\ t.hello_timer = s.hello_timer /\ t.out = s.out /\ t.ports = s.ports
  BY <1>1 DEF StpRec, SameRoot
<1> SUFFICES Talks(s, t)
  OBVIOUS
<1> HIDE DEF t
<1> QED BY <1>1, <1>2, TalksIs DEF SamePort

\* topology_change_detection notes the change, and tells the root of it.
LEMMA DetectionTalks ==
    ASSUME NEW s, Valid(s)
    PROVE  Talks(s, stp_topology_change_detection(s))
<1> DEFINE r == [s EXCEPT !.topology_change = TRUE, !.topology_change_timer = 0]
           u == stp_transmit_tcn(s)
           v == [u EXCEPT !.tcn_timer = 0]
<1>1. s \in StpRec /\ Talks(s, u) /\ 0 \in Timer
  BY TcnTalks DEF Valid, Timer
<1>2. u \in StpRec /\ Valid(u)
  BY <1>1 DEF Talks, Valid
<1> HIDE DEF u
<1>3. Talks(s, [r EXCEPT !.topology_change_detected = TRUE])
  <2>1. /\ s.tcn_timer \in Timer
        /\ [r EXCEPT !.topology_change_detected = TRUE]
             = [s EXCEPT !.topology_change_detected = TRUE, !.topology_change = TRUE,
                         !.tcn_timer = s.tcn_timer, !.topology_change_timer = 0]
    BY <1>1 DEF StpRec
  <2> QED BY <1>1, <2>1, NoteTalks
<1>4. Talks(s, [v EXCEPT !.topology_change_detected = TRUE])
  <2>1. /\ u.topology_change \in BOOLEAN /\ u.topology_change_timer \in Timer
        /\ [v EXCEPT !.topology_change_detected = TRUE]
             = [u EXCEPT !.topology_change_detected = TRUE, !.topology_change = u.topology_change,
                         !.tcn_timer = 0, !.topology_change_timer = u.topology_change_timer]
    BY <1>2 DEF StpRec
  <2>2. Talks(u, [v EXCEPT !.topology_change_detected = TRUE])
    BY <1>1, <1>2, <2>1, NoteTalks
  <2> HIDE DEF v
  <2> QED BY <1>1, <2>2, TalksTwice
<1>5. Talks(s, [s EXCEPT !.topology_change_detected = TRUE])
  <2>1. /\ s.topology_change \in BOOLEAN /\ s.topology_change_timer \in Timer /\ s.tcn_timer \in Timer
        /\ [s EXCEPT !.topology_change_detected = TRUE]
             = [s EXCEPT !.topology_change_detected = TRUE, !.topology_change = s.topology_change,
                         !.tcn_timer = s.tcn_timer, !.topology_change_timer = s.topology_change_timer]
    BY <1>1 DEF StpRec
  <2>2. Talks(s, [s EXCEPT !.topology_change_detected = TRUE, !.topology_change = s.topology_change,
                           !.tcn_timer = s.tcn_timer,
                           !.topology_change_timer = s.topology_change_timer])
    BY <2>1, NoteTalks
  <2> QED BY <2>1, <2>2
<1>6. stp_topology_change_detection(s) \in {[r EXCEPT !.topology_change_detected = TRUE],
         [v EXCEPT !.topology_change_detected = TRUE], [s EXCEPT !.topology_change_detected = TRUE]}
  BY DEF stp_topology_change_detection, u
<1> HIDE DEF r, v
<1> QED BY <1>3, <1>4, <1>5, <1>6

\* config_generation sends through the designated ports.
LEMMA GenerationTalks ==
    ASSUME NEW s, Valid(s)
    PROVE  Talks(s, stp_config_bpdu_generation(s))
<1> DEFINE D == {t \in StpRec : Talks(s, t)}
<1>1. s \in D
  BY TalksIs DEF Valid, SameRoot, SamePort
<1>2. ASSUME NEW p \in Port, NEW t \in D PROVE generate_config(t, p) \in D
  <2>1. Talks(s, t) /\ Valid(t)
    BY DEF Talks
  <2>2. Talks(t, stp_transmit_config(t, p))
    BY <2>1, TransmitTalks
  <2>3. Talks(s, stp_transmit_config(t, p))
    BY <2>1, <2>2, TalksTwice
  <2>4. stp_transmit_config(t, p) \in D
    BY <2>3 DEF Talks, Valid
  <2> QED BY <2>4 DEF generate_config
<1> HIDE DEF D
<1>3. stp_config_bpdu_generation(s) \in D
  BY <1>1, <1>2, GenerationLoop
<1> QED BY <1>3 DEF D

-----------------------------------------------------------------------------
(* Bridges that have forgotten nothing *)

\* The parts of NothingForgotten; Rooted is what keeps a bridge from becoming root
\* without noticing.
Info(d) == <<d.designated_root, d.designated_cost, d.designated_bridge, d.designated_port>>
Due(d) == d.state # "disabled" => (d.state \in {"listening", "learning"} <=> d.forward_delay_timer # Off)
Delayed(s) == \A p \in Port : Due(s.ports[p])
Aged(s) == \A p \in Enabled(s) : ~stp_is_designated_port(s, p) => s.ports[p].message_age_timer # Off
Candidates(s) == {p \in Enabled(s) : /\ ~stp_is_designated_port(s, p)
                                     /\ s.ports[p].designated_root < s.bridge_id}
Rooted(s) == ~stp_is_root_bridge(s) => Candidates(s) # {}
Greets(s) == stp_is_root_bridge(s) => s.hello_timer # Off
Good(s) == Valid(s) /\ Delayed(s) /\ Aged(s) /\ Rooted(s) /\ Greets(s)

\* A bridge that talks forgets nothing.
LEMMA TalksKeeps ==
    ASSUME NEW s, NEW t, Valid(s), Talks(s, t)
    PROVE  /\ Delayed(s) => Delayed(t)
           /\ Aged(s) => Aged(t)
           /\ Rooted(s) => Rooted(t)
           /\ Greets(s) => Greets(t)
           /\ stp_is_root_bridge(s) <=> stp_is_root_bridge(t)
           /\ Candidates(s) = Candidates(t)
<1>1. /\ SameRoot(s, t) /\ t.hello_timer = s.hello_timer /\ Valid(t)
      /\ \A p \in Port : SamePort(s.ports[p], t.ports[p])
  BY DEF Talks
<1>2. ASSUME NEW p \in Port
      PROVE  stp_is_designated_port(s, p) <=> stp_is_designated_port(t, p)
  BY <1>1 DEF Valid, SameRoot, SamePort, stp_is_designated_port
<1>3. Enabled(t) = Enabled(s)
  BY <1>1 DEF Enabled, SamePort
<1>4. stp_is_root_bridge(s) <=> stp_is_root_bridge(t)
  BY <1>1 DEF SameRoot, stp_is_root_bridge
<1>5. Candidates(s) = Candidates(t)
  BY <1>1, <1>2, <1>3 DEF Candidates, SameRoot, SamePort, Enabled
<1>6. Delayed(s) => Delayed(t)
  BY <1>1 DEF Delayed, Due, SamePort
<1>7. Aged(s) => Aged(t)
  BY <1>1, <1>2, <1>3 DEF Aged, SamePort, Enabled
<1> QED BY <1>1, <1>4, <1>5, <1>6, <1>7 DEF Rooted, Greets

\* The hello timer of a bridge is started.
LEMMA HelloKeeps ==
    ASSUME NEW s, Valid(s), NEW h \in Timer
    PROVE  LET t == [s EXCEPT !.hello_timer = h]
           IN /\ Valid(t) /\ SameRoot(s, t) /\ t.ports = s.ports /\ t.hello_timer = h /\ t.out = s.out
              /\ Delayed(s) => Delayed(t)
              /\ Aged(s) => Aged(t)
              /\ Rooted(s) => Rooted(t)
              /\ stp_is_root_bridge(s) <=> stp_is_root_bridge(t)
              /\ Candidates(s) = Candidates(t)
<1> DEFINE t == [s EXCEPT !.hello_timer = h]
<1>1. s \in StpRec
  BY DEF Valid
<1>2. t \in StpRec /\ SameRoot(s, t) /\ t.ports = s.ports /\ t.hello_timer = h /\ t.out = s.out
  BY <1>1 DEF StpRec, SameRoot
<1> HIDE DEF t
<1>3. Valid(t)
  BY <1>2 DEF Valid, SameRoot
<1>4. Enabled(t) = Enabled(s)
  BY <1>2 DEF Enabled
<1>5. \A p : stp_is_designated_port(s, p) <=> stp_is_designated_port(t, p)
  BY <1>2 DEF stp_is_designated_port, SameRoot
<1>6. stp_is_root_bridge(s) <=> stp_is_root_bridge(t)
  BY <1>2 DEF SameRoot, stp_is_root_bridge
<1>7. Candidates(s) = Candidates(t)
  BY <1>2, <1>4, <1>5 DEF Candidates, SameRoot
<1>8. Aged(s) => Aged(t)
  BY <1>2, <1>4, <1>5 DEF Aged
<1> QED BY <1>2, <1>3, <1>6, <1>7, <1>8 DEF Rooted, Delayed, t

-----------------------------------------------------------------------------
(* Root selection *)

\* The elements of C with the least key.
Least(C, key) == {x \in C : \A y \in C : key[x] <= key[y]}

\* There are some, when the keys are numbers.
LEMMA LeastKey ==
    ASSUME NEW C, C # {}, NEW key, \A x \in C : key[x] \in Nat
    PROVE  Least(C, key) # {}
<1> DEFINE T == {key[x] : x \in C}
<1>1. T \in SUBSET Nat /\ T # {}
  OBVIOUS
<1>2. PICK n \in T : \A m \in T : n <= m
  <2> HIDE DEF T
  <2> QED BY <1>1, LeastNat
<1> QED BY <1>2 DEF Least

\* The order in which ports are compared is an order of tuples of five numbers; every
\* nonempty set has a least tuple.
LEMMA LeastTuple ==
    ASSUME NEW C, C # {}, NEW K, \A x \in C : K[x] \in [1..5 -> Nat]
    PROVE  \E x \in C : \A y \in C : ~Less(K[y], K[x])
<1> DEFINE key(i) == [x \in C |-> K[x][i]]
           C1 == Least(C, key(1))
           C2 == Least(C1, key(2))
           C3 == Least(C2, key(3))
           C4 == Least(C3, key(4))
           C5 == Least(C4, key(5))
<1>1. \A i \in 1..5 : \A x \in C : key(i)[x] = K[x][i] /\ K[x][i] \in Nat
  OBVIOUS
<1> HIDE DEF key
<1>2. C1 \subseteq C /\ C2 \subseteq C1 /\ C3 \subseteq C2 /\ C4 \subseteq C3 /\ C5 \subseteq C4
  BY DEF Least
<1>3. C5 # {}
  <2>1. C1 # {}
    BY <1>1, LeastKey
  <2>2. C2 # {}
    <3> HIDE DEF C1
    <3> QED BY <1>1, <1>2, <2>1, LeastKey
  <2>3. C3 # {}
    <3> HIDE DEF C1, C2
    <3> QED BY <1>1, <1>2, <2>2, LeastKey
  <2>4. C4 # {}
    <3> HIDE DEF C1, C2, C3
    <3> QED BY <1>1, <1>2, <2>3, LeastKey
  <2> HIDE DEF C1, C2, C3, C4
  <2> QED BY <1>1, <1>2, <2>4, LeastKey
<1>4. PICK x \in C5 : TRUE
  BY <1>3
<1>5. ASSUME NEW y \in C, Less(K[y], K[x]) PROVE FALSE
  <2>1. PICK i \in 1..5 : K[y][i] < K[x][i] /\ \A j \in 1..(i - 1) : K[y][j] = K[x][j]
    <3>1. DOMAIN K[y] = 1..5
      OBVIOUS
    <3> QED BY <1>5, <3>1 DEF Less
  <2>2. x \in C /\ x \in C1 /\ x \in C2 /\ x \in C3 /\ x \in C4
    BY <1>2, <1>4
  <2>3. \A j \in 1..5 : K[x][j] \in Nat /\ K[y][j] \in Nat
    BY <1>1, <2>2
  <2>4. ~(K[y][1] < K[x][1]) /\ (K[y][1] = K[x][1] => y \in C1)
    BY <1>1, <2>2, <2>3 DEF Least
  <2>5. y \in C1 => ~(K[y][2] < K[x][2]) /\ (K[y][2] = K[x][2] => y \in C2)
    <3> HIDE DEF C1
    <3> QED BY <1>1, <1>2, <2>2, <2>3 DEF Least
  <2>6. y \in C2 => ~(K[y][3] < K[x][3]) /\ (K[y][3] = K[x][3] => y \in C3)
    <3> HIDE DEF C1, C2
    <3> QED BY <1>1, <1>2, <2>2, <2>3 DEF Least
  <2>7. y \in C3 => ~(K[y][4] < K[x][4]) /\ (K[y][4] = K[x][4] => y \in C4)
    <3> HIDE DEF C1, C2, C3
    <3> QED BY <1>1, <1>2, <2>2, <2>3 DEF Least
  <2>8. y \in C4 => ~(K[y][5] < K[x][5])
    <3> HIDE DEF C1, C2, C3, C4
    <3> QED BY <1>1, <1>2, <1>4, <2>2, <2>3 DEF Least
  <2> HIDE DEF C1, C2, C3, C4, C5
  <2>9. CASE i = 1
    BY <2>1, <2>4, <2>9
  <2>10. CASE i = 2
    <3>1. K[y][1] = K[x][1]
      BY <2>1, <2>10
    <3> QED BY <2>1, <2>4, <2>5, <2>10, <3>1
  <2>11. CASE i = 3
    <3>1. K[y][1] = K[x][1] /\ K[y][2] = K[x][2]
      BY <2>1, <2>11
    <3> QED BY <2>1, <2>4, <2>5, <2>6, <2>11, <3>1
  <2>12. CASE i = 4
    <3>1. K[y][1] = K[x][1] /\ K[y][2] = K[x][2] /\ K[y][3] = K[x][3]
      BY <2>1, <2>12
    <3> QED BY <2>1, <2>4, <2>5, <2>6, <2>7, <2>12, <3>1
  <2>13. CASE i = 5
    <3>1. K[y][1] = K[x][1] /\ K[y][2] = K[x][2] /\ K[y][3] = K[x][3] /\ K[y][4] = K[x][4]
      BY <2>1, <2>13
    <3> QED BY <2>1, <2>4, <2>5, <2>6, <2>7, <2>8, <2>13, <3>1
  <2> QED BY <2>9, <2>10, <2>11, <2>12, <2>13
<1> QED BY <1>2, <1>4, <1>5

\* The root port is a candidate, and what the bridge knows of the root comes from it.
Chosen(s) ==
    IF Candidates(s) = {} THEN s.root_port = NULL /\ stp_is_root_bridge(s)
    ELSE /\ s.root_port \in Candidates(s)
         /\ s.designated_root = s.ports[s.root_port].designated_root
         /\ s.root_path_cost = s.ports[s.root_port].designated_cost + s.ports[s.root_port].path_cost

\* A bridge that has chosen a root port is not the root.
LEMMA ChosenIsRooted ==
    ASSUME NEW s, Valid(s), Chosen(s)
    PROVE  Rooted(s) /\ (stp_is_root_bridge(s) <=> Candidates(s) = {})
<1>1. ASSUME Candidates(s) # {} PROVE ~stp_is_root_bridge(s)
  <2>1. s.root_port \in Candidates(s) /\ s.designated_root = s.ports[s.root_port].designated_root
    BY <1>1 DEF Chosen
  <2>2. s.designated_root < s.bridge_id /\ s.designated_root \in Nat /\ s.bridge_id \in Nat
    BY <2>1 DEF Candidates, Valid, StpRec
  <2> QED BY <2>2 DEF stp_is_root_bridge
<1> QED BY <1>1 DEF Chosen, Rooted

\* root_selection chooses.
LEMMA RootSelectionChooses ==
    ASSUME NEW s, Valid(s)
    PROVE  LET t == stp_root_selection(s)
           IN /\ Valid(t) /\ Chosen(t) /\ t.bridge_id = s.bridge_id /\ t.hello_timer = s.hello_timer
              /\ t.ports = s.ports /\ t.out = s.out /\ Candidates(t) = Candidates(s)
<1> DEFINE C == {p \in Enabled(s) : /\ ~stp_is_designated_port(s, p)
                                    /\ s.ports[p].designated_root < s.bridge_id}
           root == CHOOSE p \in C : \A q \in C : ~stp_supersedes_root(s.ports[p], s.ports[q])
           alone == [s EXCEPT !.root_port = NULL, !.designated_root = s.bridge_id,
                              !.root_path_cost = 0]
           best == [s EXCEPT !.root_port = root,
                             !.designated_root = s.ports[root].designated_root,
                             !.root_path_cost = s.ports[root].designated_cost
                                                  + s.ports[root].path_cost]
<1>1. s \in StpRec /\ C \subseteq Port
  BY DEF Valid, Enabled
<1>2. C = Candidates(s)
  BY DEF Candidates
<1>3. ASSUME C # {} PROVE root \in C
  <2> DEFINE priority(d) == <<d.designated_root, d.designated_cost + d.path_cost,
                              d.designated_bridge, d.designated_port, d.port_id>>
             K == [p \in C |-> priority(s.ports[p])]
  <2>1. ASSUME NEW p \in C PROVE priority(s.ports[p]) \in [1..5 -> Nat]
    <3>1. s.ports[p] \in PortRec
      BY <1>1 DEF StpRec
    <3>2. /\ s.ports[p].designated_root \in Nat /\ s.ports[p].designated_cost \in Nat
          /\ s.ports[p].path_cost \in Nat /\ s.ports[p].designated_bridge \in Nat
          /\ s.ports[p].designated_port \in Port /\ s.ports[p].port_id \in Port
      BY <3>1 DEF PortRec
    <3>3. \A q \in Port : q \in Nat
      BY StpAssumption DEF Port
    <3> QED BY <3>2, <3>3
  <2> HIDE DEF C
  <2>2. PICK p \in C : \A q \in C : ~Less(K[q], K[p])
    <3>1. \A q \in C : K[q] \in [1..5 -> Nat]
      <4> HIDE DEF priority
      <4> QED BY <2>1
    <3> HIDE DEF K
    <3> QED BY <1>3, <3>1, LeastTuple
  <2>3. \A q \in C : ~stp_supersedes_root(s.ports[p], s.ports[q])
    BY <2>2 DEF stp_supersedes_root
  <2> QED BY <2>3
<1>4. stp_root_selection(s) = IF C = {} THEN alone ELSE best
  BY DEF stp_root_selection
<1> HIDE DEF C, root
<1>5. CASE C = {}
  <2>1. /\ alone \in StpRec /\ alone.bridge_id = s.bridge_id /\ alone.hello_timer = s.hello_timer
        /\ alone.ports = s.ports /\ alone.out = s.out
        /\ alone.root_port = NULL /\ alone.designated_root = alone.bridge_id
    BY <1>1 DEF StpRec, NULL
  <2> HIDE DEF alone
  <2>2. Candidates(alone) = Candidates(s)
    BY <2>1 DEF Candidates, Enabled, stp_is_designated_port
  <2> QED BY <1>2, <1>4, <1>5, <2>1, <2>2 DEF Valid, Chosen, stp_is_root_bridge
<1>6. CASE C # {}
  <2>1. root \in Port /\ s.ports[root] \in PortRec
    BY <1>1, <1>3, <1>6 DEF StpRec
  <2>2. s.ports[root].designated_root \in Nat /\ s.ports[root].designated_cost + s.ports[root].path_cost \in Nat
    BY <2>1 DEF PortRec
  <2>3. /\ best \in StpRec /\ best.bridge_id = s.bridge_id /\ best.hello_timer = s.hello_timer
        /\ best.ports = s.ports /\ best.out = s.out
        /\ best.root_port = root /\ best.designated_root = best.ports[root].designated_root
        /\ best.root_path_cost = best.ports[root].designated_cost + best.ports[root].path_cost
    BY <1>1, <2>1, <2>2 DEF StpRec
  <2> HIDE DEF best
  <2>4. Candidates(best) = Candidates(s)
    BY <2>3 DEF Candidates, Enabled, stp_is_designated_port
  <2> QED BY <1>2, <1>3, <1>4, <1>6, <2>3, <2>4 DEF Valid, Chosen
<1> QED BY <1>5, <1>6

-----------------------------------------------------------------------------
(* Designated ports and port states *)

\* What a port is about when the bridge settles: a port whose information changes becomes
\* designated, and a port whose message age stops is designated.
Settled(s, t, p) ==
    LET d == s.ports[p]
        e == t.ports[p]
    IN /\ e.path_cost = d.path_cost
       /\ e.state = "disabled" <=> d.state = "disabled"
       /\ Due(d) => Due(e)
       /\ Info(e) = Info(d) \/ stp_is_designated_port(t, p)
       /\ e.message_age_timer = d.message_age_timer \/ stp_is_designated_port(t, p)
Settles(s, t) == /\ Valid(t) /\ SameRoot(s, t) /\ t.hello_timer = s.hello_timer
                 /\ \A p \in Port : Settled(s, t, p)
                 /\ Chosen(s) => Chosen(t)

\* Settling twice is settling.
LEMMA SettlesTwice ==
    ASSUME NEW s, NEW t, NEW u, Settles(s, t), Settles(t, u)
    PROVE  Settles(s, u)
<1>1. SameRoot(s, u) /\ u.hello_timer = s.hello_timer /\ Valid(t) /\ Valid(u)
  BY DEF Settles, SameRoot
<1>2. ASSUME NEW p \in Port PROVE Settled(s, u, p)
  <2>1. Settled(s, t, p) /\ Settled(t, u, p) /\ SameRoot(t, u)
    BY DEF Settles
  <2>2. stp_is_designated_port(t, p) /\ Info(u.ports[p]) = Info(t.ports[p]) => stp_is_designated_port(u, p)
    BY <1>1, <2>1 DEF stp_is_designated_port, SameRoot, Info, Valid
  <2> HIDE DEF Info, stp_is_designated_port, Due
  <2> QED BY <2>1, <2>2 DEF Settled
<1> QED BY <1>1, <1>2 DEF Settles

\* A bridge that settles forgets nothing.
LEMMA SettlesKeeps ==
    ASSUME NEW s, NEW t, Valid(s), Settles(s, t)
    PROVE  /\ Delayed(s) => Delayed(t)
           /\ Aged(s) => Aged(t)
<1>1. SameRoot(s, t) /\ Valid(t) /\ \A p \in Port : Settled(s, t, p)
  BY DEF Settles
<1>2. Delayed(s) => Delayed(t)
  BY <1>1 DEF Delayed, Settled
<1>3. ASSUME Aged(s), NEW p \in Enabled(t), ~stp_is_designated_port(t, p)
      PROVE  t.ports[p].message_age_timer # Off
  <2>1. p \in Port /\ p \in Enabled(s)
    BY <1>1, <1>3 DEF Enabled, Settled
  <2>2. Info(t.ports[p]) = Info(s.ports[p]) /\ t.ports[p].message_age_timer = s.ports[p].message_age_timer
    BY <1>1, <1>3, <2>1 DEF Settled
  <2>3. ~stp_is_designated_port(s, p)
    BY <1>1, <1>3, <2>1, <2>2 DEF stp_is_designated_port, Valid, SameRoot, Info
  <2> QED BY <1>3, <2>1, <2>2, <2>3 DEF Aged
<1> QED BY <1>2, <1>3 DEF Aged

\* A bridge that settles without new information has the same candidates for the root port.
LEMMA SameCandidates ==
    ASSUME NEW s, NEW t, Valid(s), Valid(t), SameRoot(s, t),
           \A p \in Port : /\ t.ports[p].state = "disabled" <=> s.ports[p].state = "disabled"
                           /\ Info(t.ports[p]) = Info(s.ports[p])
                           /\ t.ports[p].path_cost = s.ports[p].path_cost
    PROVE  Candidates(s) = Candidates(t) /\ (Chosen(s) => Chosen(t))
<1>1. \A p \in Port : stp_is_designated_port(s, p) <=> stp_is_designated_port(t, p)
  BY DEF stp_is_designated_port, Valid, SameRoot, Info
<1>2. Enabled(s) = Enabled(t)
  BY DEF Enabled
<1>3. Candidates(s) = Candidates(t)
  BY <1>1, <1>2 DEF Candidates, Enabled, SameRoot, Info
<1>4. ASSUME Chosen(s) PROVE Chosen(t)
  <2>1. CASE Candidates(s) = {}
    BY <1>3, <1>4, <2>1 DEF Chosen, SameRoot, stp_is_root_bridge
  <2>2. CASE Candidates(s) # {}
    <3>1. s.root_port \in Port
      BY <1>4, <2>2 DEF Chosen, Candidates, Enabled
    <3> QED BY <1>3, <1>4, <2>2, <3>1 DEF Chosen, SameRoot, Info
  <2> QED BY <2>1, <2>2
<1> QED BY <1>3, <1>4

\* A bridge that talks settles.
LEMMA TalksSettles ==
    ASSUME NEW s, NEW t, Valid(s), Talks(s, t)
    PROVE  Settles(s, t) /\ Candidates(s) = Candidates(t)
<1>1. Valid(t) /\ SameRoot(s, t) /\ t.hello_timer = s.hello_timer /\ \A p \in Port : SamePort(s.ports[p], t.ports[p])
  BY DEF Talks
<1>2. Candidates(s) = Candidates(t) /\ (Chosen(s) => Chosen(t))
  BY <1>1, SameCandidates DEF SamePort, Info
<1> QED BY <1>1, <1>2 DEF Settles, Settled, SamePort, Info, Due

\* become_designated_port writes the information of one port.
LEMMA BecomeDesignated ==
    ASSUME NEW s, Valid(s), NEW p \in Port
    PROVE  LET t == stp_become_designated_port(s, p)
               e == [s.ports[p] EXCEPT !.designated_root = s.designated_root,
                                       !.designated_cost = s.root_path_cost,
                                       !.designated_bridge = s.bridge_id,
                                       !.designated_port = s.ports[p].port_id]
           IN t = PutPort(s, p, e) /\ Valid(t) /\ e \in PortRec /\ stp_is_designated_port(t, p)
<1> DEFINE e == [s.ports[p] EXCEPT !.designated_root = s.designated_root,
                                   !.designated_cost = s.root_path_cost,
                                   !.designated_bridge = s.bridge_id,
                                   !.designated_port = s.ports[p].port_id]
           t == stp_become_designated_port(s, p)
<1>1. s \in StpRec /\ s.ports[p] \in PortRec
  BY DEF Valid, StpRec
<1>2. s.designated_root \in Nat /\ s.root_path_cost \in Nat /\ s.bridge_id \in Nat
  BY <1>1 DEF StpRec
<1>3. e \in PortRec /\ e.designated_bridge = s.bridge_id /\ e.designated_port = e.port_id /\ e.port_id = s.ports[p].port_id
  BY <1>1, <1>2 DEF PortRec
<1>4. t = PutPort(s, p, e)
  BY <1>1 DEF StpRec, PutPort, stp_become_designated_port
<1> HIDE DEF e, t
<1>5. /\ t \in StpRec /\ t.ports[p] = e
      /\ \A q \in Port \ {p} : t.ports[q] = s.ports[q]
      /\ SameRoot(s, t) /\ t.hello_timer = s.hello_timer /\ t.out = s.out
  BY <1>1, <1>3, <1>4, PortWrite
<1>6. Valid(t) /\ stp_is_designated_port(t, p)
  BY <1>3, <1>5 DEF Valid, SameRoot, stp_is_designated_port
<1> QED BY <1>3, <1>4, <1>6 DEF e, t

\* designated_port_selection leaves the root port as it is.
LEMMA SelectDesignatedSettles ==
    ASSUME NEW s, Valid(s), NEW p \in Enabled(s), Chosen(s)
    PROVE  Settles(s, select_designated_port(s, p))
<1> DEFINE e == [s.ports[p] EXCEPT !.designated_root = s.designated_root,
                                   !.designated_cost = s.root_path_cost,
                                   !.designated_bridge = s.bridge_id,
                                   !.designated_port = s.ports[p].port_id]
           t == stp_become_designated_port(s, p)
<1>1. p \in Port /\ s \in StpRec /\ s.ports[p] \in PortRec
  BY DEF Enabled, Valid, StpRec
<1>2. Settles(s, s)
  BY DEF Settles, Settled, SameRoot
<1>3. t = PutPort(s, p, e) /\ Valid(t) /\ e \in PortRec /\ stp_is_designated_port(t, p)
  BY <1>1, BecomeDesignated
<1>4. /\ e.path_cost = s.ports[p].path_cost /\ e.state = s.ports[p].state
      /\ e.message_age_timer = s.ports[p].message_age_timer
      /\ e.forward_delay_timer = s.ports[p].forward_delay_timer
  BY <1>1 DEF PortRec
<1> HIDE DEF e, t
<1>5. /\ t.ports[p] = e
      /\ \A q \in Port \ {p} : t.ports[q] = s.ports[q]
      /\ SameRoot(s, t) /\ t.hello_timer = s.hello_timer
  BY <1>1, <1>3, PortWrite
<1>6. \A q \in Port : Settled(s, t, q)
  BY <1>3, <1>4, <1>5 DEF Settled, Due
<1>7. ASSUME select_designated_port(s, p) # s, select_designated_port(s, p) = t
      PROVE  Chosen(t)
  <2>1. \A q \in Port \ {p} : stp_is_designated_port(t, q) <=> stp_is_designated_port(s, q)
    BY <1>5 DEF stp_is_designated_port, SameRoot
  <2>2. Enabled(t) = Enabled(s)
    BY <1>4, <1>5 DEF Enabled
  <2>3. Candidates(t) = Candidates(s) \ {p}
    BY <1>3, <1>5, <2>1, <2>2 DEF Candidates, Enabled, SameRoot
  <2>4. CASE Candidates(s) = {}
    BY <1>5, <2>3, <2>4 DEF Chosen, SameRoot, stp_is_root_bridge
  <2>5. CASE Candidates(s) # {}
    <3>1. /\ s.root_port \in Candidates(s) /\ s.root_port \in Port
          /\ s.designated_root = s.ports[s.root_port].designated_root
          /\ s.root_path_cost = s.ports[s.root_port].designated_cost + s.ports[s.root_port].path_cost
      BY <2>5 DEF Chosen, Candidates, Enabled
    <3>2. s.root_port # p
      <4>1. SUFFICES ASSUME s.root_port = p PROVE FALSE
        OBVIOUS
      <4>2. /\ s.ports[p].designated_cost \in Nat /\ s.ports[p].path_cost \in Nat \ {0}
        BY <1>1 DEF PortRec
      <4>3. ~(s.root_path_cost < s.ports[p].designated_cost) /\ s.root_path_cost # s.ports[p].designated_cost
        BY <3>1, <4>1, <4>2
      <4>4. ~stp_is_designated_port(s, p) /\ s.ports[p].designated_root = s.designated_root
        BY <3>1, <4>1 DEF Candidates
      <4> QED BY <1>7, <4>3, <4>4 DEF select_designated_port
    <3>3. s.root_port \in Candidates(t) /\ t.root_port = s.root_port /\ t.ports[s.root_port] = s.ports[s.root_port]
      BY <1>5, <2>3, <3>1, <3>2 DEF SameRoot
    <3> QED BY <1>5, <3>1, <3>3 DEF Chosen, SameRoot
  <2> QED BY <2>4, <2>5
<1>8. select_designated_port(s, p) \in {s, t}
  BY DEF select_designated_port, t
<1> QED BY <1>2, <1>3, <1>5, <1>6, <1>7, <1>8 DEF Settles

\* designated_port_selection settles.
LEMMA DesignatedSettles ==
    ASSUME NEW s, Valid(s), Chosen(s)
    PROVE  Settles(s, stp_designated_port_selection(s))
<1> DEFINE D == {t \in StpRec : Settles(s, t)}
<1>1. s \in D
  BY DEF Valid, Settles, Settled, SameRoot
<1>2. ASSUME NEW p \in Port, NEW t \in D, p \in Enabled(t) PROVE select_designated_port(t, p) \in D
  <2>1. Settles(s, t) /\ Valid(t) /\ Chosen(t)
    BY DEF Settles
  <2>2. Settles(t, select_designated_port(t, p))
    BY <1>2, <2>1, SelectDesignatedSettles
  <2>3. Settles(s, select_designated_port(t, p))
    BY <2>1, <2>2, SettlesTwice
  <2> QED BY <2>3 DEF Settles, Valid
<1> HIDE DEF D
<1>3. stp_designated_port_selection(s) \in D
  BY <1>1, <1>2, DesignatedLoop
<1> QED BY <1>3 DEF D

\* The first changed port stays a number.
LEMMA MinOfTwo ==
    ASSUME NEW m \in Nat, NEW n \in Nat
    PROVE  Min({m, n}) \in Nat
<1>1. \E x \in {m, n} : \A y \in {m, n} : x <= y
  OBVIOUS
<1> QED BY <1>1 DEF Min

\* A port gets another state and another delay.
Moves(s, t, p, state, delay) ==
    /\ Valid(t) /\ SameRoot(s, t) /\ t.hello_timer = s.hello_timer
    /\ \A q \in Port \ {p} : SamePort(s.ports[q], t.ports[q])
    /\ SamePort([s.ports[p] EXCEPT !.state = state, !.forward_delay_timer = delay], t.ports[p])

\* set_port_state changes the state of one port.
LEMMA SetPortStateMoves ==
    ASSUME NEW s, Valid(s), NEW p \in Port, NEW state \in State
    PROVE  Moves(s, stp_set_port_state(s, p, state), p, state, s.ports[p].forward_delay_timer)
<1> DEFINE new == state # s.ports[p].state /\ ~s.ports[p].state_changed
           d == [s.ports[p] EXCEPT !.state = state, !.state_changed = @ \/ new]
           first == IF new THEN Min({s.first_changed_port, p}) ELSE s.first_changed_port
           u == PutPort(s, p, d)
           t == [u EXCEPT !.first_changed_port = first]
<1>1. s \in StpRec /\ s.ports[p] \in PortRec /\ s.first_changed_port \in Nat /\ p \in Nat
  BY StpAssumption DEF Valid, StpRec, Port
<1>2. first \in Nat
  BY <1>1, MinOfTwo
<1>3. s.ports[p].state_changed \in BOOLEAN /\ (s.ports[p].state_changed \/ new) \in BOOLEAN
  BY <1>1 DEF PortRec
<1> HIDE DEF first, new
<1>4. /\ d \in PortRec /\ d.port_id = s.ports[p].port_id
      /\ SamePort([s.ports[p] EXCEPT !.state = state,
                                     !.forward_delay_timer = s.ports[p].forward_delay_timer], d)
  BY <1>1, <1>3 DEF PortRec, SamePort
<1>5. stp_set_port_state(s, p, state) = t
  BY <1>1 DEF stp_set_port_state, StpRec, PutPort, new, first
<1> HIDE DEF d
<1>6. /\ u \in StpRec /\ u.ports[p] = d
      /\ \A q \in Port \ {p} : u.ports[q] = s.ports[q]
      /\ SameRoot(s, u) /\ u.hello_timer = s.hello_timer /\ u.out = s.out
  BY <1>1, <1>4, PortWrite
<1> HIDE DEF u
<1>7. /\ t \in StpRec /\ t.ports = u.ports /\ SameRoot(u, t) /\ t.hello_timer = u.hello_timer /\ t.out = u.out
  BY <1>2, <1>6 DEF StpRec, SameRoot
<1> HIDE DEF t
<1>8. Valid(t)
  BY <1>4, <1>6, <1>7 DEF Valid, SameRoot
<1> QED BY <1>4, <1>5, <1>6, <1>7, <1>8 DEF Moves, SameRoot, SamePort

\* The forward delay timer of a port that has changed its state.
LEMMA DelayMoves ==
    ASSUME NEW s, Valid(s), NEW p \in Port, NEW state \in State, NEW delay \in Timer
    PROVE  Moves(s, [stp_set_port_state(s, p, state) EXCEPT !.ports[p].forward_delay_timer = delay],
                 p, state, delay)
<1> DEFINE u == stp_set_port_state(s, p, state)
           d == [u.ports[p] EXCEPT !.forward_delay_timer = delay]
           t == [u EXCEPT !.ports[p].forward_delay_timer = delay]
<1>1. Moves(s, u, p, state, s.ports[p].forward_delay_timer)
  BY SetPortStateMoves
<1> HIDE DEF u
<1>2. Valid(u) /\ u \in StpRec /\ u.ports[p] \in PortRec /\ s.ports[p] \in PortRec
  BY <1>1 DEF Moves, Valid, StpRec
<1>3. t = PutPort(u, p, d)
  BY <1>2 DEF PutPort, StpRec
<1>4. d \in PortRec /\ d.port_id = u.ports[p].port_id
  BY <1>2 DEF PortRec
<1>5. SamePort([s.ports[p] EXCEPT !.state = state, !.forward_delay_timer = s.ports[p].forward_delay_timer], u.ports[p])
  BY <1>1 DEF Moves
<1>6. SamePort([s.ports[p] EXCEPT !.state = state, !.forward_delay_timer = delay], d)
  BY <1>2, <1>5 DEF SamePort, PortRec
<1> HIDE DEF d, t
<1>7. /\ t \in StpRec /\ t.ports[p] = d
      /\ \A q \in Port \ {p} : t.ports[q] = u.ports[q]
      /\ SameRoot(u, t) /\ t.hello_timer = u.hello_timer /\ t.out = u.out
  BY <1>2, <1>3, <1>4, PortWrite
<1>8. Valid(t)
  BY <1>2, <1>4, <1>7 DEF Valid, SameRoot
<1>9. Moves(s, t, p, state, delay)
  BY <1>1, <1>6, <1>7, <1>8 DEF Moves, SameRoot
<1> QED BY <1>9 DEF t, u

\* A move of a port that leaves it with the delay that its state requires settles, without
\* new information.
LEMMA MovesSettles ==
    ASSUME NEW s, Valid(s), NEW t, NEW p \in Port, NEW state \in State, NEW delay \in Timer,
           Moves(s, t, p, state, delay), state # "disabled", s.ports[p].state # "disabled",
           state \in {"listening", "learning"} <=> delay # Off
    PROVE  Settles(s, t) /\ Candidates(s) = Candidates(t)
<1>1. s.ports[p] \in PortRec
  BY DEF Valid, StpRec
<1>2. /\ Valid(t) /\ SameRoot(s, t) /\ t.hello_timer = s.hello_timer
      /\ \A q \in Port \ {p} : SamePort(s.ports[q], t.ports[q])
      /\ SamePort([s.ports[p] EXCEPT !.state = state, !.forward_delay_timer = delay], t.ports[p])
  BY DEF Moves
<1>3. /\ t.ports[p].state = state /\ t.ports[p].forward_delay_timer = delay
      /\ Info(t.ports[p]) = Info(s.ports[p]) /\ t.ports[p].path_cost = s.ports[p].path_cost
      /\ t.ports[p].message_age_timer = s.ports[p].message_age_timer
  BY <1>1, <1>2 DEF SamePort, PortRec, Info
<1>4. \A q \in Port : Settled(s, t, q)
  <2>1. \A q \in Port \ {p} : Settled(s, t, q)
    BY <1>2 DEF Settled, SamePort, Info, Due
  <2>2. Settled(s, t, p)
    BY <1>3 DEF Settled, Due
  <2> QED BY <2>1, <2>2
<1>5. \A q \in Port : /\ t.ports[q].state = "disabled" <=> s.ports[q].state = "disabled"
                      /\ Info(t.ports[q]) = Info(s.ports[q])
                      /\ t.ports[q].path_cost = s.ports[q].path_cost
  <2>1. \A q \in Port \ {p} : Info(t.ports[q]) = Info(s.ports[q])
    BY <1>2 DEF SamePort, Info
  <2> QED BY <1>2, <1>3, <2>1 DEF SamePort
<1>6. Candidates(s) = Candidates(t) /\ (Chosen(s) => Chosen(t))
  BY <1>2, <1>5, SameCandidates
<1> QED BY <1>2, <1>4, <1>6 DEF Settles

\* What settles without new information.
Calm(s, t) == Settles(s, t) /\ Candidates(s) = Candidates(t)


\* Calm functions compose.
LEMMA CalmTwice ==
    ASSUME NEW s, NEW t, NEW u, Calm(s, t), Calm(t, u)
    PROVE  Calm(s, u)
  BY SettlesTwice DEF Calm

\* Doing nothing is calm.
LEMMA CalmSelf ==
    ASSUME NEW s, Valid(s)
    PROVE  Calm(s, s)
  BY DEF Calm, Settles, Settled, SameRoot

\* A port that may forward starts to listen.
LEMMA MakeForwardingSettles ==
    ASSUME NEW s, Valid(s), NEW p \in Port
    PROVE  Calm(s, stp_make_forwarding(s, p))
<1> DEFINE t == [stp_set_port_state(s, p, "listening") EXCEPT !.ports[p].forward_delay_timer = 0]
<1>1. 0 \in Timer /\ 0 # Off /\ "listening" \in State
  BY DEF Timer, Off, State
<1>2. Moves(s, t, p, "listening", 0)
  BY <1>1, DelayMoves
<1> HIDE DEF t
<1>3. s.ports[p].state = "blocking" => Calm(s, t)
  BY <1>1, <1>2, MovesSettles DEF Calm
<1> QED BY <1>3, CalmSelf DEF stp_make_forwarding, t

\* A port that must not forward is blocked, and a port that has forwarded counts as a change.
LEMMA MakeBlockingSettles ==
    ASSUME NEW s, Valid(s), NEW p \in Port
    PROVE  Calm(s, stp_make_blocking(s, p))
<1> DEFINE t == IF s.ports[p].state \in {"forwarding", "learning"}
                THEN stp_topology_change_detection(s) ELSE s
           u == [stp_set_port_state(t, p, "blocking") EXCEPT !.ports[p].forward_delay_timer = Off]
<1>1. Off \in Timer /\ "blocking" \in State
  BY DEF Timer, State
<1>2. Calm(s, t) /\ Valid(t)
  BY DetectionTalks, TalksSettles, CalmSelf DEF Calm, Settles
<1>3. t.ports[p].state = "disabled" <=> s.ports[p].state = "disabled"
  BY <1>2 DEF Calm, Settles, Settled
<1> HIDE DEF t
<1>4. Moves(t, u, p, "blocking", Off)
  BY <1>1, <1>2, DelayMoves
<1> HIDE DEF u
<1>5. s.ports[p].state # "disabled" => Calm(s, u)
  BY <1>1, <1>2, <1>3, <1>4, MovesSettles, CalmTwice DEF Calm
<1>6. stp_make_blocking(s, p) = IF s.ports[p].state \in {"disabled", "blocking"} THEN s ELSE u
  BY DEF stp_make_blocking, t, u
<1> QED BY <1>5, <1>6, CalmSelf

\* The notes of a port are forgotten.
LEMMA QuietTalks ==
    ASSUME NEW s, Valid(s), NEW p \in Port
    PROVE  Talks(s, [s EXCEPT !.ports[p].config_pending = FALSE,
                              !.ports[p].topology_change_ack = FALSE])
<1> DEFINE d == [s.ports[p] EXCEPT !.config_pending = FALSE, !.topology_change_ack = FALSE]
<1>1. s \in StpRec /\ s.ports[p] \in PortRec
  BY DEF Valid, StpRec
<1>2. d \in PortRec /\ SamePort(s.ports[p], d) /\ d.port_id = s.ports[p].port_id
  BY <1>1 DEF PortRec, SamePort
<1>3. [s EXCEPT !.ports[p].config_pending = FALSE, !.ports[p].topology_change_ack = FALSE]
        = PutPort(s, p, d)
  BY <1>1 DEF PutPort, StpRec
<1>4. Talks(s, PutPort(s, p, d))
  <2> HIDE DEF d
  <2> QED BY <1>2, PortTalks
<1> QED BY <1>3, <1>4

\* A timer of a port is written.
LEMMA MessageAgeWritten ==
    ASSUME NEW s, Valid(s), NEW p \in Port, NEW age \in Timer
    PROVE  LET t == [s EXCEPT !.ports[p].message_age_timer = age]
           IN /\ Valid(t) /\ SameRoot(s, t) /\ t.hello_timer = s.hello_timer
              /\ \A q \in Port \ {p} : t.ports[q] = s.ports[q]
              /\ t.ports[p] = [s.ports[p] EXCEPT !.message_age_timer = age]
              /\ t.ports[p].state = s.ports[p].state /\ Info(t.ports[p]) = Info(s.ports[p])
              /\ t.ports[p].path_cost = s.ports[p].path_cost
              /\ t.ports[p].forward_delay_timer = s.ports[p].forward_delay_timer
              /\ t.ports[p].message_age_timer = age
              /\ Candidates(s) = Candidates(t)
              /\ Chosen(s) => Chosen(t)
<1> DEFINE d == [s.ports[p] EXCEPT !.message_age_timer = age]
           t == [s EXCEPT !.ports[p].message_age_timer = age]
<1>1. s \in StpRec /\ s.ports[p] \in PortRec
  BY DEF Valid, StpRec
<1>2. /\ d \in PortRec /\ d.port_id = s.ports[p].port_id
      /\ d.state = s.ports[p].state /\ Info(d) = Info(s.ports[p])
      /\ d.path_cost = s.ports[p].path_cost
      /\ d.forward_delay_timer = s.ports[p].forward_delay_timer
      /\ d.message_age_timer = age
  BY <1>1 DEF PortRec, Info
<1>3. t = PutPort(s, p, d)
  BY <1>1 DEF PutPort, StpRec
<1> HIDE DEF t
<1>4. /\ t \in StpRec /\ t.ports[p] = d
      /\ \A q \in Port \ {p} : t.ports[q] = s.ports[q]
      /\ SameRoot(s, t) /\ t.hello_timer = s.hello_timer /\ t.out = s.out
  <2> HIDE DEF d
  <2> QED BY <1>1, <1>2, <1>3, PortWrite
<1>5. Valid(t)
  <2> HIDE DEF d
  <2> QED BY <1>2, <1>4 DEF Valid, SameRoot
<1>6. Candidates(s) = Candidates(t) /\ (Chosen(s) => Chosen(t))
  <2> HIDE DEF d
  <2>1. \A q \in Port : /\ t.ports[q].state = "disabled" <=> s.ports[q].state = "disabled"
                        /\ Info(t.ports[q]) = Info(s.ports[q])
                        /\ t.ports[q].path_cost = s.ports[q].path_cost
    BY <1>2, <1>4 DEF Info
  <2> QED BY <1>4, <1>5, <2>1, SameCandidates
<1> QED BY <1>2, <1>4, <1>5, <1>6 DEF t

\* select_port_state settles one port.
LEMMA SelectStateSettles ==
    ASSUME NEW s, Valid(s), NEW p \in Port
    PROVE  Calm(s, select_port_state(s, p))
<1> DEFINE quiet == [s EXCEPT !.ports[p].config_pending = FALSE,
                              !.ports[p].topology_change_ack = FALSE]
           idle == [s EXCEPT !.ports[p].message_age_timer = Off]
<1>1. Calm(s, quiet) /\ Valid(quiet)
  BY QuietTalks, TalksSettles DEF Calm, Settles
<1>2. ASSUME stp_is_designated_port(s, p) PROVE Calm(s, idle) /\ Valid(idle)
  <2>1. Off \in Timer
    BY DEF Timer
  <2>2. /\ Valid(idle) /\ SameRoot(s, idle) /\ idle.hello_timer = s.hello_timer
        /\ \A q \in Port \ {p} : idle.ports[q] = s.ports[q]
        /\ idle.ports[p].state = s.ports[p].state /\ Info(idle.ports[p]) = Info(s.ports[p])
        /\ idle.ports[p].path_cost = s.ports[p].path_cost
        /\ idle.ports[p].forward_delay_timer = s.ports[p].forward_delay_timer
        /\ Candidates(s) = Candidates(idle)
        /\ Chosen(s) => Chosen(idle)
    BY <2>1, MessageAgeWritten
  <2> HIDE DEF idle
  <2>3. stp_is_designated_port(idle, p)
    BY <1>2, <2>2 DEF stp_is_designated_port, Valid, SameRoot, Info
  <2>4. \A q \in Port : Settled(s, idle, q)
    BY <2>2, <2>3 DEF Settled, Due
  <2> QED BY <2>2, <2>4 DEF Calm, Settles
<1>3. select_port_state(s, p) =
        IF p = s.root_port THEN stp_make_forwarding(quiet, p)
        ELSE IF stp_is_designated_port(s, p) THEN stp_make_forwarding(idle, p)
        ELSE stp_make_blocking(quiet, p)
  BY DEF select_port_state
<1> HIDE DEF quiet, idle
<1>4. Calm(quiet, stp_make_forwarding(quiet, p)) /\ Calm(quiet, stp_make_blocking(quiet, p))
  BY <1>1, MakeForwardingSettles, MakeBlockingSettles
<1>5. stp_is_designated_port(s, p) => Calm(idle, stp_make_forwarding(idle, p))
  BY <1>2, MakeForwardingSettles
<1> QED BY <1>1, <1>2, <1>3, <1>4, <1>5, CalmTwice

\* state_selection settles the ports.
LEMMA StateSelectionSettles ==
    ASSUME NEW s, Valid(s)
    PROVE  Calm(s, stp_port_state_selection(s))
<1> DEFINE D == {t \in StpRec : Calm(s, t)}
<1>1. s \in D
  BY CalmSelf DEF Valid
<1>2. ASSUME NEW p \in Port, NEW t \in D, p \in Enabled(t) PROVE select_port_state(t, p) \in D
  <2>1. Calm(s, t) /\ Valid(t)
    BY DEF Calm, Settles
  <2>2. Calm(s, select_port_state(t, p))
    BY <2>1, SelectStateSettles, CalmTwice
  <2> QED BY <2>2 DEF Calm, Settles, Valid
<1> HIDE DEF D
<1>3. stp_port_state_selection(s) \in D
  BY <1>1, <1>2, StateLoop
<1> QED BY <1>3 DEF D

\* A new selection of the root port, the designated ports and the states forgets
\* nothing, and a bridge with a candidate for the root port does not become root.
LEMMA SelectionKeeps ==
    ASSUME NEW s, Valid(s), Delayed(s), Aged(s)
    PROVE  LET t == stp_port_state_selection(stp_configuration_update(s))
           IN /\ Valid(t) /\ Delayed(t) /\ Aged(t) /\ Rooted(t)
              /\ t.bridge_id = s.bridge_id /\ t.hello_timer = s.hello_timer
              /\ Candidates(s) # {} => ~stp_is_root_bridge(t)
<1> DEFINE r == stp_root_selection(s)
           u == stp_designated_port_selection(r)
           t == stp_port_state_selection(u)
<1>1. /\ Valid(r) /\ Chosen(r) /\ r.bridge_id = s.bridge_id /\ r.hello_timer = s.hello_timer
      /\ r.ports = s.ports /\ Candidates(r) = Candidates(s)
  BY RootSelectionChooses
<1> HIDE DEF r
<1>2. Delayed(r) /\ Aged(r)
  BY <1>1 DEF Delayed, Aged, Enabled, stp_is_designated_port
<1>3. Settles(r, u) /\ Valid(u)
  BY <1>1, DesignatedSettles DEF Settles
<1> HIDE DEF u
<1>4. Settles(u, t)
  BY <1>3, StateSelectionSettles DEF Calm
<1> HIDE DEF t
<1>5. Settles(r, t) /\ Valid(t) /\ Chosen(t) /\ SameRoot(r, t) /\ t.hello_timer = r.hello_timer
  BY <1>1, <1>3, <1>4, SettlesTwice DEF Settles
<1>6. Delayed(t) /\ Aged(t) /\ Rooted(t)
  BY <1>1, <1>2, <1>5, SettlesKeeps, ChosenIsRooted
<1>7. stp_is_root_bridge(t) <=> Candidates(s) = {}
  <2>1. stp_is_root_bridge(r) <=> Candidates(r) = {}
    BY <1>1, ChosenIsRooted
  <2> QED BY <1>1, <1>5, <2>1 DEF SameRoot, stp_is_root_bridge
<1> QED BY <1>1, <1>5, <1>6, <1>7 DEF stp_configuration_update, r, u, t, SameRoot

\* A bridge that becomes root says hello.
LEMMA BecomeRootKeeps ==
    ASSUME NEW s, Valid(s), Delayed(s), Aged(s), Rooted(s)
    PROVE  Good(stp_become_root_bridge(s)) /\ stp_become_root_bridge(s).bridge_id = s.bridge_id
<1> DEFINE c == stp_topology_change_detection(s)
           d == [c EXCEPT !.tcn_timer = Off]
           g == stp_config_bpdu_generation(d)
<1>1. Talks(s, c) /\ Valid(c)
  BY DetectionTalks DEF Talks
<1> HIDE DEF c
<1>2. Talks(c, d)
  <2>1. /\ c.topology_change_detected \in BOOLEAN /\ c.topology_change \in BOOLEAN
        /\ c.topology_change_timer \in Timer /\ Off \in Timer
        /\ d = [c EXCEPT !.topology_change_detected = c.topology_change_detected,
                         !.topology_change = c.topology_change, !.tcn_timer = Off,
                         !.topology_change_timer = c.topology_change_timer]
    BY <1>1 DEF Valid, StpRec, Timer
  <2>2. Talks(c, [c EXCEPT !.topology_change_detected = c.topology_change_detected,
                           !.topology_change = c.topology_change, !.tcn_timer = Off,
                           !.topology_change_timer = c.topology_change_timer])
    BY <1>1, <2>1, NoteTalks
  <2> QED BY <2>1, <2>2
<1> HIDE DEF d
<1>3. Talks(d, g)
  BY <1>2, GenerationTalks DEF Talks
<1>4. stp_become_root_bridge(s) = [g EXCEPT !.hello_timer = 0]
  BY DEF stp_become_root_bridge, c, d
<1> HIDE DEF g
<1>5. Talks(s, g) /\ Valid(g) /\ g.bridge_id = s.bridge_id
  BY <1>1, <1>2, <1>3, TalksTwice DEF Talks, SameRoot
<1>6. Delayed(g) /\ Aged(g) /\ Rooted(g)
  BY <1>5, TalksKeeps
<1> DEFINE h == [g EXCEPT !.hello_timer = 0]
<1>7. 0 \in Timer /\ 0 # Off
  BY DEF Timer, Off
<1>8. Valid(h) /\ SameRoot(g, h) /\ h.hello_timer = 0 /\ Delayed(h) /\ Aged(h) /\ Rooted(h)
  BY <1>5, <1>6, <1>7, HelloKeeps
<1> HIDE DEF h
<1> QED BY <1>4, <1>5, <1>7, <1>8 DEF Good, Greets, SameRoot, h

\* What follows a change of what the bridge knows leaves nothing forgotten.
LEMMA ReconsiderKeeps ==
    ASSUME NEW s, NEW changed, Valid(changed), Delayed(changed), Aged(changed),
           stp_is_root_bridge(s) => changed.hello_timer # Off
    PROVE  Good(Reconsider(s, changed)) /\ Reconsider(s, changed).bridge_id = changed.bridge_id
<1> DEFINE t == stp_port_state_selection(stp_configuration_update(changed))
<1>1. /\ Valid(t) /\ Delayed(t) /\ Aged(t) /\ Rooted(t)
      /\ t.bridge_id = changed.bridge_id /\ t.hello_timer = changed.hello_timer
  BY SelectionKeeps
<1>2. Reconsider(s, changed) = IF stp_is_root_bridge(t) /\ ~stp_is_root_bridge(s)
                               THEN stp_become_root_bridge(t) ELSE t
  BY DEF Reconsider
<1> HIDE DEF t
<1>3. Good(stp_become_root_bridge(t)) /\ stp_become_root_bridge(t).bridge_id = t.bridge_id
  BY <1>1, BecomeRootKeeps
<1>4. ~(stp_is_root_bridge(t) /\ ~stp_is_root_bridge(s)) => Good(t)
  BY <1>1 DEF Good, Greets
<1> QED BY <1>1, <1>2, <1>3, <1>4

-----------------------------------------------------------------------------
(* Handlers that write one port *)

\* The rest of the bridge does not change.
LEMMA PutKeeps ==
    ASSUME NEW s, Valid(s), NEW p \in Port, NEW d \in PortRec, d.port_id = s.ports[p].port_id
    PROVE  LET t == PutPort(s, p, d)
           IN /\ Valid(t) /\ SameRoot(s, t) /\ t.hello_timer = s.hello_timer /\ t.out = s.out
              /\ t.ports[p] = d /\ \A q \in Port \ {p} : t.ports[q] = s.ports[q]
              /\ (\A q \in Port \ {p} : Due(s.ports[q])) /\ Due(d) => Delayed(t)
              /\ stp_is_root_bridge(s) <=> stp_is_root_bridge(t)
<1> DEFINE t == PutPort(s, p, d)
<1>1. s \in StpRec
  BY DEF Valid
<1>2. /\ t \in StpRec /\ t.ports[p] = d
      /\ \A q \in Port \ {p} : t.ports[q] = s.ports[q]
      /\ SameRoot(s, t) /\ t.hello_timer = s.hello_timer /\ t.out = s.out
  BY <1>1, PortWrite
<1> HIDE DEF t
<1>3. Valid(t)
  BY <1>2 DEF Valid, SameRoot
<1>4. (\A q \in Port \ {p} : Due(s.ports[q])) /\ Due(d) => Delayed(t)
  BY <1>2 DEF Delayed
<1> QED BY <1>2, <1>3, <1>4 DEF t, SameRoot, stp_is_root_bridge

\* A port whose information stays has to age as before.
LEMMA PutSameInfo ==
    ASSUME NEW s, Valid(s), NEW p \in Port, NEW d \in PortRec, d.port_id = s.ports[p].port_id,
           Info(d) = Info(s.ports[p]), d.state = "disabled" <=> s.ports[p].state = "disabled"
    PROVE  LET t == PutPort(s, p, d)
           IN /\ Candidates(s) = Candidates(t)
              /\ \/ stp_is_designated_port(s, p) 
                 \/ d.state = "disabled"
                 \/ d.message_age_timer # Off
                 => (Aged(s) => Aged(t))
<1> DEFINE t == PutPort(s, p, d)
<1>1. /\ Valid(t) /\ SameRoot(s, t)
      /\ t.ports[p] = d /\ \A q \in Port \ {p} : t.ports[q] = s.ports[q]
  BY PutKeeps
<1> HIDE DEF t
<1>2. \A q \in Port : /\ t.ports[q].state = "disabled" <=> s.ports[q].state = "disabled"
                      /\ Info(t.ports[q]) = Info(s.ports[q])
  BY <1>1
<1>3. Enabled(t) = Enabled(s)
  BY <1>2 DEF Enabled
<1>4. \A q \in Port : stp_is_designated_port(s, q) <=> stp_is_designated_port(t, q)
  BY <1>1, <1>2 DEF stp_is_designated_port, Valid, SameRoot, Info
<1>5. Candidates(s) = Candidates(t)
  BY <1>1, <1>2, <1>3, <1>4 DEF Candidates, SameRoot, Info, Enabled
<1>6. ASSUME stp_is_designated_port(s, p) \/ d.state = "disabled" \/ d.message_age_timer # Off, Aged(s)
      PROVE  Aged(t)
  <2>1. ASSUME NEW q \in Enabled(t), ~stp_is_designated_port(t, q) PROVE t.ports[q].message_age_timer # Off
    <3>1. q \in Port /\ q \in Enabled(s) /\ ~stp_is_designated_port(s, q)
      BY <1>3, <1>4, <2>1 DEF Enabled
    <3>2. CASE q = p
      BY <1>1, <1>6, <2>1, <3>1, <3>2 DEF Enabled
    <3>3. CASE q # p
      BY <1>1, <1>6, <3>1, <3>3 DEF Aged
    <3> QED BY <3>2, <3>3
  <2> QED BY <2>1 DEF Aged
<1> QED BY <1>5, <1>6 DEF t

\* A port that becomes designated relies on nobody.
LEMMA PutDesignated ==
    ASSUME NEW s, Valid(s), NEW p \in Port, NEW d \in PortRec, d.port_id = s.ports[p].port_id,
           d.designated_bridge = s.bridge_id, d.designated_port = p
    PROVE  LET t == PutPort(s, p, d)
           IN /\ p \notin Candidates(s) => Candidates(s) = Candidates(t)
              /\ (\A q \in Enabled(s) \ {p} : ~stp_is_designated_port(s, q)
                                                 => s.ports[q].message_age_timer # Off) => Aged(t)
<1> DEFINE t == PutPort(s, p, d)
<1>1. /\ Valid(t) /\ SameRoot(s, t)
      /\ t.ports[p] = d /\ \A q \in Port \ {p} : t.ports[q] = s.ports[q]
  BY PutKeeps
<1> HIDE DEF t
<1>2. \A q \in Port \ {p} : stp_is_designated_port(s, q) <=> stp_is_designated_port(t, q)
  BY <1>1 DEF stp_is_designated_port, SameRoot
<1>3. stp_is_designated_port(t, p)
  BY <1>1 DEF stp_is_designated_port, SameRoot, Valid
<1>4. \A q \in Port \ {p} : q \in Enabled(s) <=> q \in Enabled(t)
  BY <1>1 DEF Enabled
<1>5. ASSUME p \notin Candidates(s) PROVE Candidates(s) = Candidates(t)
  <2>1. \A q \in Port \ {p} : q \in Candidates(s) <=> q \in Candidates(t)
    BY <1>1, <1>2, <1>4 DEF Candidates, SameRoot
  <2>2. p \notin Candidates(t) /\ Candidates(s) \subseteq Port /\ Candidates(t) \subseteq Port
    BY <1>3 DEF Candidates, Enabled
  <2> QED BY <1>5, <2>1, <2>2
<1>6. ASSUME \A q \in Enabled(s) \ {p} : ~stp_is_designated_port(s, q) => s.ports[q].message_age_timer # Off
      PROVE  Aged(t)
  <2>1. ASSUME NEW q \in Enabled(t), ~stp_is_designated_port(t, q) PROVE t.ports[q].message_age_timer # Off
    <3>1. q \in Port \ {p}
      BY <1>3, <2>1 DEF Enabled
    <3> QED BY <1>1, <1>2, <1>4, <1>6, <2>1, <3>1
  <2> QED BY <2>1 DEF Aged
<1> QED BY <1>5, <1>6 DEF t

\* A bridge that talks stays good.
LEMMA TalksGood ==
    ASSUME NEW s, Good(s), NEW t, Talks(s, t)
    PROVE  Good(t) /\ t.bridge_id = s.bridge_id
  BY TalksKeeps DEF Good, Talks, SameRoot
-----------------------------------------------------------------------------
(* Received BPDUs *)

\* A bridge's own information does not come back to the port that it left through.
NotOwn(s, p, c) == ~(c.bridge_id = s.bridge_id /\ c.port_id = p)

\* Recorded information ages, and a candidate for the root port remains one.
LEMMA RecordKeeps ==
    ASSUME NEW s, Good(s), NEW p \in Enabled(s), NEW c \in Config, NotOwn(s, p, c),
           stp_supersedes_port_info(s, p, c)
    PROVE  LET r == stp_record_config_information(s, p, c)
           IN /\ Valid(r) /\ Delayed(r) /\ Aged(r) /\ SameRoot(s, r) /\ r.hello_timer = s.hello_timer
              /\ Candidates(s) # {} => Candidates(r) # {}
<1> DEFINE d == [s.ports[p] EXCEPT !.designated_root = c.root_id,
                                   !.designated_cost = c.root_path_cost,
                                   !.designated_bridge = c.bridge_id,
                                   !.designated_port = c.port_id,
                                   !.message_age_timer = c.message_age]
           r == stp_record_config_information(s, p, c)
<1>1. s \in StpRec /\ p \in Port /\ s.ports[p] \in PortRec /\ Valid(s) /\ s.ports[p].port_id = p
  BY DEF Good, Valid, StpRec, Enabled
<1>2. /\ c.root_id \in Nat /\ c.root_path_cost \in Nat /\ c.bridge_id \in Nat /\ c.port_id \in Port
      /\ c.message_age \in Nat
  BY DEF Config
<1>3. /\ d \in PortRec /\ d.port_id = s.ports[p].port_id /\ d.state = s.ports[p].state
      /\ d.designated_root = c.root_id /\ d.designated_bridge = c.bridge_id /\ d.designated_port = c.port_id
      /\ d.message_age_timer = c.message_age /\ d.forward_delay_timer = s.ports[p].forward_delay_timer
  BY <1>1, <1>2 DEF PortRec, Timer
<1>4. r = PutPort(s, p, d)
  <2> DEFINE e == [s.ports[p] EXCEPT !.designated_root = c.root_id,
                                     !.designated_cost = c.root_path_cost,
                                     !.designated_bridge = c.bridge_id]
             a == [s EXCEPT !.ports[p].designated_root = c.root_id,
                            !.ports[p].designated_cost = c.root_path_cost,
                            !.ports[p].designated_bridge = c.bridge_id]
  <2>1. e \in PortRec
    BY <1>1, <1>2 DEF PortRec
  <2>2. a = PutPort(s, p, e)
    BY <1>1 DEF StpRec, PutPort
  <2>3. r = [a EXCEPT !.ports[p].designated_port = c.port_id,
                      !.ports[p].message_age_timer = c.message_age]
    BY DEF stp_record_config_information
  <2>4. d = [e EXCEPT !.designated_port = c.port_id, !.message_age_timer = c.message_age]
    OBVIOUS
  <2> HIDE DEF a, d, e, r
  <2>5. a \in StpRec /\ a.ports[p] = e
    BY <1>1, <2>1, <2>2, PortWrite
  <2>6. r = PutPort(a, p, d)
    BY <2>3, <2>4, <2>5 DEF StpRec, PutPort
  <2>7. PutPort(PutPort(s, p, e), p, d) = PutPort(s, p, d)
    BY <1>1 DEF StpRec, PutPort
  <2> QED BY <2>2, <2>6, <2>7
<1> HIDE DEF d, r
<1>5. /\ Valid(r) /\ SameRoot(s, r) /\ r.hello_timer = s.hello_timer
      /\ r.ports[p] = d /\ \A q \in Port \ {p} : r.ports[q] = s.ports[q]
      /\ (\A q \in Port \ {p} : Due(s.ports[q])) /\ Due(d) => Delayed(r)
  BY <1>1, <1>3, <1>4, PutKeeps
<1>6. Delayed(r)
  BY <1>1, <1>3, <1>5 DEF Good, Delayed, Due
<1>7. \A q \in Port \ {p} : stp_is_designated_port(s, q) <=> stp_is_designated_port(r, q)
  BY <1>5 DEF stp_is_designated_port, SameRoot
<1>8. Enabled(r) = Enabled(s)
  BY <1>3, <1>5 DEF Enabled
<1>9. Aged(r)
  <2>1. d.message_age_timer # Off
    BY <1>2, <1>3 DEF Off
  <2> QED BY <1>5, <1>7, <1>8, <2>1 DEF Aged, Good, Enabled
<1>10. ASSUME NEW q \in Candidates(s) PROVE q \in Candidates(r)
  <2>1. CASE q # p
    BY <1>5, <1>7, <1>8, <1>10, <2>1 DEF Candidates, Enabled, SameRoot
  <2>2. CASE q = p
    <3>1. ~stp_is_designated_port(r, p)
      BY <1>1, <1>3, <1>5 DEF stp_is_designated_port, SameRoot, NotOwn
    <3>2. s.ports[p].designated_root < s.bridge_id /\ s.ports[p].designated_root \in Nat /\ s.bridge_id \in Nat
      BY <1>1, <2>2 DEF Candidates, StpRec, PortRec
    <3>3. c.root_id <= s.ports[p].designated_root
      <4> DEFINE new == <<c.root_id, c.root_path_cost, c.bridge_id>>
                 old == <<s.ports[p].designated_root, s.ports[p].designated_cost,
                          s.ports[p].designated_bridge>>
      <4>1. new = old \/ Less(new, old)
        BY DEF stp_supersedes_port_info
      <4>2. DOMAIN new = 1..3 /\ new[1] = c.root_id /\ old[1] = s.ports[p].designated_root
        OBVIOUS
      <4> HIDE DEF new, old
      <4>3. CASE new = old
        BY <1>2, <3>2, <4>2, <4>3
      <4>4. CASE Less(new, old)
        <5>1. PICK i \in 1..3 : new[i] < old[i] /\ \A j \in 1..(i - 1) : new[j] = old[j]
          BY <4>2, <4>4 DEF Less
        <5>2. CASE i = 1
          BY <1>2, <3>2, <4>2, <5>1, <5>2
        <5>3. CASE i # 1
          <6>1. 1 \in 1..(i - 1)
            BY <5>3
          <6>2. new[1] = old[1]
            BY <5>1, <6>1
          <6> QED BY <1>2, <3>2, <4>2, <6>2
        <5> QED BY <5>2, <5>3
      <4> QED BY <4>1, <4>3, <4>4
    <3>4. r.ports[p].designated_root < r.bridge_id
      BY <1>2, <1>3, <1>5, <3>2, <3>3 DEF SameRoot
    <3> QED BY <1>8, <2>2, <3>1, <3>4 DEF Candidates
  <2> QED BY <2>1, <2>2
<1> QED BY <1>5, <1>6, <1>9, <1>10 DEF r

\* A bridge that is no longer root stops its hellos.
LEMMA QuietsHello ==
    ASSUME NEW s, Valid(s), Delayed(s), Aged(s), Rooted(s), ~stp_is_root_bridge(s)
    PROVE  LET t == [s EXCEPT !.hello_timer = Off]
               u == [stp_transmit_tcn(s) EXCEPT !.hello_timer = Off, !.tcn_timer = 0,
                                                !.topology_change_timer = Off]
           IN /\ Good(t) /\ t.bridge_id = s.bridge_id
              /\ Good(u) /\ u.bridge_id = s.bridge_id
<1> DEFINE t == [s EXCEPT !.hello_timer = Off]
           x == stp_transmit_tcn(s)
           n == [x EXCEPT !.topology_change_detected = x.topology_change_detected,
                          !.topology_change = x.topology_change,
                          !.tcn_timer = 0, !.topology_change_timer = Off]
           u == [x EXCEPT !.hello_timer = Off, !.tcn_timer = 0, !.topology_change_timer = Off]
           h == [n EXCEPT !.hello_timer = Off]
<1>1. Off \in Timer /\ 0 \in Timer
  BY DEF Timer
<1>2. Good(t) /\ t.bridge_id = s.bridge_id
  <2>1. /\ Valid(t) /\ SameRoot(s, t)
        /\ Delayed(s) => Delayed(t)
        /\ Aged(s) => Aged(t)
        /\ Rooted(s) => Rooted(t)
        /\ stp_is_root_bridge(s) <=> stp_is_root_bridge(t)
    BY <1>1, HelloKeeps
  <2> HIDE DEF t
  <2> QED BY <2>1 DEF Good, Greets, SameRoot
<1>3. Talks(s, x) /\ Valid(x)
  BY TcnTalks DEF Talks
<1> HIDE DEF x
<1>4. Talks(x, n)
  <2>1. x.topology_change_detected \in BOOLEAN /\ x.topology_change \in BOOLEAN
    BY <1>3 DEF Valid, StpRec
  <2> QED BY <1>1, <1>3, <2>1, NoteTalks
<1>5. u = h
  BY <1>3 DEF Valid, StpRec
<1> HIDE DEF n
<1>6. Talks(s, n) /\ Valid(n) /\ n.bridge_id = s.bridge_id
  BY <1>3, <1>4, TalksTwice DEF Talks, SameRoot
<1>7. Delayed(n) /\ Aged(n) /\ Rooted(n) /\ ~stp_is_root_bridge(n)
  BY <1>6, TalksKeeps
<1>8. Good(h) /\ h.bridge_id = s.bridge_id
  <2>1. /\ Valid(h) /\ SameRoot(n, h)
        /\ Delayed(n) => Delayed(h)
        /\ Aged(n) => Aged(h)
        /\ Rooted(n) => Rooted(h)
        /\ stp_is_root_bridge(n) <=> stp_is_root_bridge(h)
    BY <1>1, <1>6, HelloKeeps
  <2> HIDE DEF h
  <2> QED BY <1>6, <1>7, <2>1 DEF Good, Greets, SameRoot
<1> QED BY <1>2, <1>5, <1>8 DEF x

\* What the root says of topology changes is passed on.
LEMMA PassedOn ==
    ASSUME NEW s, Good(s), NEW c \in BOOLEAN
    PROVE  LET v == stp_config_bpdu_generation([s EXCEPT !.topology_change = c])
               w == stp_topology_change_acknowledged(v)
           IN /\ Good(v) /\ v.bridge_id = s.bridge_id
              /\ Good(w) /\ w.bridge_id = s.bridge_id
<1> DEFINE n == [s EXCEPT !.topology_change = c]
           v == stp_config_bpdu_generation(n)
           w == stp_topology_change_acknowledged(v)
<1>1. Valid(s) /\ s \in StpRec /\ Off \in Timer
  BY DEF Good, Valid, Timer
<1>2. Talks(s, n)
  <2>1. /\ s.topology_change_detected \in BOOLEAN /\ s.tcn_timer \in Timer
        /\ s.topology_change_timer \in Timer
        /\ n = [s EXCEPT !.topology_change_detected = s.topology_change_detected,
                         !.topology_change = c, !.tcn_timer = s.tcn_timer,
                         !.topology_change_timer = s.topology_change_timer]
    BY <1>1 DEF StpRec
  <2>2. Talks(s, [s EXCEPT !.topology_change_detected = s.topology_change_detected,
                           !.topology_change = c, !.tcn_timer = s.tcn_timer,
                           !.topology_change_timer = s.topology_change_timer])
    BY <1>1, <2>1, NoteTalks
  <2> QED BY <2>1, <2>2
<1> HIDE DEF n
<1>3. Talks(n, v)
  BY <1>2, GenerationTalks DEF Talks
<1> HIDE DEF v
<1>4. Good(v) /\ v.bridge_id = s.bridge_id /\ Valid(v) /\ v \in StpRec
  <2>1. Good(n) /\ n.bridge_id = s.bridge_id
    BY <1>2, TalksGood
  <2>2. Good(v) /\ v.bridge_id = n.bridge_id
    BY <1>3, <2>1, TalksGood
  <2> QED BY <2>1, <2>2 DEF Good, Valid
<1>5. Talks(v, w)
  <2>1. /\ v.topology_change \in BOOLEAN /\ v.topology_change_timer \in Timer
        /\ w = [v EXCEPT !.topology_change_detected = FALSE,
                         !.topology_change = v.topology_change, !.tcn_timer = Off,
                         !.topology_change_timer = v.topology_change_timer]
    BY <1>4 DEF StpRec, stp_topology_change_acknowledged
  <2>2. Talks(v, [v EXCEPT !.topology_change_detected = FALSE,
                           !.topology_change = v.topology_change, !.tcn_timer = Off,
                           !.topology_change_timer = v.topology_change_timer])
    BY <1>1, <1>4, <2>1, NoteTalks
  <2> QED BY <2>1, <2>2
<1> HIDE DEF w
<1>6. Good(w) /\ w.bridge_id = v.bridge_id
  BY <1>4, <1>5, TalksGood
<1> QED BY <1>4, <1>6 DEF n, v, w

\* received_config_bpdu.
LEMMA ReceivedConfigKeeps ==
    ASSUME NEW s, Good(s), NEW p \in Enabled(s), NEW c \in Config, NotOwn(s, p, c)
    PROVE  LET t == stp_received_config_bpdu(s, p, c) IN Good(t) /\ t.bridge_id = s.bridge_id
<1> DEFINE r == stp_record_config_information(s, p, c)
           t == stp_port_state_selection(stp_configuration_update(r))
           demoted == stp_is_root_bridge(s) /\ ~stp_is_root_bridge(t)
           tcn == [stp_transmit_tcn(t) EXCEPT !.hello_timer = Off, !.tcn_timer = 0,
                                              !.topology_change_timer = Off]
           off == [t EXCEPT !.hello_timer = Off]
           u == IF ~demoted THEN t ELSE IF t.topology_change_detected THEN tcn ELSE off
           v == stp_config_bpdu_generation([u EXCEPT !.topology_change = c.topology_change])
           w == stp_topology_change_acknowledged(v)
           x == stp_transmit_config(s, p)
<1>1. p \in Port /\ Valid(s) /\ c.topology_change \in BOOLEAN
  BY DEF Enabled, Good, Config
<1>2. stp_received_config_bpdu(s, p, c) =
        IF stp_supersedes_port_info(s, p, c)
        THEN IF p # u.root_port THEN u ELSE IF c.topology_change_ack THEN w ELSE v
        ELSE IF stp_is_designated_port(s, p) THEN x ELSE s
  BY DEF stp_received_config_bpdu
<1>3. Good(x) /\ x.bridge_id = s.bridge_id
  BY <1>1, TransmitTalks, TalksGood
<1> HIDE DEF x
<1>4. ASSUME stp_supersedes_port_info(s, p, c) PROVE Good(u) /\ u.bridge_id = s.bridge_id
  <2>1. /\ Valid(r) /\ Delayed(r) /\ Aged(r) /\ SameRoot(s, r) /\ r.hello_timer = s.hello_timer
        /\ Candidates(s) # {} => Candidates(r) # {}
    BY <1>4, RecordKeeps
  <2> HIDE DEF r
  <2>2. /\ Valid(t) /\ Delayed(t) /\ Aged(t) /\ Rooted(t)
        /\ t.bridge_id = r.bridge_id /\ t.hello_timer = r.hello_timer
        /\ Candidates(r) # {} => ~stp_is_root_bridge(t)
    BY <2>1, SelectionKeeps
  <2> HIDE DEF t
  <2>3. t.bridge_id = s.bridge_id
    BY <2>1, <2>2 DEF SameRoot
  <2>4. CASE ~demoted
    <3>1. stp_is_root_bridge(t) => stp_is_root_bridge(s)
      BY <2>1, <2>2 DEF Good, Rooted
    <3>2. Greets(t)
      BY <2>1, <2>2, <3>1 DEF Good, Greets
    <3> QED BY <2>2, <2>3, <2>4, <3>2 DEF Good
  <2>5. CASE demoted
    <3>1. Good(off) /\ off.bridge_id = t.bridge_id /\ Good(tcn) /\ tcn.bridge_id = t.bridge_id
      BY <2>2, <2>5, QuietsHello
    <3> HIDE DEF off, tcn
    <3> QED BY <2>3, <2>5, <3>1
  <2> QED BY <2>4, <2>5
<1> HIDE DEF u
<1>5. ASSUME stp_supersedes_port_info(s, p, c)
      PROVE  /\ Good(v) /\ v.bridge_id = s.bridge_id
             /\ Good(w) /\ w.bridge_id = s.bridge_id
  BY <1>1, <1>4, <1>5, PassedOn
<1> HIDE DEF v, w
<1> QED BY <1>2, <1>3, <1>4, <1>5

\* received_tcn_bpdu.
LEMMA ReceivedTcnKeeps ==
    ASSUME NEW s, Good(s), NEW p \in Port
    PROVE  LET t == stp_received_tcn_bpdu(s, p) IN Good(t) /\ t.bridge_id = s.bridge_id
<1> DEFINE c == stp_topology_change_detection(s)
           d == [c.ports[p] EXCEPT !.topology_change_ack = TRUE]
           n == [c EXCEPT !.ports[p].topology_change_ack = TRUE]
           x == stp_transmit_config(n, p)
<1>1. Talks(s, c) /\ Valid(c)
  BY DetectionTalks DEF Good, Talks
<1> HIDE DEF c
<1>2. Talks(c, n) /\ Valid(n)
  <2>1. c \in StpRec /\ c.ports[p] \in PortRec
    BY <1>1 DEF Valid, StpRec
  <2>2. d \in PortRec /\ SamePort(c.ports[p], d) /\ d.port_id = c.ports[p].port_id
    BY <2>1 DEF PortRec, SamePort
  <2>3. n = PutPort(c, p, d)
    BY <2>1 DEF PutPort, StpRec
  <2>4. Talks(c, n)
    <3> HIDE DEF d, n
    <3> QED BY <1>1, <2>2, <2>3, PortTalks
  <2> QED BY <2>4 DEF Talks
<1> HIDE DEF n
<1>3. Talks(n, x)
  BY <1>2, TransmitTalks
<1>4. Talks(s, x)
  BY <1>1, <1>2, <1>3, TalksTwice
<1>5. Good(x) /\ x.bridge_id = s.bridge_id
  BY <1>4, TalksGood
<1>6. stp_received_tcn_bpdu(s, p) = IF stp_is_designated_port(s, p) THEN x ELSE s
  BY DEF stp_received_tcn_bpdu, c, n
<1> HIDE DEF x
<1> QED BY <1>5, <1>6

\* received_bpdu forgets nothing.
LEMMA ReceivedKeeps ==
    ASSUME NEW s, Good(s), NEW p \in Port, NEW m \in Bpdu, m.type = "config" => NotOwn(s, p, m)
    PROVE  LET t == stp_received_bpdu(s, p, m) IN Good(t) /\ t.bridge_id = s.bridge_id
<1>1. CASE s.ports[p].state = "disabled" \/ (m.type # "tcn" /\ m.message_age >= max_age)
  BY <1>1, ReceivedTcnKeeps DEF stp_received_bpdu
<1>2. CASE s.ports[p].state # "disabled" /\ m.type = "tcn"
  BY <1>2, ReceivedTcnKeeps DEF stp_received_bpdu
<1>3. CASE s.ports[p].state # "disabled" /\ m.type # "tcn" /\ ~(m.message_age >= max_age)
  <2>1. m \in Config /\ m.type = "config" /\ p \in Enabled(s)
    BY <1>3 DEF Bpdu, Config, Enabled
  <2>2. stp_received_bpdu(s, p, m) = stp_received_config_bpdu(s, p, m)
    BY <1>3 DEF stp_received_bpdu
  <2> QED BY <2>1, <2>2, ReceivedConfigKeeps
<1> QED BY <1>1, <1>2, <1>3

-----------------------------------------------------------------------------
(* Timers *)

\* The times of the protocol are positive numbers.
LEMMA Times ==
    SECOND \in Nat \ {0} /\ hello_time \in Nat /\ max_age \in Nat /\ forward_delay \in Nat
  BY StpAssumption DEF hello_time, max_age, forward_delay

\* A timer stops when it expires, and only then.
LEMMA AdvancedStops ==
    ASSUME NEW timer \in Timer, NEW timeout \in Nat
    PROVE  /\ Advanced(timer, timeout) \in Timer
           /\ Advanced(timer, timeout) = Off <=> (timer = Off \/ stp_timer_expired(timer, timeout))
           /\ stp_timer_expired(timer, timeout) => timer # Off
  BY Times DEF Advanced, stp_timer_expired, Timer, Off

\* Notes of timers.
LEMMA TcnTimerTalks ==
    ASSUME NEW s, Valid(s), NEW h \in Timer
    PROVE  /\ Talks(s, [s EXCEPT !.tcn_timer = h])
           /\ Talks(s, [s EXCEPT !.topology_change_timer = h])
<1>1. /\ s.topology_change_detected \in BOOLEAN /\ s.topology_change \in BOOLEAN
      /\ s.tcn_timer \in Timer /\ s.topology_change_timer \in Timer
  BY DEF Valid, StpRec
<1>2. /\ [s EXCEPT !.tcn_timer = h]
           = [s EXCEPT !.topology_change_detected = s.topology_change_detected,
                       !.topology_change = s.topology_change,
                       !.tcn_timer = h, !.topology_change_timer = s.topology_change_timer]
      /\ [s EXCEPT !.topology_change_timer = h]
           = [s EXCEPT !.topology_change_detected = s.topology_change_detected,
                       !.topology_change = s.topology_change,
                       !.tcn_timer = s.tcn_timer, !.topology_change_timer = h]
  BY DEF Valid, StpRec
<1>3. Talks(s, [s EXCEPT !.topology_change_detected = s.topology_change_detected,
                         !.topology_change = s.topology_change,
                         !.tcn_timer = h, !.topology_change_timer = s.topology_change_timer])
  BY <1>1, NoteTalks
<1>4. Talks(s, [s EXCEPT !.topology_change_detected = s.topology_change_detected,
                         !.topology_change = s.topology_change,
                         !.tcn_timer = s.tcn_timer, !.topology_change_timer = h])
  BY <1>1, NoteTalks
<1> QED BY <1>2, <1>3, <1>4

\* A root that says hello starts its timer again.
LEMMA HelloRestarts ==
    ASSUME NEW s, Good(s)
    PROVE  LET a == [s EXCEPT !.hello_timer = Advanced(@, hello_time)]
               b == IF stp_timer_expired(s.hello_timer, hello_time)
                    THEN stp_hello_timer_expiry(a) ELSE a
           IN Good(b) /\ b.bridge_id = s.bridge_id
<1> DEFINE now == Advanced(s.hello_timer, hello_time)
           a == [s EXCEPT !.hello_timer = now]
           g == stp_config_bpdu_generation(a)
           h == [g EXCEPT !.hello_timer = 0]
<1>1. Valid(s) /\ s.hello_timer \in Timer /\ 0 \in Timer /\ 0 # Off
  BY DEF Good, Valid, StpRec, Timer, Off
<1>2. now \in Timer /\ (now = Off <=> s.hello_timer = Off \/ stp_timer_expired(s.hello_timer, hello_time))
  BY <1>1, Times, AdvancedStops
<1> HIDE DEF now
<1>3. /\ Valid(a) /\ SameRoot(s, a) /\ a.hello_timer = now
      /\ Delayed(s) => Delayed(a)
      /\ Aged(s) => Aged(a)
      /\ Rooted(s) => Rooted(a)
      /\ stp_is_root_bridge(s) <=> stp_is_root_bridge(a)
  BY <1>1, <1>2, HelloKeeps
<1> HIDE DEF a
<1>4. ~stp_timer_expired(s.hello_timer, hello_time) => Good(a)
  BY <1>2, <1>3 DEF Good, Greets
<1>5. Talks(a, g) /\ Valid(g)
  BY <1>3, GenerationTalks DEF Talks
<1> HIDE DEF g
<1>6. Delayed(g) /\ Aged(g) /\ Rooted(g) /\ g.bridge_id = s.bridge_id
  BY <1>3, <1>5, TalksKeeps DEF Good, Talks, SameRoot
<1>7. /\ Valid(h) /\ SameRoot(g, h) /\ h.hello_timer = 0
      /\ Delayed(g) => Delayed(h)
      /\ Aged(g) => Aged(h)
      /\ Rooted(g) => Rooted(h)
  BY <1>1, <1>5, HelloKeeps
<1> HIDE DEF h
<1>8. Good(h) /\ h.bridge_id = s.bridge_id
  BY <1>1, <1>6, <1>7 DEF Good, Greets, SameRoot
<1>9. stp_hello_timer_expiry(a) = h
  BY DEF stp_hello_timer_expiry, g, h
<1> QED BY <1>3, <1>4, <1>8, <1>9 DEF a, now, SameRoot

\* The message age of a port that relies on another bridge runs until it expires; then the
\* port becomes designated.
LEMMA MessageAgeKeeps ==
    ASSUME NEW s, Good(s), NEW p \in Enabled(s)
    PROVE  LET t == tick_message_age(s, p) IN Good(t) /\ t.bridge_id = s.bridge_id
<1> DEFINE now == Advanced(s.ports[p].message_age_timer, max_age)
           expired == stp_timer_expired(s.ports[p].message_age_timer, max_age)
           d == [s.ports[p] EXCEPT !.message_age_timer = now]
           t == [s EXCEPT !.ports[p].message_age_timer = now]
           e == [t.ports[p] EXCEPT !.designated_root = t.designated_root,
                                   !.designated_cost = t.root_path_cost,
                                   !.designated_bridge = t.bridge_id,
                                   !.designated_port = t.ports[p].port_id]
           c == stp_become_designated_port(t, p)
           r == Reconsider(t, c)
<1>1. /\ Valid(s) /\ s \in StpRec /\ p \in Port /\ s.ports[p] \in PortRec
      /\ s.ports[p].message_age_timer \in Timer /\ s.ports[p].port_id = p
  BY DEF Good, Valid, StpRec, Enabled, PortRec
<1>2. now \in Timer /\ (now = Off <=> s.ports[p].message_age_timer = Off \/ expired)
  BY <1>1, Times, AdvancedStops
<1>3. tick_message_age(s, p) = IF expired THEN r ELSE t
  BY DEF tick_message_age, stp_message_age_timer_expiry
<1> HIDE DEF now, expired
<1>4. /\ d \in PortRec /\ d.port_id = s.ports[p].port_id /\ d.state = s.ports[p].state
      /\ Info(d) = Info(s.ports[p]) /\ d.message_age_timer = now
      /\ d.forward_delay_timer = s.ports[p].forward_delay_timer
  BY <1>1, <1>2 DEF PortRec, Info
<1>5. t = PutPort(s, p, d)
  BY <1>1 DEF StpRec, PutPort
<1> HIDE DEF d, t
<1>6. /\ Valid(t) /\ SameRoot(s, t) /\ t.hello_timer = s.hello_timer
      /\ t.ports[p] = d /\ \A q \in Port \ {p} : t.ports[q] = s.ports[q]
      /\ (\A q \in Port \ {p} : Due(s.ports[q])) /\ Due(d) => Delayed(t)
      /\ stp_is_root_bridge(s) <=> stp_is_root_bridge(t)
  BY <1>1, <1>4, <1>5, PutKeeps
<1>7. Delayed(t)
  BY <1>1, <1>4, <1>6 DEF Good, Delayed, Due
<1>8. ASSUME ~expired PROVE Good(t) /\ t.bridge_id = s.bridge_id
  <2>1. /\ Candidates(s) = Candidates(t)
        /\ \/ stp_is_designated_port(s, p) 
           \/ d.state = "disabled"
           \/ d.message_age_timer # Off
           => (Aged(s) => Aged(t))
    BY <1>1, <1>4, <1>5, PutSameInfo
  <2>2. stp_is_designated_port(s, p) \/ d.message_age_timer # Off
    BY <1>2, <1>4, <1>8 DEF Good, Aged
  <2> QED BY <1>6, <1>7, <2>1, <2>2 DEF Good, Rooted, Greets, SameRoot
<1>9. ASSUME expired PROVE Good(r) /\ r.bridge_id = s.bridge_id
  <2>1. c = PutPort(t, p, e) /\ Valid(c) /\ e \in PortRec /\ stp_is_designated_port(c, p)
    BY <1>1, <1>6, BecomeDesignated
  <2>2. t.ports[p] \in PortRec /\ t.ports[p].port_id = p
    BY <1>1, <1>6 DEF Valid, StpRec
  <2>3. /\ e.port_id = t.ports[p].port_id /\ e.designated_bridge = t.bridge_id /\ e.designated_port = p
        /\ e.state = t.ports[p].state /\ e.forward_delay_timer = t.ports[p].forward_delay_timer
    BY <2>2 DEF PortRec
  <2> HIDE DEF e, c
  <2>4. /\ SameRoot(t, c) /\ c.hello_timer = t.hello_timer
        /\ (\A q \in Port \ {p} : Due(t.ports[q])) /\ Due(e) => Delayed(c)
    BY <1>1, <1>6, <2>1, <2>3, PutKeeps
  <2>5. Delayed(c)
    BY <1>1, <1>7, <2>3, <2>4 DEF Delayed, Due
  <2>6. (\A q \in Enabled(t) \ {p} : ~stp_is_designated_port(t, q)
                                       => t.ports[q].message_age_timer # Off) => Aged(c)
    BY <1>1, <1>6, <2>1, <2>3, PutDesignated
  <2>7. Aged(c)
    BY <1>6, <2>6 DEF Good, Aged, Enabled, stp_is_designated_port, SameRoot
  <2>8. stp_is_root_bridge(t) => c.hello_timer # Off
    BY <1>6, <2>4 DEF Good, Greets
  <2>9. Good(r) /\ r.bridge_id = c.bridge_id
    BY <2>1, <2>5, <2>7, <2>8, ReconsiderKeeps
  <2> QED BY <1>6, <2>4, <2>9 DEF SameRoot
<1> HIDE DEF r
<1> QED BY <1>3, <1>8, <1>9

\* A port that moves to a state with the delay that the state requires.
LEMMA MovesGood ==
    ASSUME NEW s, Valid(s), Aged(s), Rooted(s), Greets(s), NEW p \in Port,
           \A q \in Port \ {p} : Due(s.ports[q]), s.ports[p].state # "disabled",
           NEW state \in State, NEW delay \in Timer, state # "disabled",
           state \in {"listening", "learning"} <=> delay # Off,
           NEW t, Moves(s, t, p, state, delay)
    PROVE  Good(t) /\ t.bridge_id = s.bridge_id
<1>1. s.ports[p] \in PortRec
  BY DEF Valid, StpRec
<1>2. Settles(s, t) /\ Candidates(s) = Candidates(t)
  BY MovesSettles
<1>3. Aged(t)
  BY <1>2, SettlesKeeps
<1>4. /\ Valid(t) /\ SameRoot(s, t) /\ t.hello_timer = s.hello_timer
      /\ \A q \in Port \ {p} : SamePort(s.ports[q], t.ports[q])
      /\ SamePort([s.ports[p] EXCEPT !.state = state, !.forward_delay_timer = delay], t.ports[p])
  BY DEF Moves
<1>5. t.ports[p].state = state /\ t.ports[p].forward_delay_timer = delay
  BY <1>1, <1>4 DEF SamePort, PortRec
<1>6. \A q \in Port \ {p} : Due(t.ports[q])
  BY <1>4 DEF SamePort, Due
<1>7. Delayed(t)
  BY <1>5, <1>6 DEF Delayed, Due
<1> QED BY <1>2, <1>3, <1>4, <1>7 DEF Good, Rooted, Greets, SameRoot, stp_is_root_bridge

\* The end of a forward delay moves the port to the next state, and starts the delay
\* again for the learning state.
LEMMA ForwardDelayKeeps ==
    ASSUME NEW s, Good(s), NEW p \in Enabled(s)
    PROVE  LET t == [s EXCEPT !.ports[p].forward_delay_timer = Advanced(@, forward_delay)]
               u == IF stp_timer_expired(s.ports[p].forward_delay_timer, forward_delay)
                    THEN stp_forward_delay_timer_expiry(t, p) ELSE t
           IN Good(u) /\ u.bridge_id = s.bridge_id
<1> DEFINE now == Advanced(s.ports[p].forward_delay_timer, forward_delay)
           expired == stp_timer_expired(s.ports[p].forward_delay_timer, forward_delay)
           d == [s.ports[p] EXCEPT !.forward_delay_timer = now]
           t == [s EXCEPT !.ports[p].forward_delay_timer = now]
           u == stp_forward_delay_timer_expiry(t, p)
<1>1. /\ Valid(s) /\ s \in StpRec /\ p \in Port /\ s.ports[p] \in PortRec
      /\ s.ports[p].forward_delay_timer \in Timer /\ s.ports[p].state # "disabled"
  BY DEF Good, Valid, StpRec, Enabled, PortRec
<1>2. /\ now \in Timer /\ (now = Off <=> s.ports[p].forward_delay_timer = Off \/ expired)
      /\ expired => s.ports[p].forward_delay_timer # Off
  BY <1>1, Times, AdvancedStops
<1> HIDE DEF now, expired
<1>3. /\ d \in PortRec /\ d.port_id = s.ports[p].port_id /\ d.state = s.ports[p].state
      /\ Info(d) = Info(s.ports[p]) /\ d.message_age_timer = s.ports[p].message_age_timer
      /\ d.forward_delay_timer = now
  BY <1>1, <1>2 DEF PortRec, Info
<1>4. t = PutPort(s, p, d)
  BY <1>1 DEF StpRec, PutPort
<1> HIDE DEF d, t
<1>5. /\ Valid(t) /\ SameRoot(s, t) /\ t.hello_timer = s.hello_timer
      /\ t.ports[p] = d /\ \A q \in Port \ {p} : t.ports[q] = s.ports[q]
      /\ (\A q \in Port \ {p} : Due(s.ports[q])) /\ Due(d) => Delayed(t)
      /\ stp_is_root_bridge(s) <=> stp_is_root_bridge(t)
  BY <1>1, <1>3, <1>4, PutKeeps
<1>6. /\ Candidates(s) = Candidates(t)
      /\ \/ stp_is_designated_port(s, p) 
         \/ d.state = "disabled"
         \/ d.message_age_timer # Off
         => (Aged(s) => Aged(t))
  BY <1>1, <1>3, <1>4, PutSameInfo
<1>7. Aged(t) /\ Rooted(t) /\ Greets(t) /\ t.bridge_id = s.bridge_id
  BY <1>3, <1>5, <1>6 DEF Good, Aged, Rooted, Greets, SameRoot
<1>8. Due(s.ports[p]) /\ \A q \in Port \ {p} : Due(s.ports[q])
  BY <1>1 DEF Good, Delayed
<1>9. ASSUME ~expired PROVE Good(t)
  <2>1. Due(d)
    BY <1>1, <1>2, <1>3, <1>8, <1>9 DEF Due
  <2> QED BY <1>5, <1>7, <1>8, <2>1 DEF Good
<1>10. ASSUME expired PROVE Good(u) /\ u.bridge_id = s.bridge_id
  <2>1. \A q \in Port \ {p} : Due(t.ports[q])
    BY <1>5, <1>8
  <2>2. t.ports[p].state \in {"listening", "learning"} /\ t.ports[p].forward_delay_timer = Off
    BY <1>1, <1>2, <1>3, <1>5, <1>8, <1>10 DEF Due
  <2>3. 0 \in Timer /\ 0 # Off /\ Off \in Timer /\ "learning" \in State /\ "forwarding" \in State
    BY DEF Timer, Off, State
  <2>4. CASE t.ports[p].state = "listening"
    <3> DEFINE m == [stp_set_port_state(t, p, "learning") EXCEPT !.ports[p].forward_delay_timer = 0]
    <3>1. Moves(t, m, p, "learning", 0)
      BY <1>1, <1>5, <2>3, DelayMoves
    <3>2. u = m
      BY <2>4 DEF stp_forward_delay_timer_expiry
    <3> HIDE DEF m, u
    <3>3. Good(m) /\ m.bridge_id = t.bridge_id
      BY <1>1, <1>5, <1>7, <2>1, <2>2, <2>3, <3>1, MovesGood
    <3> QED BY <1>7, <3>2, <3>3
  <2>5. CASE t.ports[p].state = "learning"
    <3> DEFINE m == stp_set_port_state(t, p, "forwarding")
               x == stp_topology_change_detection(m)
    <3>1. Moves(t, m, p, "forwarding", Off)
      BY <1>1, <1>5, <2>2, <2>3, SetPortStateMoves
    <3>2. u \in {m, x}
      BY <2>5 DEF stp_forward_delay_timer_expiry
    <3> HIDE DEF m, u
    <3>3. Good(m) /\ m.bridge_id = t.bridge_id
      BY <1>1, <1>5, <1>7, <2>1, <2>2, <2>3, <3>1, MovesGood
    <3>4. Good(x) /\ x.bridge_id = m.bridge_id
      BY <3>3, DetectionTalks, TalksGood DEF Good
    <3> QED BY <1>7, <3>2, <3>3, <3>4
  <2> QED BY <2>2, <2>4, <2>5
<1> HIDE DEF u
<1> QED BY <1>7, <1>9, <1>10 DEF t, u, now, expired

\* The rest of a port's tick is about what it sends.
LEMMA TickPortKeeps ==
    ASSUME NEW s, Good(s), NEW p \in Enabled(s)
    PROVE  LET t == tick_port(s, p) IN Good(t) /\ t.bridge_id = s.bridge_id
<1> DEFINE t == [s EXCEPT !.ports[p].forward_delay_timer = Advanced(@, forward_delay)]
           u == IF stp_timer_expired(s.ports[p].forward_delay_timer, forward_delay)
                THEN stp_forward_delay_timer_expiry(t, p) ELSE t
           now == Advanced(u.ports[p].hold_timer, SECOND)
           d == [u.ports[p] EXCEPT !.hold_timer = now]
           v == [u EXCEPT !.ports[p].hold_timer = now]
           x == stp_transmit_config(v, p)
<1>1. Good(u) /\ u.bridge_id = s.bridge_id
  BY ForwardDelayKeeps
<1>2. tick_port(s, p) \in {v, x}
  BY DEF tick_port, stp_hold_timer_expiry
<1> HIDE DEF u
<1>3. p \in Port /\ Valid(u) /\ u \in StpRec /\ u.ports[p] \in PortRec /\ u.ports[p].hold_timer \in Timer
  BY <1>1 DEF Enabled, Good, Valid, StpRec, PortRec
<1>4. now \in Timer
  BY <1>3, Times, AdvancedStops
<1> HIDE DEF now
<1>5. d \in PortRec /\ d.port_id = u.ports[p].port_id /\ SamePort(u.ports[p], d)
  BY <1>3, <1>4 DEF PortRec, SamePort
<1>6. v = PutPort(u, p, d)
  BY <1>3 DEF StpRec, PutPort
<1> HIDE DEF d, v
<1>7. Talks(u, v) /\ Valid(v)
  BY <1>3, <1>5, <1>6, PortTalks DEF Talks
<1>8. Good(v) /\ v.bridge_id = u.bridge_id
  BY <1>1, <1>7, TalksGood
<1>9. Good(x) /\ x.bridge_id = v.bridge_id
  BY <1>3, <1>7, <1>8, TransmitTalks, TalksGood
<1> HIDE DEF x
<1> QED BY <1>1, <1>2, <1>8, <1>9

\* A tick forgets nothing.
LEMMA TickKeeps ==
    ASSUME NEW s, Good(s)
    PROVE  Good(stp_tick(s)) /\ stp_tick(s).bridge_id = s.bridge_id
<1> DEFINE a == [s EXCEPT !.hello_timer = Advanced(@, hello_time)]
           b == IF stp_timer_expired(s.hello_timer, hello_time)
                THEN stp_hello_timer_expiry(a) ELSE a
           c == [b EXCEPT !.tcn_timer = Advanced(@, hello_time)]
           d == IF stp_timer_expired(b.tcn_timer, hello_time) THEN stp_tcn_timer_expiry(c) ELSE c
           e == [d EXCEPT !.topology_change_timer = Advanced(@, max_age + forward_delay)]
           f == IF stp_timer_expired(d.topology_change_timer, max_age + forward_delay)
                THEN stp_topology_change_timer_expiry(e) ELSE e
           D == {t \in StpRec : Good(t) /\ t.bridge_id = s.bridge_id}
           g == ForEachEnabledPort(f, tick_message_age)
           h == ForEachEnabledPort(g, tick_port)
<1>1. stp_tick(s) = h
  BY DEF stp_tick
<1>2. Good(b) /\ b.bridge_id = s.bridge_id
  BY HelloRestarts
<1> HIDE DEF b
<1>3. Good(d) /\ d.bridge_id = s.bridge_id
  <2> DEFINE now == Advanced(b.tcn_timer, hello_time)
             k == [b EXCEPT !.tcn_timer = now]
             x == stp_transmit_tcn(k)
             y == [x EXCEPT !.tcn_timer = 0]
  <2>1. Valid(b) /\ b.tcn_timer \in Timer /\ 0 \in Timer
    BY <1>2 DEF Good, Valid, StpRec, Timer
  <2>2. now \in Timer
    BY <2>1, Times, AdvancedStops
  <2>3. d \in {k, y}
    BY DEF stp_tcn_timer_expiry
  <2> HIDE DEF now, d
  <2>4. Talks(b, k) /\ Valid(k)
    BY <2>1, <2>2, TcnTimerTalks DEF Talks
  <2> HIDE DEF k
  <2>5. Talks(k, x) /\ Valid(x)
    BY <2>4, TcnTalks DEF Talks
  <2> HIDE DEF x
  <2>6. Talks(x, y)
    BY <2>1, <2>5, TcnTimerTalks
  <2> HIDE DEF y
  <2>7. Talks(b, y)
    BY <2>4, <2>5, <2>6, TalksTwice
  <2> QED BY <1>2, <2>3, <2>4, <2>7, TalksGood
<1> HIDE DEF d
<1>4. Good(f) /\ f.bridge_id = s.bridge_id
  <2> DEFINE now == Advanced(d.topology_change_timer, max_age + forward_delay)
             k == [d EXCEPT !.topology_change_timer = now]
             y == [k EXCEPT !.topology_change_detected = FALSE, !.topology_change = FALSE]
             z == [k EXCEPT !.topology_change_detected = FALSE, !.topology_change = FALSE,
                            !.tcn_timer = k.tcn_timer,
                            !.topology_change_timer = k.topology_change_timer]
  <2>1. Valid(d) /\ d.topology_change_timer \in Timer
    BY <1>3 DEF Good, Valid, StpRec, Timer
  <2>2. now \in Timer
    <3>1. max_age + forward_delay \in Nat
      BY Times
    <3> QED BY <2>1, <3>1, AdvancedStops
  <2>3. f \in {k, y}
    BY DEF stp_topology_change_timer_expiry
  <2> HIDE DEF now, f
  <2>4. Talks(d, k) /\ Valid(k)
    BY <2>1, <2>2, TcnTimerTalks DEF Talks
  <2> HIDE DEF k
  <2>5. k.tcn_timer \in Timer /\ k.topology_change_timer \in Timer
    BY <2>4 DEF Valid, StpRec
  <2>6. y = z
    BY <2>4 DEF Valid, StpRec
  <2>7. Talks(k, z)
    BY <2>4, <2>5, NoteTalks
  <2> HIDE DEF y, z
  <2>8. Talks(d, y)
    BY <2>4, <2>6, <2>7, TalksTwice
  <2> QED BY <1>3, <2>3, <2>4, <2>8, TalksGood
<1> HIDE DEF f
<1>5. f \in D
  BY <1>4 DEF Good, Valid
<1>6. ASSUME NEW p \in Port, NEW t \in D, p \in Enabled(t)
      PROVE  tick_message_age(t, p) \in D /\ tick_port(t, p) \in D
  <2>1. Good(t) /\ t.bridge_id = s.bridge_id
    OBVIOUS
  <2>2. Good(tick_message_age(t, p)) /\ tick_message_age(t, p).bridge_id = s.bridge_id
    BY <1>6, <2>1, MessageAgeKeeps
  <2>3. Good(tick_port(t, p)) /\ tick_port(t, p).bridge_id = s.bridge_id
    BY <1>6, <2>1, TickPortKeeps
  <2> QED BY <2>2, <2>3 DEF Good, Valid
<1> HIDE DEF D
<1>7. g \in D
  BY <1>5, <1>6, MessageAgeLoop
<1> HIDE DEF g
<1>8. h \in D
  BY <1>6, <1>7, PortLoop
<1> QED BY <1>1, <1>8 DEF D

-----------------------------------------------------------------------------
(* Configuration *)

\* Two writes of a port are one.
LEMMA PutTwice ==
    ASSUME NEW s \in StpRec, NEW p \in Port, NEW d, NEW e
    PROVE  PutPort(PutPort(s, p, d), p, e) = PutPort(s, p, e)
  BY DEF StpRec, PutPort

\* A function that makes one port designated.
LEMMA DesignatedKeeps ==
    ASSUME NEW s, Good(s), NEW t, Valid(t), SameRoot(s, t), NEW p \in Port,
           \A q \in Port \ {p} : SamePort(s.ports[q], t.ports[q]),
           stp_is_designated_port(t, p), Due(t.ports[p])
    PROVE  /\ Delayed(t) /\ Aged(t)
           /\ p \notin Enabled(s) => Candidates(s) = Candidates(t)
<1>1. \A q \in Port \ {p} : stp_is_designated_port(s, q) <=> stp_is_designated_port(t, q)
  BY DEF Good, Valid, SameRoot, SamePort, stp_is_designated_port
<1>2. \A q \in Port \ {p} : q \in Enabled(s) <=> q \in Enabled(t)
  BY DEF Enabled, SamePort
<1>3. Delayed(t)
  BY DEF Good, Delayed, Due, SamePort
<1>4. ASSUME NEW q \in Enabled(t), ~stp_is_designated_port(t, q) PROVE t.ports[q].message_age_timer # Off
  <2>1. q \in Port \ {p} /\ q \in Enabled(s) /\ ~stp_is_designated_port(s, q)
    BY <1>1, <1>2, <1>4 DEF Enabled
  <2> QED BY <2>1 DEF Good, Aged, SamePort
<1>5. ASSUME p \notin Enabled(s) PROVE Candidates(s) = Candidates(t)
  <2>1. \A q \in Port \ {p} : q \in Candidates(s) <=> q \in Candidates(t)
    BY <1>1, <1>2 DEF Candidates, SameRoot, SamePort
  <2>2. p \notin Candidates(s) /\ p \notin Candidates(t) /\ Candidates(s) \subseteq Port /\ Candidates(t) \subseteq Port
    BY <1>5 DEF Candidates, Enabled
  <2> QED BY <2>1, <2>2
<1> QED BY <1>3, <1>4, <1>5 DEF Aged

\* A port becomes designated and gets another state.
LEMMA DesignatedMoves ==
    ASSUME NEW s, Valid(s), NEW p \in Port, NEW state \in State
    PROVE  LET t == stp_set_port_state(stp_become_designated_port(s, p), p, state)
           IN /\ Valid(t) /\ SameRoot(s, t) /\ t.hello_timer = s.hello_timer
              /\ \A q \in Port \ {p} : SamePort(s.ports[q], t.ports[q])
              /\ t.ports[p].state = state
              /\ stp_is_designated_port(t, p)
<1> DEFINE c == stp_become_designated_port(s, p)
           e == [s.ports[p] EXCEPT !.designated_root = s.designated_root,
                                   !.designated_cost = s.root_path_cost,
                                   !.designated_bridge = s.bridge_id,
                                   !.designated_port = s.ports[p].port_id]
           t == stp_set_port_state(c, p, state)
<1>1. c = PutPort(s, p, e) /\ Valid(c) /\ e \in PortRec /\ stp_is_designated_port(c, p)
  BY BecomeDesignated
<1>2. e.port_id = s.ports[p].port_id
  BY DEF Valid, StpRec, PortRec
<1> HIDE DEF c, e
<1>3. SameRoot(s, c) /\ c.hello_timer = s.hello_timer /\ \A q \in Port \ {p} : c.ports[q] = s.ports[q]
  BY <1>1, <1>2, PutKeeps
<1>4. Moves(c, t, p, state, c.ports[p].forward_delay_timer)
  BY <1>1, SetPortStateMoves
<1> HIDE DEF t
<1>5. c.ports[p] \in PortRec
  BY <1>1 DEF Valid, StpRec
<1>6. /\ Valid(t) /\ SameRoot(c, t) /\ t.hello_timer = c.hello_timer
      /\ \A q \in Port \ {p} : SamePort(c.ports[q], t.ports[q])
      /\ SamePort([c.ports[p] EXCEPT !.state = state,
                                     !.forward_delay_timer = c.ports[p].forward_delay_timer], t.ports[p])
  BY <1>4 DEF Moves
<1>7. /\ t.ports[p].state = state
      /\ t.ports[p].designated_bridge = c.ports[p].designated_bridge
      /\ t.ports[p].designated_port = c.ports[p].designated_port
  BY <1>5, <1>6 DEF SamePort, PortRec
<1>8. stp_is_designated_port(t, p)
  BY <1>1, <1>6, <1>7 DEF stp_is_designated_port, Valid, SameRoot
<1> QED BY <1>3, <1>6, <1>7, <1>8 DEF c, t, SameRoot

\* The timers and notes of a port are reset.
LEMMA ResetKeeps ==
    ASSUME NEW s, Valid(s), NEW p \in Port
    PROVE  LET a == [s EXCEPT !.ports[p].topology_change_ack = FALSE,
                              !.ports[p].config_pending = FALSE,
                              !.ports[p].message_age_timer = Off,
                              !.ports[p].forward_delay_timer = Off]
               b == [s EXCEPT !.ports[p].topology_change_ack = FALSE,
                              !.ports[p].config_pending = FALSE,
                              !.ports[p].message_age_timer = Off,
                              !.ports[p].forward_delay_timer = Off,
                              !.ports[p].hold_timer = Off]
           IN \A t \in {a, b} :
                 /\ Valid(t) /\ SameRoot(s, t) /\ t.hello_timer = s.hello_timer
                 /\ \A q \in Port \ {p} : t.ports[q] = s.ports[q]
                 /\ t.ports[p].state = s.ports[p].state /\ t.ports[p].forward_delay_timer = Off
                 /\ stp_is_designated_port(s, p) => stp_is_designated_port(t, p)
<1> DEFINE d == [s.ports[p] EXCEPT !.topology_change_ack = FALSE, !.config_pending = FALSE,
                                   !.message_age_timer = Off, !.forward_delay_timer = Off]
           e == [d EXCEPT !.hold_timer = Off]
           a == [s EXCEPT !.ports[p].topology_change_ack = FALSE,
                          !.ports[p].config_pending = FALSE,
                          !.ports[p].message_age_timer = Off,
                          !.ports[p].forward_delay_timer = Off]
           b == [s EXCEPT !.ports[p].topology_change_ack = FALSE,
                          !.ports[p].config_pending = FALSE,
                          !.ports[p].message_age_timer = Off,
                          !.ports[p].forward_delay_timer = Off,
                          !.ports[p].hold_timer = Off]
<1>1. s \in StpRec /\ s.ports[p] \in PortRec /\ Off \in Timer /\ s.ports[p].port_id = p
  BY DEF Valid, StpRec, Timer
<1>2. /\ d \in PortRec /\ d.port_id = s.ports[p].port_id
      /\ d.designated_bridge = s.ports[p].designated_bridge
      /\ d.designated_port = s.ports[p].designated_port
      /\ d.state = s.ports[p].state /\ d.forward_delay_timer = Off
  BY <1>1 DEF PortRec
<1>3. a = PutPort(s, p, d)
  BY <1>1 DEF StpRec, PutPort
<1>4. b = [a EXCEPT !.ports[p].hold_timer = Off]
  OBVIOUS
<1> HIDE DEF a, b, d
<1>5. /\ e \in PortRec /\ e.port_id = d.port_id
      /\ e.designated_bridge = d.designated_bridge /\ e.designated_port = d.designated_port
      /\ e.state = d.state /\ e.forward_delay_timer = Off
  BY <1>1, <1>2 DEF PortRec
<1>6. a \in StpRec /\ a.ports[p] = d
  BY <1>1, <1>2, <1>3, PortWrite
<1>7. b = PutPort(a, p, e)
  BY <1>4, <1>6 DEF StpRec, PutPort
<1> HIDE DEF e
<1>8. b = PutPort(s, p, e)
  BY <1>1, <1>3, <1>7, PutTwice
<1>9. ASSUME NEW x \in {d, e}
      PROVE  LET u == PutPort(s, p, x)
             IN /\ Valid(u) /\ SameRoot(s, u) /\ u.hello_timer = s.hello_timer
                /\ \A q \in Port \ {p} : u.ports[q] = s.ports[q]
                /\ u.ports[p].state = s.ports[p].state /\ u.ports[p].forward_delay_timer = Off
                /\ stp_is_designated_port(s, p) => stp_is_designated_port(u, p)
  <2> DEFINE u == PutPort(s, p, x)
  <2>1. /\ x \in PortRec /\ x.port_id = s.ports[p].port_id
        /\ x.designated_bridge = s.ports[p].designated_bridge
        /\ x.designated_port = s.ports[p].designated_port
        /\ x.state = s.ports[p].state /\ x.forward_delay_timer = Off
    BY <1>2, <1>5
  <2>2. /\ Valid(u) /\ SameRoot(s, u) /\ u.hello_timer = s.hello_timer
        /\ u.ports[p] = x /\ \A q \in Port \ {p} : u.ports[q] = s.ports[q]
    BY <2>1, PutKeeps
  <2> HIDE DEF u
  <2>3. stp_is_designated_port(s, p) => stp_is_designated_port(u, p)
    BY <2>1, <2>2 DEF stp_is_designated_port, SameRoot
  <2> QED BY <2>1, <2>2, <2>3 DEF u
<1>10. ASSUME NEW t \in {a, b}
       PROVE  /\ Valid(t) /\ SameRoot(s, t) /\ t.hello_timer = s.hello_timer
              /\ \A q \in Port \ {p} : t.ports[q] = s.ports[q]
              /\ t.ports[p].state = s.ports[p].state /\ t.ports[p].forward_delay_timer = Off
              /\ stp_is_designated_port(s, p) => stp_is_designated_port(t, p)
  BY <1>3, <1>8, <1>9
<1> QED BY <1>10 DEF a, b

\* port_enable starts with a port that is designated and blocked.
LEMMA EnableKeeps ==
    ASSUME NEW s, Good(s), NEW p \in Port
    PROVE  Good(stp_port_enable(s, p)) /\ stp_port_enable(s, p).bridge_id = s.bridge_id
<1> DEFINE t == stp_set_port_state(stp_become_designated_port(s, p), p, "blocking")
           i == [t EXCEPT !.ports[p].topology_change_ack = FALSE, !.ports[p].config_pending = FALSE,
                          !.ports[p].message_age_timer = Off, !.ports[p].forward_delay_timer = Off,
                          !.ports[p].hold_timer = Off]
           r == stp_port_state_selection(i)
<1>1. SUFFICES ASSUME s.ports[p].state = "disabled" PROVE Good(r) /\ r.bridge_id = s.bridge_id
  BY DEF stp_port_enable, stp_initialize_port
<1>2. "blocking" \in State
  BY DEF State
<1>3. /\ Valid(t) /\ SameRoot(s, t) /\ t.hello_timer = s.hello_timer
      /\ \A q \in Port \ {p} : SamePort(s.ports[q], t.ports[q])
      /\ t.ports[p].state = "blocking"
      /\ stp_is_designated_port(t, p)
  BY <1>2, DesignatedMoves DEF Good
<1> HIDE DEF t
<1>4. /\ Valid(i) /\ SameRoot(t, i) /\ i.hello_timer = t.hello_timer
      /\ \A q \in Port \ {p} : i.ports[q] = t.ports[q]
      /\ i.ports[p].state = t.ports[p].state /\ i.ports[p].forward_delay_timer = Off
      /\ stp_is_designated_port(t, p) => stp_is_designated_port(i, p)
  BY <1>3, ResetKeeps
<1> HIDE DEF i
<1>5. Due(i.ports[p]) /\ SameRoot(s, i) /\ \A q \in Port \ {p} : SamePort(s.ports[q], i.ports[q])
  BY <1>3, <1>4 DEF Due, SameRoot
<1>6. p \notin Enabled(s)
  BY <1>1 DEF Enabled
<1>7. Delayed(i) /\ Aged(i) /\ Candidates(s) = Candidates(i)
  BY <1>3, <1>4, <1>5, <1>6, DesignatedKeeps
<1>8. Calm(i, r)
  BY <1>4, StateSelectionSettles
<1> HIDE DEF r
<1>9. Delayed(r) /\ Aged(r)
  BY <1>4, <1>7, <1>8, SettlesKeeps DEF Calm
<1>10. Valid(r) /\ SameRoot(s, r) /\ r.hello_timer = s.hello_timer /\ Candidates(r) = Candidates(s)
  BY <1>3, <1>4, <1>5, <1>7, <1>8 DEF Calm, Settles, SameRoot
<1> QED BY <1>9, <1>10 DEF Good, Rooted, Greets, SameRoot, stp_is_root_bridge

\* port_disable gives up what the port knew.
LEMMA DisableKeeps ==
    ASSUME NEW s, Good(s), NEW p \in Port
    PROVE  Good(stp_port_disable(s, p)) /\ stp_port_disable(s, p).bridge_id = s.bridge_id
<1> DEFINE t == stp_set_port_state(stp_become_designated_port(s, p), p, "disabled")
           i == [t EXCEPT !.ports[p].topology_change_ack = FALSE, !.ports[p].config_pending = FALSE,
                          !.ports[p].message_age_timer = Off, !.ports[p].forward_delay_timer = Off]
           r == Reconsider(s, i)
<1>1. stp_port_disable(s, p) \in {s, r}
  BY DEF stp_port_disable
<1>2. "disabled" \in State
  BY DEF State
<1>3. /\ Valid(t) /\ SameRoot(s, t) /\ t.hello_timer = s.hello_timer
      /\ \A q \in Port \ {p} : SamePort(s.ports[q], t.ports[q])
      /\ t.ports[p].state = "disabled"
      /\ stp_is_designated_port(t, p)
  BY <1>2, DesignatedMoves DEF Good
<1> HIDE DEF t
<1>4. /\ Valid(i) /\ SameRoot(t, i) /\ i.hello_timer = t.hello_timer
      /\ \A q \in Port \ {p} : i.ports[q] = t.ports[q]
      /\ i.ports[p].state = t.ports[p].state
      /\ stp_is_designated_port(t, p) => stp_is_designated_port(i, p)
  BY <1>3, ResetKeeps
<1> HIDE DEF i
<1>5. Due(i.ports[p]) /\ SameRoot(s, i) /\ \A q \in Port \ {p} : SamePort(s.ports[q], i.ports[q])
  BY <1>3, <1>4 DEF Due, SameRoot
<1>6. Delayed(i) /\ Aged(i)
  BY <1>3, <1>4, <1>5, DesignatedKeeps
<1>7. Good(r) /\ r.bridge_id = i.bridge_id
  <2>1. stp_is_root_bridge(s) => i.hello_timer # Off
    BY <1>3, <1>4 DEF Good, Greets
  <2> QED BY <1>4, <1>6, <2>1, ReconsiderKeeps
<1> HIDE DEF r
<1> QED BY <1>1, <1>5, <1>7 DEF SameRoot

\* port_set_path_cost selects again; a bridge that was not root is not root now.
LEMMA PathCostKeeps ==
    ASSUME NEW s, Good(s), NEW p \in Port, NEW cost \in Nat \ {0}
    PROVE  LET t == stp_port_set_path_cost(s, p, cost) IN Good(t) /\ t.bridge_id = s.bridge_id
<1> DEFINE d == [s.ports[p] EXCEPT !.path_cost = cost]
           c == [s EXCEPT !.ports[p].path_cost = cost]
           t == stp_port_state_selection(stp_configuration_update(c))
<1>1. stp_port_set_path_cost(s, p, cost) \in {s, t}
  BY DEF stp_port_set_path_cost
<1>2. Valid(s) /\ s \in StpRec /\ s.ports[p] \in PortRec /\ Due(s.ports[p])
  BY DEF Good, Valid, StpRec, Delayed
<1>3. /\ d \in PortRec /\ d.port_id = s.ports[p].port_id /\ Info(d) = Info(s.ports[p])
      /\ d.state = s.ports[p].state /\ d.message_age_timer = s.ports[p].message_age_timer
      /\ d.forward_delay_timer = s.ports[p].forward_delay_timer
  BY <1>2 DEF PortRec, Info
<1>4. c = PutPort(s, p, d)
  BY <1>2 DEF StpRec, PutPort
<1> HIDE DEF c, d
<1>5. /\ Valid(c) /\ SameRoot(s, c) /\ c.hello_timer = s.hello_timer
      /\ (\A q \in Port \ {p} : Due(s.ports[q])) /\ Due(d) => Delayed(c)
  BY <1>2, <1>3, <1>4, PutKeeps
<1>6. /\ Candidates(s) = Candidates(c)
      /\ \/ stp_is_designated_port(s, p) 
         \/ d.state = "disabled"
         \/ d.message_age_timer # Off
         => (Aged(s) => Aged(c))
  BY <1>2, <1>3, <1>4, PutSameInfo
<1>7. Delayed(c)
  BY <1>2, <1>3, <1>5 DEF Good, Delayed, Due
<1>8. Aged(c)
  BY <1>3, <1>6 DEF Good, Aged, Enabled
<1>9. /\ Valid(t) /\ Delayed(t) /\ Aged(t) /\ Rooted(t)
      /\ t.bridge_id = c.bridge_id /\ t.hello_timer = c.hello_timer
      /\ Candidates(c) # {} => ~stp_is_root_bridge(t)
  BY <1>5, <1>7, <1>8, SelectionKeeps
<1> HIDE DEF t
<1>10. Good(t) /\ t.bridge_id = s.bridge_id
  BY <1>5, <1>6, <1>9 DEF Good, Rooted, Greets, SameRoot
<1> QED BY <1>1, <1>10

\* set_bridge_id keeps the ports designated that were.
LEMMA BridgeIdKeeps ==
    ASSUME NEW s, Good(s), NEW id \in Nat, s.out = <<>>
    PROVE  Good(set_bridge_id(s, id)) /\ set_bridge_id(s, id).bridge_id = id
<1> DEFINE own == {p \in Enabled(s) : stp_is_designated_port(s, p)}
           ports == [p \in Port |-> IF p \in own THEN [s.ports[p] EXCEPT !.designated_bridge = id]
                                                 ELSE s.ports[p]]
           c == [s EXCEPT !.bridge_id = id, !.ports = ports]
           r == Reconsider(s, c)
<1>1. set_bridge_id(s, id) = IF id = s.bridge_id THEN s ELSE r
  BY DEF set_bridge_id
<1>2. s \in StpRec /\ \A p \in Port : s.ports[p] \in PortRec /\ s.ports[p].port_id = p
  BY DEF Good, Valid, StpRec
<1>3. ASSUME NEW p \in Port
      PROVE  /\ ports[p] \in PortRec /\ ports[p].port_id = p
             /\ ports[p].state = s.ports[p].state
             /\ ports[p].message_age_timer = s.ports[p].message_age_timer
             /\ ports[p].forward_delay_timer = s.ports[p].forward_delay_timer
             /\ ports[p].designated_port = s.ports[p].designated_port
             /\ p \in own => ports[p].designated_bridge = id
  <2>1. s.ports[p] \in PortRec /\ s.ports[p].port_id = p
    BY <1>2
  <2> HIDE DEF own
  <2> QED BY <2>1 DEF PortRec
<1>4. ports \in [Port -> PortRec]
  <2>1. ports = [p \in Port |-> ports[p]]
    OBVIOUS
  <2> HIDE DEF ports
  <2> QED BY <1>3, <2>1
<1> HIDE DEF ports, own
<1>5. /\ c \in StpRec /\ c.ports = ports /\ c.bridge_id = id /\ c.out = <<>>
      /\ c.hello_timer = s.hello_timer
  BY <1>2, <1>4 DEF StpRec
<1> HIDE DEF c
<1>6. Valid(c)
  BY <1>3, <1>5 DEF Valid
<1>7. Delayed(c)
  BY <1>3, <1>5 DEF Good, Delayed, Due
<1>8. ASSUME NEW p \in Enabled(c), ~stp_is_designated_port(c, p)
      PROVE  c.ports[p].message_age_timer # Off
  <2>1. p \in Port /\ p \in Enabled(s)
    BY <1>3, <1>5, <1>8 DEF Enabled
  <2>2. p \notin own
    <3>1. SUFFICES ASSUME p \in own PROVE FALSE
      OBVIOUS
    <3>2. s.ports[p].designated_port = s.ports[p].port_id
      BY <3>1 DEF own, stp_is_designated_port
    <3> QED BY <1>2, <1>3, <1>5, <1>8, <2>1, <3>1, <3>2 DEF stp_is_designated_port
  <2>3. ~stp_is_designated_port(s, p)
    BY <2>1, <2>2 DEF own
  <2> QED BY <1>3, <1>5, <2>1, <2>3 DEF Good, Aged
<1>9. Good(r) /\ r.bridge_id = c.bridge_id
  <2>1. stp_is_root_bridge(s) => c.hello_timer # Off
    BY <1>5 DEF Good, Greets
  <2> QED BY <1>6, <1>7, <1>8, <2>1, ReconsiderKeeps DEF Aged
<1> HIDE DEF r
<1> QED BY <1>1, <1>5, <1>9

\* What the port watcher is told changes nothing.
LEMMA ChangedPortsTalks ==
    ASSUME NEW s, Valid(s)
    PROVE  Talks(s, stp_get_changed_ports(s))
<1> DEFINE ports == [p \in Port |->
                       IF p >= s.first_changed_port /\ s.ports[p].state_changed
                       THEN [s.ports[p] EXCEPT !.state_changed = FALSE, !.flag = s.ports[p].state]
                       ELSE s.ports[p]]
           t == [s EXCEPT !.ports = ports, !.first_changed_port = NPorts + 1]
<1>1. s \in StpRec /\ \A p \in Port : s.ports[p] \in PortRec /\ s.ports[p].port_id = p
  BY DEF Valid, StpRec
<1>2. ASSUME NEW p \in Port
      PROVE  ports[p] \in PortRec /\ ports[p].port_id = p /\ SamePort(s.ports[p], ports[p])
  <2>1. s.ports[p] \in PortRec /\ s.ports[p].port_id = p
    BY <1>1
  <2> QED BY <2>1 DEF PortRec, SamePort
<1>3. ports \in [Port -> PortRec]
  <2>1. ports = [p \in Port |-> ports[p]]
    OBVIOUS
  <2> HIDE DEF ports
  <2> QED BY <1>2, <2>1
<1>4. stp_get_changed_ports(s) = t
  BY DEF stp_get_changed_ports
<1> HIDE DEF ports
<1>5. t \in StpRec /\ t.ports = ports /\ SameRoot(s, t) /\ t.hello_timer = s.hello_timer /\ t.out = s.out
  <2>1. NPorts + 1 \in Nat
    BY StpAssumption
  <2> QED BY <1>1, <1>3, <2>1 DEF StpRec, SameRoot
<1> HIDE DEF t
<1>6. Talks(s, t)
  BY <1>2, <1>5, TalksIs
<1> QED BY <1>4, <1>6

\* A new bridge has nothing to forget.
LEMMA CreateIsGood ==
    ASSUME NEW id \in Nat
    PROVE  Good(stp_create(id)) /\ stp_create(id).bridge_id = id
<1> DEFINE s == stp_create(id)
<1>1. NPorts + 1 \in Nat /\ FirstCost \in Nat \ {0} /\ Off \in Timer /\ 0 \in Timer /\ 0 # Off
      /\ "disabled" \in State
  BY StpAssumption DEF Timer, Off, State
<1>2. ASSUME NEW p \in Port PROVE s.ports[p] \in PortRec /\ s.ports[p].port_id = p /\ s.ports[p].state = "disabled"
  BY <1>1 DEF PortRec, stp_create
<1>3. /\ s.bridge_id = id /\ s.designated_root = id /\ s.hello_timer = 0 /\ s.out = <<>>
      /\ s.ports = [p \in Port |-> s.ports[p]]
  BY DEF stp_create
<1>4. s \in StpRec
  <2> DEFINE ports == s.ports
  <2>1. ports \in [Port -> PortRec]
    <3> HIDE DEF s
    <3> QED BY <1>2, <1>3
  <2>2. s = [bridge_id |-> id, designated_root |-> id, root_path_cost |-> 0, root_port |-> NULL,
             topology_change_detected |-> FALSE, topology_change |-> FALSE,
             hello_timer |-> 0, tcn_timer |-> Off, topology_change_timer |-> Off,
             ports |-> ports, first_changed_port |-> 1, out |-> <<>>]
    BY DEF stp_create
  <2>3. <<>> \in Seq([port : Port, bpdu : Bpdu])
    OBVIOUS
  <2> HIDE DEF s, ports
  <2> QED BY <1>1, <2>1, <2>2, <2>3 DEF StpRec
<1> HIDE DEF s
<1>5. Enabled(s) = {}
  BY <1>2 DEF Enabled
<1>6. Valid(s) /\ Delayed(s) /\ Aged(s)
  BY <1>2, <1>3, <1>4, <1>5 DEF Valid, Delayed, Due, Aged
<1>7. stp_is_root_bridge(s)
  BY <1>3 DEF stp_is_root_bridge
<1> QED BY <1>1, <1>3, <1>6, <1>7 DEF Good, Rooted, Greets, s

\* What is sent is taken away.
LEMMA SentIsGood ==
    ASSUME NEW s, Good(s)
    PROVE  LET t == [s EXCEPT !.out = <<>>] IN Good(t) /\ t.bridge_id = s.bridge_id /\ t.out = <<>>
<1> DEFINE t == [s EXCEPT !.out = <<>>]
<1>1. s \in StpRec /\ Valid(s)
  BY DEF Good, Valid
<1>2. /\ t \in StpRec /\ t.out = <<>> /\ t.ports = s.ports /\ SameRoot(s, t)
      /\ t.hello_timer = s.hello_timer
  <2>1. <<>> \in Seq([port : Port, bpdu : Bpdu])
    OBVIOUS
  <2> QED BY <1>1, <2>1 DEF StpRec, SameRoot
<1> HIDE DEF t
<1>3. Valid(t)
  BY <1>1, <1>2 DEF Valid
<1>4. Good(t)
  BY <1>2, <1>3 DEF Good, Delayed, Aged, Enabled, stp_is_designated_port, Rooted, Greets,
                    stp_is_root_bridge, SameRoot, Candidates
<1> QED BY <1>2, <1>4 DEF t, SameRoot

\* A new bridge whose ports are enabled, as far as they are up.
LEMMA NewBridgeIsGood ==
    ASSUME NEW id \in Nat, NEW up
    PROVE  LET s == stp_start(id, up) IN Good(s) /\ s.bridge_id = id /\ s.out = <<>>
<1> DEFINE c == stp_create(id)
           D == {t \in StpRec : Good(t) /\ t.bridge_id = id}
           s == EnableUp(c, up)
<1>1. c \in D
  BY CreateIsGood DEF Good, Valid
<1>2. ASSUME NEW p \in Port, NEW t \in D PROVE stp_port_enable(t, p) \in D
  BY EnableKeeps DEF Good, Valid
<1> HIDE DEF D, c
<1>3. s \in D
  BY <1>1, <1>2, EnableLoop
<1> HIDE DEF s
<1>4. Good(s) /\ s.bridge_id = id
  BY <1>3 DEF D
<1>5. stp_start(id, up) = [s EXCEPT !.out = <<>>]
  BY DEF stp_start, EnableUp, s, c
<1> QED BY <1>4, <1>5, SentIsGood

\* A bridge is told that one of its ports is another one.
LEMMA MadeTalks ==
    ASSUME NEW s, Valid(s), NEW p \in Port
    PROVE  Talks(s, [s EXCEPT !.ports[p].flag = "none"])
<1> DEFINE d == [s.ports[p] EXCEPT !.flag = "none"]
<1>1. s.ports[p] \in PortRec /\ s \in StpRec
  BY DEF Valid, StpRec
<1>2. d \in PortRec /\ SamePort(s.ports[p], d) /\ d.port_id = s.ports[p].port_id
  BY <1>1 DEF PortRec, SamePort
<1>3. [s EXCEPT !.ports[p].flag = "none"] = PutPort(s, p, d)
  BY <1>1 DEF PutPort, StpRec
<1> HIDE DEF d
<1> QED BY <1>2, <1>3, PortTalks

-----------------------------------------------------------------------------
(* The network *)

\* What may reach port p of b, when the bridges have these ids: nothing that says that
\* it was sent there.
Heard(id, b, p) ==
    {m \in Bpdu : m.type = "config" => ~(m.bridge_id = id[b] /\ m.port_id = p)}
Net(id) == {n \in [Bridge -> [Port -> Seq(Bpdu)]] :
               \A b \in Bridge : \A p \in Port : n[b][p] \in Seq(Heard(id, b, p))}
Ids == [b \in Bridge |-> bridge[b].bridge_id]

\* The inductive invariant.
IInv == /\ bridge \in [Bridge -> StpRec]
        /\ \A b \in Bridge : Good(bridge[b]) /\ bridge[b].out = <<>>
        /\ \A b, c \in Bridge : Ids[b] = Ids[c] => b = c
        /\ net \in Net(Ids)

\* A LAN carries what a port of b sends to the other ports.
LEMMA SentIsHeard ==
    ASSUME NEW id, NEW m \in Net(id), NEW b \in Bridge, NEW o, Own(id[b], o),
           \A c \in Bridge : id[c] = id[b] => c = b
    PROVE  Sent(m, b, o) \in Net(id)
<1> DEFINE S == Sent(m, b, o)
<1>1. o.port \in Port /\ o.bpdu \in Bpdu
  BY DEF Own
<1>2. ASSUME NEW c \in Bridge, NEW p \in Port
      PROVE  S[c][p] \in Seq(Heard(id, c, p)) /\ S[c][p] \in Seq(Bpdu)
  <2>1. m[c][p] \in Seq(Heard(id, c, p))
    BY DEF Net
  <2>2. <<c, p>> # <<b, o.port>> => o.bpdu \in Heard(id, c, p)
    BY <1>1 DEF Heard, Own
  <2>3. S[c][p] \in {m[c][p], Append(m[c][p], o.bpdu)} /\ (S[c][p] = m[c][p] \/ <<c, p>> # <<b, o.port>>)
    BY DEF Sent
  <2> DEFINE H == Heard(id, c, p)
  <2>4. H \subseteq Bpdu
    BY DEF Heard
  <2>5. m[c][p] \in Seq(H) /\ (o.bpdu \in H => Append(m[c][p], o.bpdu) \in Seq(H))
    <3> HIDE DEF H
    <3>1. m[c][p] \in Seq(H)
      BY <2>1 DEF H
    <3> QED BY <3>1
  <2> HIDE DEF H, S
  <2>7. S[c][p] \in Seq(H)
    BY <2>2, <2>3, <2>5 DEF H
  <2>6. \A x \in Seq(H) : x \in Seq(Bpdu)
    BY <2>4
  <2> QED BY <2>6, <2>7 DEF H
<1>3. S = [c \in Bridge |-> [p \in Port |-> S[c][p]]]
  BY DEF Sent
<1> HIDE DEF S
<1>4. S \in [Bridge -> [Port -> Seq(Bpdu)]]
  BY <1>2, <1>3
<1>5. S \in Net(id)
  BY <1>2, <1>4 DEF Net
<1> QED BY <1>5 DEF S

\* It carries all that b sends.
LEMMA CarriedIsHeard ==
    ASSUME NEW id, NEW n \in Net(id), NEW b \in Bridge, NEW out \in Seq([port : Port, bpdu : Bpdu]),
           \A k \in 1..Len(out) : Own(id[b], out[k]),
           \A c \in Bridge : id[c] = id[b] => c = b
    PROVE  Carried(n, b, out) \in Net(id)
<1> DEFINE N == Len(out)
           D == Net(id)
           Step(m, k) == Sent(m, b, out[k])
           Body(f) == [k \in 0..N |->
                         IF k = 0 THEN n ELSE CHOOSE x \in {Step(m, k) : m \in {f[k - 1]}} : TRUE]
           after == CHOOSE f : f = Body(f)
           g == [x \in D \X (1..N) |-> Step(x[1], x[2])]
<1>1. N \in Nat
  OBVIOUS
<1>2. Carried(n, b, out) = after[N]
  BY DEF Carried
<1> HIDE DEF N
<1>3. \A k \in 1..N : \A m \in D : Step(m, k) \in D
  BY SentIsHeard DEF N
<1> HIDE DEF Step, D
<1>4. \A k \in 1..N : \A m \in D : g[<<m, k>>] = Step(m, k)
  OBVIOUS
<1>5. n \in D
  BY DEF D
<1>6. PICK f : IsRun(f, N, D, n, g)
  <2>1. IsLoop(N, D, n, g)
    BY <1>1, <1>3, <1>5 DEF IsLoop
  <2> HIDE DEF g
  <2> QED BY <2>1, LoopRuns
<1> HIDE DEF g
<1>7. f = Body(f)
  <2>1. f \in [0..N -> D]
    BY <1>6 DEF IsRun
  <2>2. ASSUME NEW k \in 0..N PROVE f[k] = Body(f)[k]
    <3>1. CASE k = 0
      BY <1>6, <3>1 DEF IsRun
    <3>2. CASE k # 0
      <4>1. k \in 1..N /\ k - 1 \in 0..N
        BY <1>1, <3>2
      <4>2. f[k] = g[<<f[k - 1], k>>] /\ f[k - 1] \in D
        BY <1>6, <4>1 DEF IsRun
      <4> QED BY <1>4, <3>2, <4>1, <4>2
    <3> QED BY <3>1, <3>2
  <2> QED BY <2>1, <2>2
<1>8. after = Body(after)
  <2> HIDE DEF Body
  <2> QED BY <1>7
<1> HIDE DEF after
<1> DEFINE T == {k \in 0..N : after[k] \in D}
<1>9. 0 \in T
  BY <1>1, <1>5, <1>8
<1>10. ASSUME NEW k \in 1..N, k - 1 \in T PROVE k \in T
  <2>1. after[k - 1] \in D /\ k \in 0..N /\ k # 0
    BY <1>1, <1>10
  <2>2. after[k] = Step(after[k - 1], k)
    BY <1>8, <2>1
  <2> QED BY <1>3, <2>1, <2>2
<1> HIDE DEF T
<1>11. N \in T
  BY <1>1, <1>9, <1>10, IntervalInduction
<1> QED BY <1>2, <1>11 DEF T, D

-----------------------------------------------------------------------------
(* The invariant *)

\* What a bridge does that has forgotten nothing.
LEMMA DoesKeeps ==
    ASSUME IInv, NEW b \in Bridge, NEW s, Good(s),
           \A c \in Bridge \ {b} : Ids[c] # s.bridge_id,
           NEW n \in Net([Ids EXCEPT ![b] = s.bridge_id]), Does(b, s, n)
    PROVE  IInv'
<1> DEFINE t == [s EXCEPT !.out = <<>>]
           id == [Ids EXCEPT ![b] = s.bridge_id]
<1>1. Good(t) /\ t.bridge_id = s.bridge_id /\ t.out = <<>> /\ t \in StpRec
  BY SentIsGood DEF Good, Valid
<1>2. bridge' = [bridge EXCEPT ![b] = t] /\ net' = Carried(n, b, s.out)
  BY DEF Does
<1> HIDE DEF t
<1>3. bridge' \in [Bridge -> StpRec] /\ bridge'[b] = t /\ \A c \in Bridge \ {b} : bridge'[c] = bridge[c]
  BY <1>1, <1>2 DEF IInv
<1>4. \A c \in Bridge : Good(bridge'[c]) /\ bridge'[c].out = <<>>
  BY <1>1, <1>3 DEF IInv
<1>5. Ids' = id
  BY <1>1, <1>3 DEF Ids
<1>6. \A c, d \in Bridge : id[c] = id[d] => c = d
  BY DEF IInv, Ids
<1>7. id[b] = s.bridge_id
  BY DEF Ids
<1> HIDE DEF id
<1>8. Carried(n, b, s.out) \in Net(id)
  <2>1. s.out \in Seq([port : Port, bpdu : Bpdu]) /\ \A k \in 1..Len(s.out) : Own(id[b], s.out[k])
    BY <1>7 DEF Good, Valid, StpRec
  <2>2. n \in Net(id)
    BY DEF id
  <2> QED BY <1>6, <2>1, <2>2, CarriedIsHeard
<1>9. Net(Ids)' = Net(id)
  BY <1>5 DEF Net, Heard
<1>10. (\A c \in Bridge : Good(bridge[c]) /\ bridge[c].out = <<>>)'
  BY <1>4 DEF Good, Valid
<1> QED BY <1>2, <1>3, <1>5, <1>6, <1>8, <1>9, <1>10 DEF IInv

\* What a bridge does that keeps its id.
LEMMA SameIdKeeps ==
    ASSUME IInv, NEW b \in Bridge, NEW s, Good(s), s.bridge_id = bridge[b].bridge_id,
           NEW n \in Net(Ids), Does(b, s, n)
    PROVE  IInv'
<1>1. [Ids EXCEPT ![b] = s.bridge_id] = Ids
  BY DEF Ids
<1>2. \A c \in Bridge \ {b} : Ids[c] # s.bridge_id
  BY DEF IInv, Ids
<1> QED BY <1>1, <1>2, DoesKeeps

\* The BPDUs on their way to a port.
LEMMA OnItsWay ==
    ASSUME IInv, NEW b \in Bridge, NEW p \in Port, net[b][p] # <<>>
    PROVE  /\ Head(net[b][p]) \in Heard(Ids, b, p)
           /\ [net EXCEPT ![b][p] = Tail(@)] \in Net(Ids)
<1> DEFINE H == Heard(Ids, b, p)
           n == [net EXCEPT ![b][p] = Tail(@)]
<1>1. net \in Net(Ids) /\ net \in [Bridge -> [Port -> Seq(Bpdu)]]
  BY DEF IInv, Net
<1>2. net[b][p] \in Seq(H) /\ net[b][p] \in Seq(Bpdu)
  BY <1>1 DEF Net
<1> HIDE DEF H
<1>3. Head(net[b][p]) \in H /\ Tail(net[b][p]) \in Seq(H)
  BY <1>2
<1>4. Tail(net[b][p]) \in Seq(Bpdu)
  BY <1>2
<1>5. n \in [Bridge -> [Port -> Seq(Bpdu)]]
  BY <1>1, <1>4
<1>6. ASSUME NEW c \in Bridge, NEW q \in Port PROVE n[c][q] \in Seq(Heard(Ids, c, q))
  <2>1. net[c][q] \in Seq(Heard(Ids, c, q))
    BY <1>1 DEF Net
  <2>2. n[c][q] = IF c = b /\ q = p THEN Tail(net[b][p]) ELSE net[c][q]
    BY <1>1
  <2> HIDE DEF n
  <2> QED BY <1>3, <2>1, <2>2 DEF H
<1> HIDE DEF n
<1>7. n \in Net(Ids)
  BY <1>5, <1>6 DEF Net
<1> QED BY <1>3, <1>7 DEF H, n

\* BPDUs on their way do not bring a bridge its own new id.
LEMMA UnusedId ==
    ASSUME IInv, NEW b \in Bridge, NEW id, Unused(id, b)
    PROVE  net \in Net([Ids EXCEPT ![b] = id])
<1> DEFINE ids == [Ids EXCEPT ![b] = id]
<1>1. net \in [Bridge -> [Port -> Seq(Bpdu)]]
  BY DEF IInv, Net
<1>2. ASSUME NEW c \in Bridge, NEW p \in Port PROVE net[c][p] \in Seq(Heard(ids, c, p))
  <2> DEFINE n == net[c][p]
             H == Heard(ids, c, p)
  <2>1. n \in Seq(Heard(Ids, c, p)) /\ n \in Seq(Bpdu)
    BY <1>1 DEF IInv, Net
  <2>2. <<c, p>> \in Everywhere /\ <<c, p>>[1] = c /\ <<c, p>>[2] = p
    BY DEF Everywhere
  <2>3. \A k \in DOMAIN n : n[k].type = "config" => n[k].bridge_id # id
    BY <2>2 DEF Unused
  <2>4. DOMAIN n = 1..Len(n)
    BY <2>1
  <2>5. ASSUME NEW k \in 1..Len(n) PROVE n[k] \in H
    <3>1. n[k] \in Heard(Ids, c, p)
      <4> DEFINE G == Heard(Ids, c, p)
      <4> HIDE DEF G, n
      <4>1. n \in Seq(G)
        BY <2>1 DEF G
      <4> QED BY <2>5, <4>1 DEF G
    <3>2. n[k].type = "config" => n[k].bridge_id # id
      BY <2>3, <2>4, <2>5
    <3>3. ids[c] = IF c = b THEN id ELSE Ids[c]
      BY DEF Ids
    <3> HIDE DEF n, ids
    <3> QED BY <3>1, <3>2, <3>3 DEF Heard, H
  <2> HIDE DEF n, H
  <2>6. n \in Seq(H)
    BY <2>1, <2>5
  <2> QED BY <2>6 DEF n, H
<1> HIDE DEF ids
<1> QED BY <1>1, <1>2 DEF Net, ids

\* Init (stp_create and the ports that the port watcher enables) establishes the invariant.
LEMMA InitIInv == Init => IInv
<1> SUFFICES ASSUME Init PROVE IInv
  OBVIOUS
<1>0. PICK up \in [Bridge -> SUBSET Port] : bridge = [b \in Bridge |-> stp_start(FirstId[b], up[b])]
  BY DEF Init
<1>1. ASSUME NEW b \in Bridge
      PROVE  Good(bridge[b]) /\ bridge[b].bridge_id = FirstId[b] /\ bridge[b].out = <<>> /\ bridge[b] \in StpRec
  <2>1. FirstId[b] \in Nat
    BY StpAssumption
  <2> DEFINE s == stp_start(FirstId[b], up[b])
  <2>2. bridge[b] = s
    BY <1>0
  <2>3. Good(s) /\ s.bridge_id = FirstId[b] /\ s.out = <<>>
    BY <2>1, NewBridgeIsGood
  <2> HIDE DEF s
  <2> QED BY <2>2, <2>3 DEF Good, Valid
<1>2. bridge \in [Bridge -> StpRec]
  <2> DEFINE f(b) == stp_start(FirstId[b], up[b])
  <2>1. bridge = [b \in Bridge |-> f(b)]
    BY <1>0
  <2> HIDE DEF f
  <2> QED BY <1>1, <2>1
<1>3. \A b, c \in Bridge : Ids[b] = Ids[c] => b = c
  <2>1. \A b, c \in Bridge : FirstId[b] = FirstId[c] => b = c
    BY StpAssumption DEF IsInjective
  <2> QED BY <1>1, <2>1 DEF Ids
<1>4. net \in Net(Ids)
  <2>1. net = [b \in Bridge |-> [p \in Port |-> <<>>]]
    BY DEF Init
  <2>2. ASSUME NEW H PROVE <<>> \in Seq(H)
    OBVIOUS
  <2> QED BY <2>1, <2>2 DEF Net
<1> QED BY <1>1, <1>2, <1>3, <1>4 DEF IInv

\* Every callback of the switch, and every loss on a LAN, keeps it.
LEMMA NextIInv == IInv /\ [Next]_vars => IInv'
<1> SUFFICES ASSUME IInv, [Next]_vars PROVE IInv'
  OBVIOUS
<1>1. ASSUME NEW b \in Bridge
      PROVE  Good(bridge[b]) /\ bridge[b].out = <<>> /\ Valid(bridge[b])
  BY DEF IInv, Good
<1>2. net \in Net(Ids)
  BY DEF IInv
<1>3. ASSUME NEW b \in Bridge, stp_periodic_cb(b) PROVE IInv'
  <2> DEFINE t == stp_tick(bridge[b])
             s == stp_get_changed_ports(t)
  <2>1. Good(t) /\ t.bridge_id = bridge[b].bridge_id
    BY <1>1, TickKeeps
  <2> HIDE DEF t
  <2>2. Good(s) /\ s.bridge_id = t.bridge_id
    BY <2>1, ChangedPortsTalks, TalksGood DEF Good
  <2>3. Does(b, s, net)
    BY <1>3 DEF stp_periodic_cb, t
  <2> HIDE DEF s
  <2> QED BY <1>2, <2>1, <2>2, <2>3, SameIdKeeps
<1>4. ASSUME NEW b \in Bridge, NEW p \in Port, stp_local_packet_cb(b, p) PROVE IInv'
  <2> DEFINE m == Head(net[b][p])
             s == stp_received_bpdu(bridge[b], p, m)
             n == [net EXCEPT ![b][p] = Tail(@)]
  <2>1. m \in Heard(Ids, b, p) /\ n \in Net(Ids)
    BY <1>4, OnItsWay DEF stp_local_packet_cb
  <2>2. Does(b, s, n)
    BY <1>4 DEF stp_local_packet_cb
  <2> HIDE DEF m, n
  <2>3. m \in Bpdu
    BY <2>1 DEF Heard
  <2>4. ASSUME m.type = "config" PROVE NotOwn(bridge[b], p, m)
    BY <2>1, <2>4 DEF Heard, NotOwn, Ids
  <2>5. Good(s) /\ s.bridge_id = bridge[b].bridge_id
    BY <1>1, <2>3, <2>4, ReceivedKeeps
  <2> HIDE DEF s
  <2> QED BY <2>1, <2>2, <2>5, SameIdKeeps
<1>5. ASSUME NEW b \in Bridge, NEW p \in Port, Lose(b, p) PROVE IInv'
  <2>1. bridge' = bridge /\ net' = [net EXCEPT ![b][p] = Tail(@)] /\ net[b][p] # <<>>
    BY <1>5 DEF Lose
  <2>2. net' \in Net(Ids)
    BY <2>1, OnItsWay
  <2>3. Ids' = Ids
    BY <2>1 DEF Ids
  <2>4. Net(Ids)' = Net(Ids)
    BY <2>3 DEF Net, Heard
  <2> QED BY <2>1, <2>2, <2>3, <2>4 DEF IInv
<1>6. ASSUME NEW b \in Bridge, NEW p \in Port, NEW cost \in Costs, NEW made \in BOOLEAN,
             stp_port_changed_cb(b, p, TRUE, cost, made)
      PROVE  IInv'
  <2> DEFINE r == IF made THEN [bridge[b] EXCEPT !.ports[p].flag = "none"] ELSE bridge[b]
             t == stp_port_enable(r, p)
             s == stp_port_set_path_cost(t, p, cost)
  <2>1. Good(r) /\ r.bridge_id = bridge[b].bridge_id
    BY <1>1, MadeTalks, TalksGood
  <2>2. Does(b, s, net)
    BY <1>6 DEF stp_port_changed_cb
  <2> HIDE DEF r
  <2>3. Good(t) /\ t.bridge_id = bridge[b].bridge_id
    BY <2>1, EnableKeeps
  <2> HIDE DEF t
  <2>4. cost \in Nat \ {0}
    BY StpAssumption
  <2>5. Good(s) /\ s.bridge_id = t.bridge_id
    BY <2>3, <2>4, PathCostKeeps
  <2> HIDE DEF s
  <2> QED BY <1>2, <2>2, <2>3, <2>5, SameIdKeeps
<1>7. ASSUME NEW b \in Bridge, NEW p \in Port, stp_port_changed_cb(b, p, FALSE, FirstCost, FALSE)
      PROVE  IInv'
  <2> DEFINE s == stp_port_disable(bridge[b], p)
  <2>1. Good(s) /\ s.bridge_id = bridge[b].bridge_id
    BY <1>1, DisableKeeps
  <2>2. Does(b, s, net)
    BY <1>7 DEF stp_port_changed_cb
  <2> HIDE DEF s
  <2> QED BY <1>2, <2>1, <2>2, SameIdKeeps
<1>8. ASSUME NEW b \in Bridge, NEW id \in Id, stp_local_port_changed_cb(b, id) PROVE IInv'
  <2> DEFINE s == set_bridge_id(bridge[b], id)
  <2>1. Good(s) /\ s.bridge_id = id
    <3>1. id \in Nat
      BY StpAssumption
    <3> QED BY <1>1, <3>1, BridgeIdKeeps
  <2>2. Does(b, s, net) /\ Unused(id, b) /\ \A c \in Bridge \ {b} : bridge[c].bridge_id # id
    BY <1>8 DEF stp_local_port_changed_cb, Unused
  <2> HIDE DEF s
  <2>3. \A c \in Bridge \ {b} : Ids[c] # s.bridge_id
    BY <2>1, <2>2 DEF Ids
  <2>4. net \in Net([Ids EXCEPT ![b] = s.bridge_id])
    BY <2>1, <2>2, UnusedId
  <2> QED BY <2>1, <2>2, <2>3, <2>4, DoesKeeps
<1>9. ASSUME UNCHANGED vars PROVE IInv'
  <2>1. bridge' = bridge /\ net' = net
    BY <1>9 DEF vars
  <2>2. Ids' = Ids
    BY <2>1 DEF Ids
  <2>3. Net(Ids)' = Net(Ids)
    BY <2>2 DEF Net, Heard
  <2> QED BY <2>1, <2>2, <2>3 DEF IInv
<1> QED BY <1>3, <1>4, <1>5, <1>6, <1>7, <1>8, <1>9 DEF Next

\* Nothing that has to happen later was forgotten.
THEOREM NothingIsForgotten == Spec => []NothingForgotten
<1>1. IInv => NothingForgotten
  <2> SUFFICES ASSUME IInv, NEW b \in Bridge
               PROVE  LET s == bridge[b]
                      IN /\ stp_is_root_bridge(s) => s.hello_timer # Off
                         /\ \A p \in Enabled(s) :
                               /\ s.ports[p].state \in {"listening", "learning"}
                                    <=> s.ports[p].forward_delay_timer # Off
                               /\ ~stp_is_designated_port(s, p) => s.ports[p].message_age_timer # Off
    BY DEF NothingForgotten
  <2>1. Good(bridge[b])
    BY DEF IInv
  <2> QED BY <2>1 DEF Good, Greets, Aged, Delayed, Due, Enabled
<1> QED BY <1>1, InitIInv, NextIInv, PTL DEF Spec
=============================================================================
