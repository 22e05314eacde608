------------------------- MODULE DhcpClientProofs -------------------------
(***************************************************************************)
(* The DHCP client gives an address up in time, for every set of offers,   *)
(* every timeout and interval, and any number of calls and messages,       *)
(* unless t2 - t1 has wrapped around in receive_ack.                       *)
(***************************************************************************)
EXTENDS DhcpClient, SequenceTheorems, FiniteSetTheorems, WellFoundedInduction, TLAPS

\* The least element of a non-empty set of naturals.
LEMMA LeastNat ==
    ASSUME NEW T \in SUBSET Nat, T # {}
    PROVE  \E n \in T : \A m \in T : n <= m
<1> DEFINE R == {mn \in Nat \X Nat : mn[1] < mn[2]}
<1>1. IsWellFoundedOn(R, Nat)
  BY NatLessThanWellFounded DEF OpToRel
<1>2. PICK n \in T : \A m \in T : ~ (<<m, n>> \in R)
  BY <1>1, WFMin
<1>3. ASSUME NEW m \in T PROVE n <= m
  <2>1. <<m, n>> \in Nat \X Nat /\ <<m, n>>[1] = m /\ <<m, n>>[2] = n
    OBVIOUS
  <2>2. ~(m < n)
    BY <1>2, <2>1
  <2>3. m \in Nat /\ n \in Nat
    OBVIOUS
  <2> QED BY <2>2, <2>3
<1> QED
  BY <1>3

States == {"INIT", "INIT_REBOOT", "REBOOTING", "SELECTING", "REQUESTING", "BOUND", "RENEWING",
           "REBINDING", "RELEASED"}
Message == [type : {"OFFER", "ACK"}, terms : Terms] \union [type : {"NAK"}, terms : {None}]
Request == [type : {"DISCOVER", "REQUEST"}]
Address == {0} \union Requested \union {t.ip : t \in Terms}

Lease == Terms \union {None}

Client ==
    [state : States, elapsed : Nat, ipaddr : Address, server_ip : BOOLEAN,
     binding : Lease, changed : BOOLEAN, due : Nat, init_delay : Nat,
     lease_left : Int, bound_timeout : Nat, renewing_timeout : Nat, rebinding_timeout : Nat,
     alarm : Nat, queue : Seq(Message)]

\* RENEWING lasts longer than the lease, as t2 - t1 has wrapped around.
Late(c) == Backwards(c.binding) /\ c.renewing_timeout > c.binding.lease
Overdue(c) == c.state # "BOUND" /\ Late(c)

\* The timeout of the state, and the time from then to the last one that is in order.
Current(c) == IF c.state = "BOUND" THEN c.bound_timeout
              ELSE IF c.state = "RENEWING" THEN c.renewing_timeout ELSE c.rebinding_timeout
Later(c) == IF c.state = "BOUND"
            THEN IF Late(c) THEN 0 ELSE c.renewing_timeout + c.rebinding_timeout
            ELSE IF c.state = "RENEWING" THEN c.rebinding_timeout ELSE 0

\* What is left of the state and of those that follow it fits into what is left of the lease.
Fits(c) == c.elapsed <= Current(c) /\ Current(c) - c.elapsed + Later(c) <= c.lease_left
Timely(c) ==
    Bound(c) => /\ c.elapsed <= Longest /\ c.elapsed + c.lease_left < Longest
                /\ c.lease_left < Word
                /\ Overdue(c) \/ Fits(c)

\* The alarm goes off before the timeout of the state.
Watched(c, secs) == Bound(c) /\ ~Overdue(c) => secs <= Current(c) - c.elapsed

TypeOK ==
    /\ cli \in Client /\ cli.alarm = Never
    /\ again \in BOOLEAN
    /\ wake \in Nat
    /\ requests \subseteq Request /\ replies \subseteq Message
    /\ device \in Address
    /\ calls \in Nat /\ asked \in Nat

IInv == TypeOK /\ Timely(cli) /\ (~again => Watched(cli, wake))

-----------------------------------------------------------------------------
(* Numbers *)

\* The constants are numbers.
LEMMA Numbers ==
    /\ LongLease \in Nat /\ LeaseFuzz \in Nat /\ GiveUp \in Nat /\ Deadline \in Nat
    /\ QuestionInterval \in Nat /\ Word \in Nat /\ Longest \in Nat
    /\ \A t \in Terms : t.lease \in Nat /\ t.lease < Word /\ t.lease < Longest
                        /\ t.t1 \in Nat /\ t.t2 \in Nat
    /\ Deadline < QuestionInterval
    /\ (LongLease * 7) \div 8 > LeaseFuzz
    /\ 2 * LongLease < Word
<1>1. {LongLease, LeaseFuzz, GiveUp, Deadline, QuestionInterval, Word, Longest} \subseteq Nat
  BY DhcpAssumption
<1>2. \A t \in Terms : t.lease \in 0..(Word - 1) /\ t.t1 \in Nat /\ t.t2 \in Nat
  BY DhcpAssumption
<1>3. \A t \in Terms : t.lease < Longest
  BY DhcpAssumption
<1> QED
  BY <1>1, <1>2, <1>3, DhcpAssumption

\* MIN of two numbers.
LEMMA Smaller ==
    ASSUME NEW a \in Int, NEW b \in Int
    PROVE  Min({a, b}) = IF a <= b THEN a ELSE b
BY DEF Min

\* MAX of two numbers.
LEMMA Larger ==
    ASSUME NEW a \in Int, NEW b \in Int
    PROVE  Max({a, b}) = IF b <= a THEN a ELSE b
BY DEF Max

\* clamp() stays between its limits.
LEMMA Clamped ==
    ASSUME NEW x \in Int, NEW low \in Int, NEW high \in Int
    PROVE  /\ Clamp(x, low, high) \in Int /\ Clamp(x, low, high) <= high
           /\ low <= high => low <= Clamp(x, low, high)
<1>0. Max({x, low}) = IF low <= x THEN x ELSE low
  BY Larger
<1>1. Max({x, low}) \in Int /\ Max({x, low}) >= low
  BY <1>0
<1> DEFINE m == Max({x, low})
<1> HIDE DEF m
<1>2. m \in Int /\ m >= low
  BY <1>1 DEF m
<1>3. Min({m, high}) = IF m <= high THEN m ELSE high
  BY <1>2, Smaller
<1>4. Clamp(x, low, high) = Min({m, high})
  BY DEF Clamp, m
<1> QED
  BY <1>2, <1>3, <1>4

-----------------------------------------------------------------------------
(* Sequences of messages *)

\* dhcp_receive skips messages: the one it returns is in the queue.
LEMMA Found ==
    ASSUME NEW T \in SUBSET Nat, T # {}
    PROVE  Min(T) \in T
BY LeastNat DEF Min

\* What remains of the queue.
LEMMA Remaining ==
    ASSUME NEW q \in Seq(Message), NEW i \in {0} \union DOMAIN q
    PROVE  RestAfter(q, i) \in Seq(Message)
<1>1. Len(q) \in Nat /\ DOMAIN q = 1..Len(q)
  BY LenProperties
<1>2. CASE i = 0
  BY <1>2, EmptySeq DEF RestAfter
<1>3. CASE i # 0
  <2>1. i + 1 \in 1..(Len(q) + 1)
    BY <1>1, <1>3
  <2>2. SubSeq(q, i + 1, Len(q)) \in Seq(Message)
    BY <1>1, <2>1, SubSeqProperties
  <2> QED BY <1>3, <2>2 DEF RestAfter
<1> QED
  BY <1>2, <1>3

\* Only a NAK carries no terms.
LEMMA Carries ==
    ASSUME NEW q \in Seq(Message), NEW i \in DOMAIN q, q[i].type # "NAK"
    PROVE  q[i].terms \in Terms
<1>1. q[i] \in Message
  BY LenProperties, ElementOfSeq
<1> QED
  BY <1>1 DEF Message

-----------------------------------------------------------------------------
(* Transitions *)

\* state_transition keeps the lease and its timeouts.
LEMMA Transition ==
    ASSUME NEW c \in Client, NEW s \in States
    PROVE  LET d == state_transition(c, s)
           IN /\ d \in Client /\ d.state = s /\ d.elapsed = 0
              /\ d.lease_left = c.lease_left /\ d.bound_timeout = c.bound_timeout
              /\ d.renewing_timeout = c.renewing_timeout
              /\ d.rebinding_timeout = c.rebinding_timeout
              /\ d.alarm = c.alarm /\ d.ipaddr = c.ipaddr
              /\ s \in {"BOUND", "RENEWING", "REBINDING"} => d.binding = c.binding
<1> DEFINE ch == c.changed \/ Bound(c) # (s \in {"BOUND", "RENEWING", "REBINDING"})
           bi == IF Bound(c) /\ s \notin {"BOUND", "RENEWING", "REBINDING"} THEN None ELSE c.binding
           qu == IF s \in {"SELECTING", "REQUESTING", "REBOOTING"} THEN <<>> ELSE c.queue
           d  == state_transition(c, s)
<1>1. /\ ch \in BOOLEAN /\ bi \in Lease /\ qu \in Seq(Message)
  BY EmptySeq DEF Client, Lease
<1>2. d = [c EXCEPT !.state = s, !.elapsed = 0, !.due = 0, !.changed = ch, !.binding = bi,
                    !.queue = qu]
  BY DEF state_transition, Client
<1>4. s \in {"BOUND", "RENEWING", "REBINDING"} => bi = c.binding
  OBVIOUS
<1> HIDE DEF ch, bi, qu, d
<1>5. d.binding = bi
  BY <1>2 DEF Client
<1>3. /\ d \in Client /\ d.state = s /\ d.elapsed = 0
      /\ d.lease_left = c.lease_left /\ d.bound_timeout = c.bound_timeout
      /\ d.renewing_timeout = c.renewing_timeout
      /\ d.rebinding_timeout = c.rebinding_timeout
      /\ d.alarm = c.alarm /\ d.ipaddr = c.ipaddr
  BY <1>1, <1>2 DEF Client
<1> QED
  BY <1>3, <1>4, <1>5 DEF d

\* Where the timeout of a state is over, the next one begins in time.
LEMMA Onwards ==
    ASSUME NEW c \in Client, NEW s \in States, Timely(c),
           \/ s \notin {"BOUND", "RENEWING", "REBINDING"}
           \/ c.state = "BOUND" /\ s = "RENEWING" /\ c.elapsed >= c.bound_timeout
           \/ c.state = "RENEWING" /\ s = "REBINDING" /\ c.elapsed >= c.renewing_timeout
    PROVE  Timely(state_transition(c, s))
<1> DEFINE d == state_transition(c, s)
<1>1. /\ d.state = s /\ d.elapsed = 0
      /\ d.lease_left = c.lease_left /\ d.bound_timeout = c.bound_timeout
      /\ d.renewing_timeout = c.renewing_timeout
      /\ d.rebinding_timeout = c.rebinding_timeout
      /\ s \in {"BOUND", "RENEWING", "REBINDING"} => d.binding = c.binding
  BY Transition
<1>2. /\ c.elapsed \in Nat /\ c.lease_left \in Int /\ c.bound_timeout \in Nat
      /\ c.renewing_timeout \in Nat /\ c.rebinding_timeout \in Nat /\ Longest \in Nat
  BY Numbers DEF Client
<1> HIDE DEF d
<1>3. CASE s \notin {"BOUND", "RENEWING", "REBINDING"}
  BY <1>1, <1>3 DEF Timely, Bound, d
<1>4. CASE \/ c.state = "BOUND" /\ s = "RENEWING" /\ c.elapsed >= c.bound_timeout
           \/ c.state = "RENEWING" /\ s = "REBINDING" /\ c.elapsed >= c.renewing_timeout
  <2>1. /\ c.elapsed <= Longest /\ c.elapsed + c.lease_left < Longest /\ c.lease_left < Word
        /\ Overdue(c) \/ Fits(c)
    BY <1>4 DEF Timely, Bound
  <2>2. d.elapsed <= Longest /\ d.elapsed + d.lease_left < Longest /\ d.lease_left < Word
    BY <1>1, <1>2, <2>1
  <2>3. d.state # "BOUND" /\ (Late(d) <=> Late(c))
    BY <1>1, <1>4 DEF Late
  <2>4. CASE Late(c)
    BY <2>2, <2>3, <2>4 DEF Timely, Overdue, d
  <2>5. CASE ~Late(c)
    <3>1. Fits(c)
      BY <2>1, <2>5 DEF Overdue
    <3>2. Fits(d)
      <4>1. CASE c.state = "BOUND"
        <5>1. /\ c.bound_timeout - c.elapsed + (c.renewing_timeout + c.rebinding_timeout)
                     <= c.lease_left
              /\ c.elapsed <= c.bound_timeout /\ c.elapsed >= c.bound_timeout
          BY <1>4, <2>5, <3>1, <4>1 DEF Fits, Current, Later
        <5>2. Current(d) = c.renewing_timeout /\ Later(d) = c.rebinding_timeout
          BY <1>1, <1>4, <4>1 DEF Current, Later
        <5>3. /\ 0 <= c.renewing_timeout
              /\ c.renewing_timeout - 0 + c.rebinding_timeout <= c.lease_left
          BY <1>2, <5>1
        <5> QED BY <1>1, <5>2, <5>3 DEF Fits
      <4>2. CASE c.state = "RENEWING"
        <5>1. /\ c.renewing_timeout - c.elapsed + c.rebinding_timeout <= c.lease_left
              /\ c.elapsed <= c.renewing_timeout /\ c.elapsed >= c.renewing_timeout
          BY <1>4, <3>1, <4>2 DEF Fits, Current, Later
        <5>2. Current(d) = c.rebinding_timeout /\ Later(d) = 0
          BY <1>1, <1>4, <4>2 DEF Current, Later
        <5>3. 0 <= c.rebinding_timeout /\ c.rebinding_timeout - 0 + 0 <= c.lease_left
          BY <1>2, <5>1
        <5> QED BY <1>1, <5>2, <5>3 DEF Fits
      <4> QED BY <1>4, <4>1, <4>2
    <3> QED BY <2>2, <3>2 DEF Timely, d
  <2> QED BY <2>4, <2>5
<1> QED
  BY <1>3, <1>4

-----------------------------------------------------------------------------
(* A new lease *)

\* T1, T2 and the end of the lease follow one another, or the server's T2 is before T1.
LEMMA TimesInOrder ==
    ASSUME NEW m \in Terms, NEW t2 \in T2s(m), NEW t1 \in T1s(m, t2)
    PROVE  /\ t1 \in Nat /\ t2 \in Nat /\ t1 <= m.lease /\ t2 <= m.lease
           /\ t1 <= t2 \/ (Backwards(m) /\ t2 < t1)
<1> DEFINE l == m.lease
<1>1. l \in Nat /\ m.t1 \in Nat /\ m.t2 \in Nat /\ LongLease \in Nat /\ LeaseFuzz \in Nat
  BY Numbers
<1>2. \A f \in -LeaseFuzz..LeaseFuzz : f \in Int
  BY <1>1
<1>3. /\ t2 \in Nat /\ t2 <= l
      /\ l >= LongLease => t2 > 0
      /\ l < LongLease => l \div 2 <= t2 \/ (0 < m.t2 /\ m.t2 < l /\ t2 = m.t2)
  <2>1. CASE m.t2 = 0 \/ m.t2 >= l
    <3>1. t2 \in calc_t2(l)
      BY <2>1 DEF T2s
    <3>2. CASE l >= LongLease
      <4>1. PICK f \in -LeaseFuzz..LeaseFuzz : t2 = Clamp((l * 7) \div 8 + f, 0, l - 1)
        BY <3>1, <3>2 DEF calc_t2
      <4> DEFINE x == (l * 7) \div 8 + f
      <4>2. l - 1 \in Int /\ l - 1 >= 1 /\ x \in Int /\ x >= 1
        <5> HIDE DEF l
        <5> QED BY <1>1, <1>2, <3>2, Numbers
      <4>3. Clamp(x, 0, l - 1) = IF x <= l - 1 THEN x ELSE l - 1
        <5> HIDE DEF x, l
        <5>0. Max({x, 0}) = IF 0 <= x THEN x ELSE 0
          BY <4>2, Larger
        <5>1. Max({x, 0}) = x
          BY <4>2, <5>0
        <5>2. Min({x, l - 1}) = IF x <= l - 1 THEN x ELSE l - 1
          BY <4>2, Smaller
        <5> QED BY <5>1, <5>2 DEF Clamp
      <4> HIDE DEF x
      <4>4. t2 \in Int /\ t2 <= l - 1 /\ t2 >= 1
        BY <4>1, <4>2, <4>3 DEF x
      <4> QED BY <1>1, <3>2, <4>4
    <3>3. CASE ~(l >= LongLease)
      <4>1. t2 = (l * 7) \div 8
        BY <3>1, <3>3 DEF calc_t2
      <4> HIDE DEF l
      <4>2. (l * 7) \div 8 \in Nat /\ (l * 7) \div 8 <= l /\ l \div 2 <= (l * 7) \div 8
        BY <1>1
      <4> QED BY <3>3, <4>1, <4>2
    <3> QED BY <3>2, <3>3
  <2>2. CASE ~(m.t2 = 0 \/ m.t2 >= l)
    <3>1. t2 = m.t2
      BY <2>2 DEF T2s
    <3> QED BY <1>1, <2>2, <3>1
  <2> QED BY <2>1, <2>2
<1>4. CASE ~(m.t1 = 0 \/ m.t1 >= t2)
  <2>1. t1 = m.t1
    BY <1>4 DEF T1s
  <2> QED BY <1>1, <1>3, <1>4, <2>1
<1>5. CASE m.t1 = 0 \/ m.t1 >= t2
  <2>1. t1 \in calc_t1(l, t2)
    BY <1>5 DEF T1s
  <2>2. CASE l >= LongLease
    <3>1. PICK f \in -LeaseFuzz..LeaseFuzz : t1 = Clamp(l \div 2 + f, 0, t2 - 1)
      BY <2>1, <2>2 DEF calc_t1
    <3>2. l \div 2 + f \in Int /\ t2 - 1 \in Int /\ 0 <= t2 - 1
      BY <1>1, <1>2, <1>3, <2>2
    <3>3. t1 \in Int /\ t1 <= t2 - 1 /\ 0 <= t1
      <4> DEFINE x == l \div 2 + f
                 h == t2 - 1
      <4>1. x \in Int /\ h \in Int /\ 0 <= h /\ 0 \in Int /\ t1 = Clamp(x, 0, h)
        BY <3>1, <3>2
      <4> HIDE DEF x, h
      <4>2. t1 \in Int /\ t1 <= h /\ 0 <= t1
        BY <4>1, Clamped
      <4> QED BY <4>2 DEF h
    <3>4. t1 \in Nat /\ t1 <= t2 /\ t1 <= l
      <4> HIDE DEF l
      <4> QED BY <1>1, <1>3, <3>3
    <3> QED BY <1>3, <3>4
  <2>3. CASE ~(l >= LongLease)
    <3>1. t1 = l \div 2
      BY <2>1, <2>3 DEF calc_t1
    <3>2. l \div 2 \in Nat /\ l \div 2 <= l
      <4> HIDE DEF l
      <4> QED BY <1>1
    <3>3. CASE l \div 2 <= t2
      BY <1>1, <1>3, <3>1, <3>2, <3>3
    <3>4. CASE ~(l \div 2 <= t2)
      <4>1. 0 < m.t2 /\ m.t2 < l /\ t2 = m.t2
        BY <1>3, <2>3, <3>4, <1>1
      <4>2. m.t2 < l \div 2
        BY <1>1, <3>2, <3>4, <4>1
      <4>3. Backwards(m)
        BY <1>1, <1>5, <2>3, <4>1, <4>2 DEF Backwards
      <4> QED BY <1>1, <1>3, <3>1, <3>2, <4>1, <4>2, <4>3
    <3> QED BY <3>3, <3>4
  <2> QED BY <2>2, <2>3
<1> QED
  BY <1>4, <1>5

\* receive_ack starts a lease in time.
LEMMA Accepted ==
    ASSUME NEW c \in Client, NEW m \in Terms, NEW t2 \in T2s(m),
           NEW t1 \in T1s(m, t2)
    PROVE  LET d == Accept(c, m, t1, t2)
           IN d \in Client /\ d.state = "BOUND" /\ Timely(d)
<1> DEFINE l  == m.lease
           rn == (t2 - t1) % Word
           rb == l - t2
           ch == c.changed \/ (c.binding # None /\ ~same_binding(c.binding, m))
           ip == m.ip
           bi == m
           e  == [c EXCEPT !.changed = ch, !.binding = bi, !.ipaddr = ip, !.lease_left = l,
                           !.bound_timeout = t1, !.renewing_timeout = rn,
                           !.rebinding_timeout = rb]
           d  == Accept(c, m, t1, t2)
<1>1. /\ t1 \in Nat /\ t2 \in Nat /\ t1 <= l /\ t2 <= l /\ l \in Nat /\ l < Word /\ l < Longest
      /\ Word \in Nat /\ Longest \in Nat
      /\ t1 <= t2 \/ (Backwards(m) /\ t2 < t1)
  BY TimesInOrder, Numbers
<1>11. Backwards(m) => 2 * l < Word
  <2>1. Backwards(m) => l < LongLease
    BY DEF Backwards
  <2> HIDE DEF l
  <2> QED BY <1>1, <2>1, Numbers
<1> HIDE DEF l
<1>2. rb \in Nat /\ rn \in Nat
  <2>1. t2 - t1 \in Int /\ Word > 0
    BY <1>1
  <2> QED BY <1>1, <2>1
<1>3. t1 <= t2 => rn = t2 - t1
  <2>1. t1 <= t2 => t2 - t1 \in Nat /\ t2 - t1 < Word
    BY <1>1
  <2> QED BY <1>1, <2>1
<1>4. t2 < t1 => rn > l
  <2>1. t2 < t1 => t2 - t1 + Word \in Nat /\ t2 - t1 + Word < Word /\ t2 - t1 + Word > l
    BY <1>1, <1>11
  <2>2. t2 < t1 => rn = t2 - t1 + Word
    BY <1>1, <2>1
  <2> QED BY <2>1, <2>2
<1>5. ch \in BOOLEAN /\ ip \in Address /\ bi \in Lease
  BY DEF Client, Address, Lease
<1>6. d = state_transition(e, "BOUND")
  BY DEF Accept, l
<1> HIDE DEF rn, rb, ch, ip, bi, d
<1>7. /\ e \in Client /\ e.lease_left = l /\ e.bound_timeout = t1
      /\ e.renewing_timeout = rn /\ e.rebinding_timeout = rb /\ e.binding = bi
  <2>1. rn \in Nat /\ rb \in Nat /\ t1 \in Nat /\ l \in Int
    BY <1>1, <1>2
  <2> QED BY <1>5, <2>1 DEF Client
<1> HIDE DEF e
<1>8. "BOUND" \in States
  BY DEF States
<1>9. /\ d \in Client /\ d.state = "BOUND" /\ d.elapsed = 0 /\ d.lease_left = l
      /\ d.bound_timeout = t1 /\ d.renewing_timeout = rn /\ d.rebinding_timeout = rb
      /\ d.binding = m
  <2>1. bi = m
    BY DEF bi
  <2> QED BY <1>6, <1>7, <1>8, <2>1, Transition
<1>10. Timely(d)
  <2>1. Current(d) = t1 /\ Later(d) = IF Late(d) THEN 0 ELSE rn + rb
    BY <1>9 DEF Current, Later
  <2>2. Late(d) <=> Backwards(m) /\ rn > l
    BY <1>9 DEF Late, l
  <2>3. Fits(d)
    <3>1. CASE t1 <= t2
      <4>1. 0 <= t1 /\ t1 - 0 + (rn + rb) <= l /\ t1 - 0 + 0 <= l
        BY <1>1, <1>3, <3>1 DEF rb
      <4> QED BY <1>9, <2>1, <4>1 DEF Fits
    <3>2. CASE Backwards(m) /\ t2 < t1
      <4>1. 0 <= t1 /\ t1 - 0 + 0 <= l /\ Late(d)
        BY <1>1, <1>4, <2>2, <3>2
      <4> QED BY <1>9, <2>1, <4>1 DEF Fits
    <3> QED BY <1>1, <3>1, <3>2
  <2>4. 0 <= Longest /\ 0 + l < Longest
    BY <1>1
  <2> QED BY <1>1, <1>9, <2>3, <2>4 DEF Timely
<1> QED
  BY <1>9, <1>10 DEF d

-----------------------------------------------------------------------------
(* What a state does in one iteration of dhclient_run *)

\* Nothing that the lease depends on is different.
Alike(c, d) ==
    /\ d.state = c.state /\ d.elapsed = c.elapsed /\ d.lease_left = c.lease_left
    /\ d.bound_timeout = c.bound_timeout /\ d.renewing_timeout = c.renewing_timeout
    /\ d.rebinding_timeout = c.rebinding_timeout /\ d.binding = c.binding

\* Then it stays in time.
LEMMA AlikeTimely ==
    ASSUME NEW c, NEW d, Alike(c, d)
    PROVE  /\ Bound(d) = Bound(c) /\ Current(d) = Current(c)
           /\ Timely(c) => Timely(d)
           /\ \A n : Watched(c, n) => Watched(d, n)
BY DEF Alike, Bound, Current, Later, Timely, Watched, Fits, Overdue, Late

\* send_reliably sets the time of the next message.
LEMMA Sent ==
    ASSUME NEW c \in Client, NEW fuzz \in Retransmits
    PROVE  LET d == send_reliably(c, fuzz) IN d \in Client /\ Alike(c, d)
<1>1. fuzz \in Nat /\ c.alarm \in Nat /\ c.due \in Nat
  BY DhcpAssumption DEF Client
<1>2. CASE c.due = 0
  BY <1>1, <1>2 DEF send_reliably, Client, Alike
<1>3. CASE c.due # 0
  <2> DEFINE a == Min({c.alarm, c.due})
  <2>1. a \in Nat
    <3>1. a = IF c.alarm <= c.due THEN c.alarm ELSE c.due
      BY <1>1, Smaller
    <3> QED BY <1>1, <3>1
  <2>2. send_reliably(c, fuzz) = [c EXCEPT !.alarm = a]
    BY <1>3 DEF send_reliably
  <2> HIDE DEF a
  <2> QED BY <2>1, <2>2 DEF Client, Alike
<1> QED
  BY <1>2, <1>3

\* The request it sends.
LEMMA SentTyped ==
    ASSUME NEW c, NEW type \in {"DISCOVER", "REQUEST"}
    PROVE  Sends(c, type) \subseteq Request
BY DEF Sends, Request

\* timeout() sets the alarm to the end of the state at the latest.
LEMMA Alarmed ==
    ASSUME NEW c \in Client, NEW secs \in Nat, ~timeout(c, secs)
    PROVE  LET d == Alarm(c, secs)
           IN d \in Client /\ Alike(c, d) /\ d.alarm <= secs - c.elapsed
<1> DEFINE left == secs - c.elapsed
           e == Max({left, 0})
           a == Min({c.alarm, e})
<1>1. c.elapsed \in Nat /\ c.alarm \in Nat /\ left \in Nat
  <2>1. c.elapsed \in Nat /\ c.alarm \in Nat
    BY DEF Client
  <2>2. c.elapsed < secs
    BY <2>1 DEF timeout
  <2> QED BY <2>1, <2>2
<1>2. e = left
  <2> HIDE DEF left
  <2>1. e = IF 0 <= left THEN left ELSE 0
    BY <1>1, Larger
  <2> QED BY <1>1, <2>1
<1> HIDE DEF e, left
<1>3. a = IF c.alarm <= e THEN c.alarm ELSE e
  BY <1>1, <1>2, Smaller
<1> HIDE DEF a
<1>4. a \in Nat /\ a <= left
  BY <1>1, <1>2, <1>3
<1>5. Alarm(c, secs) = [c EXCEPT !.alarm = a]
  BY DEF Alarm, a, e, left
<1>6. [c EXCEPT !.alarm = a] \in Client /\ [c EXCEPT !.alarm = a].alarm = a
      /\ Alike(c, [c EXCEPT !.alarm = a])
  BY <1>4 DEF Client, Alike
<1> QED
  BY <1>4, <1>5, <1>6 DEF left

\* A client whose queue has been read.
LEMMA Read ==
    ASSUME NEW c \in Client, NEW q \in Seq(Message)
    PROVE  LET d == [c EXCEPT !.queue = q]
           IN d \in Client /\ Alike(c, d) /\ d.alarm = c.alarm
BY DEF Client, Alike

\* dhcp_receive returns a message that was asked for, or none.
LEMMA Receives ==
    ASSUME NEW q \in Seq(Message)
    PROVE  LET i == FirstOf(q, LAMBDA m : m.type \in {"ACK", "NAK"})
               j == FirstOf(q, Acceptable)
           IN /\ i \in {0} \union DOMAIN q
              /\ j \in {0} \union DOMAIN q
              /\ j # 0 => q[j].type = "OFFER"
<1> DEFINE I == {k \in DOMAIN q : q[k].type \in {"ACK", "NAK"}}
           J == {k \in DOMAIN q : Acceptable(q[k])}
<1>1. DOMAIN q \subseteq Nat
  BY LenProperties
<1>2. I \subseteq Nat /\ J \subseteq Nat
  BY <1>1
<1>3. FirstOf(q, LAMBDA m : m.type \in {"ACK", "NAK"}) = IF I = {} THEN 0 ELSE Min(I)
  BY DEF FirstOf
<1>4. FirstOf(q, Acceptable) = IF J = {} THEN 0 ELSE Min(J)
  BY DEF FirstOf
<1>5. I # {} => Min(I) \in I
  <2> HIDE DEF I
  <2> QED BY <1>2, Found
<1>6. J # {} => Min(J) \in J
  <2> HIDE DEF J
  <2> QED BY <1>2, Found
<1> QED
  BY <1>3, <1>4, <1>5, <1>6 DEF Acceptable

\* receive_ack starts a lease, gives one up, or only reads.
LEMMA Acked ==
    ASSUME NEW c \in Client, NEW r \in receive_ack(c)
    PROVE  /\ r.cli \in Client
           /\ r.ok => r.cli.state \in {"BOUND", "INIT"} /\ Timely(r.cli)
           /\ ~r.ok => Alike(c, r.cli) /\ r.cli.alarm = c.alarm
<1> DEFINE i == FirstOf(c.queue, LAMBDA m : m.type \in {"ACK", "NAK"})
           d == [c EXCEPT !.queue = RestAfter(c.queue, i)]
           m == c.queue[i]
<1>1. c.queue \in Seq(Message)
  BY DEF Client
<1>2. i \in {0} \union DOMAIN c.queue
  BY <1>1, Receives
<1>3. i # 0 => m.type \in {"ACK", "NAK", "OFFER"}
  BY <1>1, <1>2, LenProperties, ElementOfSeq DEF Message
<1>4. d \in Client /\ Alike(c, d) /\ d.alarm = c.alarm
  BY <1>1, <1>2, Remaining, Read
<1>5. r \in IF i = 0 THEN {[ok |-> FALSE, cli |-> d]}
            ELSE IF m.type = "NAK"
            THEN {[ok |-> TRUE, cli |-> state_transition(d, "INIT")]}
            ELSE IF ~validate_offered_options(m) THEN {[ok |-> FALSE, cli |-> d]}
            ELSE UNION {{[ok |-> TRUE, cli |-> Accept(d, m.terms, t1, t2)] :
                            t1 \in T1s(m.terms, t2)} : t2 \in T2s(m.terms)}
  BY DEF receive_ack
<1> HIDE DEF d, m, i
<1>6. CASE r = [ok |-> FALSE, cli |-> d]
  BY <1>4, <1>6
<1>7. CASE r = [ok |-> TRUE, cli |-> state_transition(d, "INIT")]
  <2>1. "INIT" \in States
    BY DEF States
  <2>2. r.cli \in Client /\ r.cli.state = "INIT" /\ r.ok
    BY <1>4, <1>7, <2>1, Transition
  <2> QED BY <2>2 DEF Timely, Bound
<1>8. CASE /\ i # 0 /\ m.type # "NAK"
           /\ r \in UNION {{[ok |-> TRUE, cli |-> Accept(d, m.terms, t1, t2)] :
                               t1 \in T1s(m.terms, t2)} : t2 \in T2s(m.terms)}
  <2>1. PICK t2 \in T2s(m.terms) : \E t1 \in T1s(m.terms, t2) :
               r = [ok |-> TRUE, cli |-> Accept(d, m.terms, t1, t2)]
    BY <1>8
  <2>2. PICK t1 \in T1s(m.terms, t2) : r = [ok |-> TRUE, cli |-> Accept(d, m.terms, t1, t2)]
    BY <2>1
  <2>3. m.terms \in Terms
    BY <1>1, <1>2, <1>8, Carries DEF m
  <2>4. Accept(d, m.terms, t1, t2) \in Client /\ Accept(d, m.terms, t1, t2).state = "BOUND"
        /\ Timely(Accept(d, m.terms, t1, t2))
    BY <1>4, <2>3, Accepted
  <2> QED BY <2>2, <2>4
<1> QED
  BY <1>5, <1>6, <1>7, <1>8

\* The end of an iteration: the client is in time and will be woken in time.
LEMMA RanInTime ==
    ASSUME IInv, NEW c \in Client, Ran(c), requests' \subseteq Request, Timely(c),
           c.state = cli.state => Watched(c, c.alarm)
    PROVE  IInv'
<1> DEFINE ch == c.changed /\ again'
<1>1. /\ again' = (c.state # cli.state)
      /\ cli' = [c EXCEPT !.changed = ch, !.alarm = Never]
      /\ device' = IF c.changed /\ ~again' THEN dhclient_get_ip(c) ELSE device
      /\ wake' = IF again' THEN 0 ELSE c.alarm
      /\ UNCHANGED <<replies, calls, asked>>
  BY DEF Ran
<1>2. ch \in BOOLEAN /\ Never \in Nat /\ again' \in BOOLEAN
  BY <1>1, Numbers DEF Client, Never
<1> HIDE DEF ch
<1>3. cli' \in Client /\ Alike(c, cli') /\ cli'.alarm = Never
  BY <1>1, <1>2 DEF Client, Alike
<1>4. wake' \in Nat /\ dhclient_get_ip(c) \in Address
  BY <1>1 DEF Client, dhclient_get_ip, Address
<1>5. TypeOK'
  BY <1>1, <1>2, <1>3, <1>4 DEF IInv, TypeOK
<1>6. Timely(cli')
  BY <1>3, AlikeTimely
<1>7. ~again' => Watched(cli', wake')
  BY <1>1, <1>3, AlikeTimely
<1> QED
  BY <1>5, <1>6, <1>7 DEF IInv

-----------------------------------------------------------------------------
(* The states *)

\* A client without an address has nothing to give up.
LEMMA Free ==
    ASSUME NEW c, c.state \notin {"BOUND", "RENEWING", "REBINDING"}
    PROVE  Timely(c) /\ \A n : Watched(c, n)
BY DEF Timely, Watched, Bound

\* INIT and INIT_REBOOT wait for a moment.
LEMMA StepInit ==
    ASSUME IInv, NEW s \in {"INIT", "INIT_REBOOT"}, NEW next \in {"SELECTING", "REBOOTING"},
           do_init(s, next)
    PROVE  IInv'
<1>1. PICK delay \in InitDelays :
         LET c == [cli EXCEPT !.init_delay = IF @ = 0 THEN delay ELSE @]
         IN Ran(IF timeout(c, c.init_delay) THEN state_transition(c, next)
                ELSE Alarm(c, c.init_delay))
  BY DEF do_init
<1> DEFINE n == IF cli.init_delay = 0 THEN delay ELSE cli.init_delay
           c == [cli EXCEPT !.init_delay = n]
<1>2. requests' = requests /\ cli.state = s /\ cli \in Client /\ requests \subseteq Request
  BY DEF do_init, Running, IInv, TypeOK
<1>3. n \in Nat
  BY <1>2, DhcpAssumption DEF Client
<1>4. Ran(IF timeout(c, c.init_delay) THEN state_transition(c, next) ELSE Alarm(c, c.init_delay))
  BY <1>1
<1> HIDE DEF n
<1>5. c \in Client /\ c.init_delay = n /\ c.state = s
  BY <1>2, <1>3 DEF Client
<1> HIDE DEF c
<1>6. CASE timeout(c, c.init_delay)
  <2> DEFINE d == state_transition(c, next)
  <2>1. next \in States
    BY DEF States
  <2>2. d \in Client /\ d.state = next
    BY <1>5, <2>1, Transition
  <2>3. Timely(d) /\ Watched(d, d.alarm)
    BY <2>2, Free
  <2>4. Ran(d)
    BY <1>4, <1>6
  <2> HIDE DEF d
  <2> QED BY <1>2, <2>2, <2>3, <2>4, RanInTime
<1>7. CASE ~timeout(c, c.init_delay)
  <2> DEFINE d == Alarm(c, c.init_delay)
  <2>1. d \in Client /\ d.state = s
    BY <1>3, <1>5, <1>7, Alarmed DEF Alike
  <2>2. Timely(d) /\ Watched(d, d.alarm)
    BY <2>1, Free
  <2>3. Ran(d)
    BY <1>4, <1>7
  <2> HIDE DEF d
  <2> QED BY <1>2, <2>1, <2>2, <2>3, RanInTime
<1> QED
  BY <1>6, <1>7

\* SELECTING waits for an offer.
LEMMA StepSelecting == IInv /\ dhclient_run_SELECTING => IInv'
<1> SUFFICES ASSUME IInv, dhclient_run_SELECTING
             PROVE  IInv'
  OBVIOUS
<1>1. PICK fuzz \in Retransmits :
         LET c == send_reliably(cli, fuzz)
             d == IF c.server_ip THEN IF timeout(c, GiveUp)
                                      THEN state_transition([c EXCEPT !.server_ip = FALSE], "INIT")
                                      ELSE Alarm(c, GiveUp)
                  ELSE c
             i == FirstOf(d.queue, Acceptable)
         IN Ran(IF i = 0 THEN [d EXCEPT !.queue = <<>>]
                ELSE state_transition([d EXCEPT !.server_ip = TRUE,
                                                !.ipaddr = d.queue[i].terms.ip],
                                      "REQUESTING"))
  BY DEF dhclient_run_SELECTING
<1> DEFINE c == send_reliably(cli, fuzz)
           d == IF c.server_ip THEN IF timeout(c, GiveUp)
                                    THEN state_transition([c EXCEPT !.server_ip = FALSE], "INIT")
                                    ELSE Alarm(c, GiveUp)
                ELSE c
           i == FirstOf(d.queue, Acceptable)
           ip == d.queue[i].terms.ip
           e == [d EXCEPT !.queue = <<>>]
           f == [d EXCEPT !.server_ip = TRUE, !.ipaddr = ip]
           g == state_transition(f, "REQUESTING")
<1>2. Ran(IF i = 0 THEN e ELSE g)
  BY <1>1
<1>3. /\ cli \in Client /\ cli.state = "SELECTING"
      /\ requests' = requests \union Sends(cli, "DISCOVER") /\ requests \subseteq Request
  BY DEF dhclient_run_SELECTING, Running, IInv, TypeOK
<1>4. requests' \subseteq Request
  BY <1>3, SentTyped
<1>5. c \in Client /\ c.state = "SELECTING"
  BY <1>3, Sent DEF Alike
<1> HIDE DEF c
<1>6. d \in Client /\ d.state \in {"SELECTING", "INIT"}
  <2>1. CASE c.server_ip /\ timeout(c, GiveUp)
    <3>1. [c EXCEPT !.server_ip = FALSE] \in Client /\ "INIT" \in States
      BY <1>5 DEF Client, States
    <3>2. d = state_transition([c EXCEPT !.server_ip = FALSE], "INIT")
      BY <2>1
    <3> HIDE DEF d
    <3> QED BY <3>1, <3>2, Transition
  <2>2. CASE c.server_ip /\ ~timeout(c, GiveUp)
    <3>1. GiveUp \in Nat
      BY Numbers
    <3>2. d = Alarm(c, GiveUp)
      BY <2>2
    <3> HIDE DEF d
    <3> QED BY <1>5, <2>2, <3>1, <3>2, Alarmed DEF Alike
  <2>3. CASE ~c.server_ip
    BY <1>5, <2>3
  <2> QED BY <2>1, <2>2, <2>3
<1> HIDE DEF d
<1>7. d.queue \in Seq(Message)
  BY <1>6 DEF Client
<1>8. i \in {0} \union DOMAIN d.queue /\ (i # 0 => d.queue[i].type = "OFFER")
  BY <1>7, Receives
<1> HIDE DEF i
<1>9. CASE i = 0
  <2>1. e \in Client /\ e.state = d.state
    BY <1>6, EmptySeq DEF Client
  <2>2. Timely(e) /\ Watched(e, e.alarm)
    BY <1>6, <2>1, Free
  <2>3. Ran(e)
    BY <1>2, <1>9
  <2> HIDE DEF e
  <2> QED BY <1>4, <2>1, <2>2, <2>3, RanInTime
<1>10. CASE i # 0
  <2>1. ip \in Address
    <3>1. d.queue[i].terms \in Terms
      BY <1>7, <1>8, <1>10, Carries
    <3> QED BY <3>1 DEF Address
  <2> HIDE DEF ip
  <2>2. f \in Client /\ "REQUESTING" \in States
    BY <1>6, <2>1 DEF Client, States
  <2> HIDE DEF f
  <2>3. g \in Client /\ g.state = "REQUESTING"
    BY <2>2, Transition
  <2>4. Timely(g) /\ Watched(g, g.alarm)
    BY <2>3, Free
  <2>5. Ran(g)
    BY <1>2, <1>10
  <2> HIDE DEF g
  <2> QED BY <1>4, <2>3, <2>4, <2>5, RanInTime
<1> QED
  BY <1>9, <1>10

\* REBOOTING, REQUESTING, RENEWING and REBINDING: an answer or the next state, in time.
LEMMA StepAwait ==
    ASSUME IInv, NEW secs \in Nat, NEW next \in States, AwaitAck(secs, next),
           \/ cli.state \in {"REBOOTING", "REQUESTING"} /\ next = "INIT"
           \/ cli.state = "RENEWING" /\ secs = cli.renewing_timeout /\ next = "REBINDING"
           \/ cli.state = "REBINDING" /\ secs = cli.rebinding_timeout /\ next = "INIT"
    PROVE  IInv'
<1>1. PICK fuzz \in Retransmits : \E r \in receive_ack(send_reliably(cli, fuzz)) :
         Ran(IF r.ok THEN r.cli
             ELSE IF timeout(send_reliably(cli, fuzz), secs) THEN state_transition(r.cli, next)
             ELSE Alarm(r.cli, secs))
  BY DEF AwaitAck
<1> DEFINE c == send_reliably(cli, fuzz)
<1>2. PICK r \in receive_ack(c) :
         Ran(IF r.ok THEN r.cli
             ELSE IF timeout(c, secs) THEN state_transition(r.cli, next)
             ELSE Alarm(r.cli, secs))
  BY <1>1
<1>3. /\ cli \in Client /\ Timely(cli)
      /\ requests' = requests \union Sends(cli, "REQUEST") /\ requests \subseteq Request
  BY DEF AwaitAck, IInv, TypeOK
<1>4. requests' \subseteq Request
  BY <1>3, SentTyped
<1>5. c \in Client /\ Alike(cli, c)
  BY <1>3, Sent
<1> HIDE DEF c
<1>6. CASE r.ok
  <2>1. r.cli \in Client /\ r.cli.state \in {"BOUND", "INIT"} /\ Timely(r.cli)
    BY <1>5, <1>6, Acked
  <2>2. r.cli.state # cli.state
    BY <2>1
  <2> QED BY <1>2, <1>4, <1>6, <2>1, <2>2, RanInTime
<1>7. CASE ~r.ok
  <2> DEFINE d == r.cli
  <2>1. d \in Client /\ Alike(cli, d)
    BY <1>5, <1>7, Acked DEF Alike
  <2>2. Timely(d)
    BY <1>3, <2>1, AlikeTimely
  <2>3. timeout(c, secs) = timeout(d, secs)
    BY <1>5, <2>1 DEF timeout, Alike
  <2>4. Ran(IF timeout(d, secs) THEN state_transition(d, next) ELSE Alarm(d, secs))
    BY <1>2, <1>7, <2>3
  <2> HIDE DEF d
  <2>5. CASE timeout(d, secs)
    <3> DEFINE e == state_transition(d, next)
    <3>1. e \in Client /\ e.state = next
      BY <2>1, Transition
    <3>2. Timely(e)
      BY <2>1, <2>2, <2>5, Onwards DEF timeout, Alike
    <3>3. Ran(e) /\ e.state # cli.state
      BY <2>4, <2>5, <3>1
    <3> HIDE DEF e
    <3> QED BY <1>4, <3>1, <3>2, <3>3, RanInTime
  <2>6. CASE ~timeout(d, secs)
    <3> DEFINE e == Alarm(d, secs)
    <3>1. e \in Client /\ Alike(d, e) /\ e.alarm <= secs - d.elapsed
      BY <2>1, <2>6, Alarmed
    <3>2. Ran(e)
      BY <2>4, <2>6
    <3> HIDE DEF e
    <3>3. Timely(e)
      BY <2>2, <3>1, AlikeTimely
    <3>4. Watched(e, e.alarm)
      BY <2>1, <3>1 DEF Watched, Bound, Alike, Current
    <3> QED BY <1>4, <3>1, <3>2, <3>3, <3>4, RanInTime
  <2> QED BY <2>5, <2>6
<1> QED
  BY <1>6, <1>7

\* BOUND waits for T1.
LEMMA StepBound == IInv /\ dhclient_run_BOUND => IInv'
<1> SUFFICES ASSUME IInv, dhclient_run_BOUND
             PROVE  IInv'
  OBVIOUS
<1>1. /\ cli \in Client /\ cli.state = "BOUND" /\ Timely(cli) /\ requests' = requests
      /\ requests \subseteq Request
      /\ Ran(IF timeout(cli, cli.bound_timeout) THEN state_transition(cli, "RENEWING")
             ELSE Alarm(cli, cli.bound_timeout))
  BY DEF dhclient_run_BOUND, Running, IInv, TypeOK
<1>2. cli.bound_timeout \in Nat /\ "RENEWING" \in States
  BY <1>1 DEF Client, States
<1>3. CASE timeout(cli, cli.bound_timeout)
  <2> DEFINE d == state_transition(cli, "RENEWING")
  <2>1. d \in Client /\ d.state = "RENEWING"
    BY <1>1, <1>2, Transition
  <2>2. Timely(d)
    BY <1>1, <1>2, <1>3, Onwards DEF timeout
  <2>3. Ran(d)
    BY <1>1, <1>3
  <2> HIDE DEF d
  <2> QED BY <1>1, <2>1, <2>2, <2>3, RanInTime
<1>4. CASE ~timeout(cli, cli.bound_timeout)
  <2> DEFINE d == Alarm(cli, cli.bound_timeout)
  <2>1. d \in Client /\ Alike(cli, d) /\ d.alarm <= cli.bound_timeout - cli.elapsed
    BY <1>1, <1>2, <1>4, Alarmed
  <2>2. Ran(d)
    BY <1>1, <1>4
  <2> HIDE DEF d
  <2>3. Timely(d) /\ Watched(d, d.alarm)
    BY <1>1, <2>1, AlikeTimely DEF Watched, Alike, Current
  <2> QED BY <1>1, <2>1, <2>2, <2>3, RanInTime
<1> QED
  BY <1>3, <1>4

\* dhclient_run in every state.
LEMMA StepRun ==
    ASSUME IInv, dhclient_run
    PROVE  IInv'
<1>1. cli \in Client /\ GiveUp \in Nat /\ {"INIT", "REBINDING"} \subseteq States
  BY Numbers DEF IInv, TypeOK, States
<1>2. CASE do_init("INIT", "SELECTING") \/ do_init("INIT_REBOOT", "REBOOTING")
  BY <1>2, StepInit
<1>3. CASE Running({"REBOOTING", "REQUESTING"}) /\ AwaitAck(GiveUp, "INIT")
  BY <1>1, <1>3, StepAwait DEF Running
<1>4. CASE dhclient_run_SELECTING
  BY <1>4, StepSelecting
<1>5. CASE dhclient_run_BOUND
  BY <1>5, StepBound
<1>6. CASE Running({"RENEWING"}) /\ AwaitAck(cli.renewing_timeout, "REBINDING")
  <2>1. cli.renewing_timeout \in Nat
    BY <1>1 DEF Client
  <2> QED BY <1>1, <1>6, <2>1, StepAwait DEF Running
<1>7. CASE Running({"REBINDING"}) /\ AwaitAck(cli.rebinding_timeout, "INIT")
  <2>1. cli.rebinding_timeout \in Nat
    BY <1>1 DEF Client
  <2> QED BY <1>1, <1>7, <2>1, StepAwait DEF Running
<1>8. CASE dhclient_run_RELEASED
  <2>1. cli.state = "RELEASED" /\ Ran(cli) /\ requests' = requests /\ requests \subseteq Request
    BY <1>8 DEF dhclient_run_RELEASED, Running, IInv, TypeOK
  <2> QED BY <1>1, <2>1, Free, RanInTime
<1> QED
  BY <1>2, <1>3, <1>4, <1>5, <1>6, <1>7, <1>8 DEF dhclient_run

-----------------------------------------------------------------------------
(* Calls, messages and time *)

\* A call leaves the client in time, and wakes the poll loop.
LEMMA CalledInTime ==
    ASSUME IInv, NEW c \in Client, c.alarm = Never, Called(c), wake' \in Nat, asked' \in Nat,
           Timely(c), Watched(c, wake')
    PROVE  IInv'
<1>1. /\ cli' = c /\ calls' = calls + 1 /\ UNCHANGED <<again, requests, replies, device>>
  BY DEF Called
<1>2. TypeOK'
  BY <1>1 DEF IInv, TypeOK
<1> QED
  BY <1>1, <1>2 DEF IInv

\* dhclient_init starts over without an address of its own.
LEMMA Initialised ==
    ASSUME NEW c \in Client, NEW ip \in Address
    PROVE  LET d == InitClient(c, ip)
           IN d \in Client /\ d.alarm = c.alarm /\ d.state \in {"INIT", "INIT_REBOOT"}
<1> DEFINE s == IF ip # 0 THEN "INIT_REBOOT" ELSE "INIT"
           e == state_transition(c, s)
<1>1. s \in States /\ s \in {"INIT", "INIT_REBOOT"}
  BY DEF States
<1> HIDE DEF s
<1>2. e \in Client /\ e.state = s /\ e.alarm = c.alarm
  BY <1>1, Transition
<1>3. InitClient(c, ip) = [e EXCEPT !.ipaddr = ip, !.init_delay = 0]
  BY DEF InitClient, s
<1> HIDE DEF e
<1> DEFINE d == [e EXCEPT !.ipaddr = ip, !.init_delay = 0]
<1>4. 0 \in Nat
  OBVIOUS
<1>5. d \in Client /\ d.alarm = e.alarm /\ d.state = e.state
  BY <1>2, <1>4 DEF Client
<1> HIDE DEF d
<1> QED
  BY <1>1, <1>2, <1>3, <1>5 DEF d

\* dhclient_init and dhclient_release.
LEMMA StepCall ==
    ASSUME IInv, (\E ip \in Requested : dhclient_init(ip)) \/ dhclient_release
    PROVE  IInv'
<1>1. cli \in Client /\ cli.alarm = Never /\ asked \in Nat /\ Never \in Nat /\ 0 \in Nat
  BY Numbers DEF IInv, TypeOK, Never
<1>2. ASSUME NEW ip \in Requested, dhclient_init(ip)
      PROVE  IInv'
  <2> DEFINE d == InitClient(cli, ip)
  <2>1. ip \in Address
    BY DEF Address
  <2>2. d \in Client /\ d.alarm = Never /\ d.state \in {"INIT", "INIT_REBOOT"}
    BY <1>1, <2>1, Initialised
  <2>3. Called(d) /\ wake' = 0 /\ asked' = asked
    BY <1>2 DEF dhclient_init
  <2> HIDE DEF d
  <2> QED BY <1>1, <2>2, <2>3, Free, CalledInTime
<1>3. CASE dhclient_release
  <2> DEFINE d == state_transition(cli, "RELEASED")
  <2>1. "RELEASED" \in States
    BY DEF States
  <2>2. d \in Client /\ d.alarm = Never /\ d.state = "RELEASED"
    BY <1>1, <2>1, Transition
  <2>3. Called(d) /\ wake' = Never /\ asked' = asked
    BY <1>3 DEF dhclient_release
  <2> HIDE DEF d
  <2> QED BY <1>1, <2>2, <2>3, Free, CalledInTime
<1> QED
  BY <1>2, <1>3

\* do_force_renew makes the deadline fit into what is left of the lease.
LEMMA Forced ==
    ASSUME NEW c \in Client, Bound(c), Timely(c)
    PROVE  LET d == do_force_renew(c, Deadline)
           IN d \in Client /\ d.alarm = c.alarm /\ Timely(d) /\ Watched(d, 0)
<1> DEFINE n == Min({c.lease_left, Deadline})
           w == do_force_renew(c, Deadline)
<1>1. /\ c.lease_left \in Int /\ c.elapsed \in Nat /\ Deadline \in Nat /\ Longest \in Nat
      /\ c.bound_timeout \in Nat /\ c.renewing_timeout \in Nat /\ c.rebinding_timeout \in Nat
  BY Numbers DEF Client
<1>2. /\ c.elapsed + c.lease_left < Longest /\ c.lease_left < Word
      /\ Overdue(c) \/ Fits(c)
  BY DEF Timely
<1>3. Current(c) \in Nat /\ Later(c) \in Nat
  BY <1>1 DEF Current, Later
<1>4. Fits(c) => c.lease_left \in Nat /\ 0 <= Current(c) - c.elapsed
  BY <1>1, <1>3 DEF Fits
<1>6. c.state \in {"BOUND", "RENEWING", "REBINDING"}
  BY DEF Bound
<1>7. CASE c.lease_left <= Deadline /\ c.state \in {"RENEWING", "REBINDING"}
  <2>1. w = c
    BY <1>7 DEF do_force_renew
  <2>2. ~Overdue(c) => 0 <= Current(c) - c.elapsed
    BY <1>2, <1>4
  <2> HIDE DEF w
  <2> QED BY <2>1, <2>2 DEF Watched, w
<1>5. ASSUME ~(c.lease_left <= Deadline /\ c.state \in {"RENEWING", "REBINDING"})
      PROVE  n \in Nat /\ n <= c.lease_left
  <2>1. n = IF c.lease_left <= Deadline THEN c.lease_left ELSE Deadline
    BY <1>1, Smaller
  <2>2. c.lease_left <= Deadline => c.lease_left \in Nat
    BY <1>2, <1>4, <1>5, <1>6 DEF Overdue
  <2> QED BY <1>1, <2>1, <2>2
<1> HIDE DEF n
<1>8. CASE /\ ~(c.lease_left <= Deadline /\ c.state \in {"RENEWING", "REBINDING"})
           /\ c.state \in {"BOUND", "RENEWING"}
  <2> DEFINE e == state_transition(c, "RENEWING")
             rn == (n * 3) \div 4
             rb == n \div 4
  <2>0. n \in Nat /\ n <= c.lease_left
    BY <1>5, <1>8
  <2>1. rn \in Nat /\ rb \in Nat /\ rn + rb <= n
    BY <2>0
  <2>2. "RENEWING" \in States
    BY DEF States
  <2>3. /\ e \in Client /\ e.state = "RENEWING" /\ e.elapsed = 0 /\ e.alarm = c.alarm
        /\ e.lease_left = c.lease_left
    BY <2>2, Transition
  <2>4. w = [e EXCEPT !.renewing_timeout = rn, !.rebinding_timeout = rb]
    BY <1>8 DEF do_force_renew, n
  <2> HIDE DEF e, rn, rb, w
  <2>5. /\ w \in Client /\ w.state = "RENEWING" /\ w.elapsed = 0 /\ w.alarm = c.alarm
        /\ w.lease_left = c.lease_left /\ w.renewing_timeout = rn /\ w.rebinding_timeout = rb
    BY <2>1, <2>3, <2>4 DEF Client
  <2>6. Current(w) = rn /\ Later(w) = rb
    BY <2>5 DEF Current, Later
  <2>7. /\ 0 <= rn /\ rn - 0 + rb <= c.lease_left /\ 0 + c.lease_left < Longest
        /\ 0 <= Longest
    BY <1>1, <1>2, <2>0, <2>1
  <2>8. Timely(w)
    BY <1>2, <2>5, <2>6, <2>7 DEF Timely, Fits
  <2>9. Watched(w, 0)
    BY <2>1, <2>5, <2>6 DEF Watched
  <2> QED BY <2>5, <2>8, <2>9 DEF w
<1>9. CASE /\ ~(c.lease_left <= Deadline /\ c.state \in {"RENEWING", "REBINDING"})
           /\ c.state = "REBINDING"
  <2> DEFINE e == state_transition(c, "REBINDING")
  <2>0. n \in Nat /\ n <= c.lease_left
    BY <1>5, <1>9
  <2>1. "REBINDING" \in States
    BY DEF States
  <2>2. /\ e \in Client /\ e.state = "REBINDING" /\ e.elapsed = 0 /\ e.alarm = c.alarm
        /\ e.lease_left = c.lease_left
    BY <2>1, Transition
  <2>3. w = [e EXCEPT !.rebinding_timeout = n]
    BY <1>9 DEF do_force_renew, n
  <2> HIDE DEF e, w
  <2>4. /\ w \in Client /\ w.state = "REBINDING" /\ w.elapsed = 0 /\ w.alarm = c.alarm
        /\ w.lease_left = c.lease_left /\ w.rebinding_timeout = n
    BY <2>0, <2>2, <2>3 DEF Client
  <2>5. Current(w) = n /\ Later(w) = 0
    BY <2>4 DEF Current, Later
  <2>6. /\ 0 <= n /\ n - 0 + 0 <= c.lease_left /\ 0 + c.lease_left < Longest
        /\ 0 <= Longest
    BY <1>1, <1>2, <2>0
  <2>7. Timely(w)
    BY <1>2, <2>4, <2>5, <2>6 DEF Timely, Fits
  <2>8. Watched(w, 0)
    BY <2>0, <2>4, <2>5 DEF Watched
  <2> QED BY <2>4, <2>7, <2>8 DEF w
<1> QED
  BY <1>6, <1>7, <1>8, <1>9

\* dhclient_force_renew, from discovery_question_connectivity.
LEMMA StepForce == IInv /\ dhclient_force_renew => IInv'
<1> SUFFICES ASSUME IInv, dhclient_force_renew
             PROVE  IInv'
  OBVIOUS
<1> DEFINE c == [cli EXCEPT !.queue = <<>>]
<1>1. /\ cli \in Client /\ cli.alarm = Never /\ wake \in Nat /\ asked' = 0
      /\ Timely(cli)
  BY DEF IInv, TypeOK, dhclient_force_renew
<1>2. << >> \in Seq(Message)
  BY EmptySeq
<1>3. c \in Client /\ Alike(cli, c) /\ c.alarm = Never
  BY <1>1, <1>2, Read
<1>4. \/ ~Bound(cli) /\ Called(c) /\ wake' = wake
      \/ Bound(cli) /\ Called(do_force_renew(c, Deadline)) /\ wake' = 0
      \/ Called(InitClient(c, 0)) /\ wake' = 0
  BY DEF dhclient_force_renew
<1> HIDE DEF c
<1>5. Bound(c) = Bound(cli) /\ Timely(c)
  BY <1>1, <1>3, AlikeTimely
<1>6. CASE ~Bound(cli) /\ Called(c) /\ wake' = wake
  <2>1. Watched(c, wake')
    BY <1>5, <1>6 DEF Watched
  <2> QED BY <1>1, <1>3, <1>5, <1>6, <2>1, CalledInTime
<1>7. CASE Bound(cli) /\ Called(do_force_renew(c, Deadline)) /\ wake' = 0
  <2> DEFINE d == do_force_renew(c, Deadline)
  <2>1. d \in Client /\ d.alarm = Never /\ Timely(d) /\ Watched(d, 0)
    BY <1>3, <1>5, <1>7, Forced
  <2>2. Called(d)
    BY <1>7
  <2> HIDE DEF d
  <2> QED BY <1>1, <1>7, <2>1, <2>2, CalledInTime
<1>8. CASE Called(InitClient(c, 0)) /\ wake' = 0
  <2> DEFINE d == InitClient(c, 0)
  <2>1. 0 \in Address
    BY DEF Address
  <2>2. d \in Client /\ d.alarm = Never /\ d.state \in {"INIT", "INIT_REBOOT"}
    BY <1>3, <2>1, Initialised
  <2>3. Called(d)
    BY <1>8
  <2> HIDE DEF d
  <2> QED BY <1>1, <1>8, <2>2, <2>3, Free, CalledInTime
<1> QED
  BY <1>4, <1>6, <1>7, <1>8

\* Servers answer, messages are lost or arrive: the client's times are its own.
LEMMA StepNetwork ==
    ASSUME IInv,
           \/ \E r \in requests : Answer(r)
           \/ \E m \in replies, duplicated \in BOOLEAN : Arrive(m, duplicated)
           \/ Lose
    PROVE  IInv'
<1> USE DEF IInv
<1>1. ASSUME NEW r \in requests, Answer(r)
      PROVE  IInv'
  <2>1. replies' \subseteq Message
    <3>1. \A t \in Terms : Reply("OFFER", t) \in Message /\ Reply("ACK", t) \in Message
      BY DEF Reply, Message
    <3>2. Reply("NAK", None) \in Message
      BY DEF Reply, Message
    <3>3. replies \subseteq Message
      BY DEF TypeOK
    <3> QED BY <1>1, <3>1, <3>2, <3>3 DEF Answer
  <2>2. /\ requests' = requests \ {r} /\ UNCHANGED <<cli, again, wake, device, calls, asked>>
    BY <1>1 DEF Answer
  <2> QED BY <2>1, <2>2 DEF TypeOK
<1>2. CASE Lose
  <2>1. /\ requests' \subseteq requests /\ replies' \subseteq replies
        /\ UNCHANGED <<cli, again, wake, device, calls, asked>>
    BY <1>2 DEF Lose
  <2> QED BY <2>1 DEF TypeOK
<1>3. ASSUME NEW m \in replies, NEW duplicated \in BOOLEAN, Arrive(m, duplicated)
      PROVE  IInv'
  <2> DEFINE q == Append(cli.queue, m)
  <2>1. /\ cli' = [cli EXCEPT !.queue = q] /\ replies' \subseteq replies
        /\ UNCHANGED <<again, wake, requests, device, calls, asked>>
    BY <1>3 DEF Arrive
  <2>2. q \in Seq(Message)
    <3>1. cli.queue \in Seq(Message) /\ m \in Message
      BY DEF TypeOK, Client
    <3> QED BY <3>1, AppendProperties
  <2> HIDE DEF q
  <2>3. cli' \in Client /\ Alike(cli, cli') /\ cli'.alarm = cli.alarm
    BY <2>1, <2>2, Read DEF TypeOK
  <2>4. TypeOK'
    BY <2>1, <2>3 DEF TypeOK
  <2>5. Timely(cli') /\ (~again' => Watched(cli', wake'))
    BY <2>1, <2>3, AlikeTimely
  <2> QED BY <2>4, <2>5
<1> QED
  BY <1>1, <1>2, <1>3

\* A second passes: what is left of the state and of the lease shrink together, and the poll
\* loop sleeps no longer than the state lasts.
LEMMA StepSecond == IInv /\ second => IInv'
<1> SUFFICES ASSUME IInv, second
             PROVE  IInv'
  OBVIOUS
<1> USE DEF IInv
<1> DEFINE el == Min({cli.elapsed + 1, Longest})
           du == Max({cli.due - 1, 0})
           le == IF Bound(cli) THEN Max({cli.lease_left - 1, -1}) ELSE 0
           as == Min({asked + 1, QuestionInterval})
<1>1. /\ ~again /\ wake # 0
      /\ cli' = [cli EXCEPT !.elapsed = el, !.due = du, !.lease_left = le]
      /\ wake' = IF wake = Never THEN Never ELSE wake - 1
      /\ asked' = as
      /\ UNCHANGED <<again, requests, replies, device, calls>>
  <2>1. cli \in Client
    BY DEF TypeOK
  <2> QED BY <2>1 DEF second, Client
<1>2. /\ cli \in Client /\ cli.elapsed \in Nat /\ cli.due \in Nat /\ cli.lease_left \in Int
      /\ wake \in Nat /\ asked \in Nat /\ Longest \in Nat /\ QuestionInterval \in Nat
      /\ Never \in Nat /\ Never = Word
  BY Numbers DEF TypeOK, Client, Never
<1>3. el = IF cli.elapsed + 1 <= Longest THEN cli.elapsed + 1 ELSE Longest
  <2>1. cli.elapsed + 1 \in Int /\ Longest \in Int
    BY <1>2
  <2> QED BY <2>1, Smaller
<1>4. du \in Nat
  <2>1. cli.due - 1 \in Int
    BY <1>2
  <2>2. du = IF 0 <= cli.due - 1 THEN cli.due - 1 ELSE 0
    BY <2>1, Larger
  <2> QED BY <2>1, <2>2
<1>5. Bound(cli) => le = IF -1 <= cli.lease_left - 1 THEN cli.lease_left - 1 ELSE -1
  <2>1. cli.lease_left - 1 \in Int /\ -1 \in Int
    BY <1>2
  <2> QED BY <2>1, Larger
<1>6. as \in Nat
  <2>1. asked + 1 \in Int /\ QuestionInterval \in Int
    BY <1>2
  <2>2. as = IF asked + 1 <= QuestionInterval THEN asked + 1 ELSE QuestionInterval
    BY <2>1, Smaller
  <2> QED BY <1>2, <2>2
<1>7. el \in Nat
  BY <1>2, <1>3
<1>8. le \in Int
  <2>1. CASE Bound(cli)
    BY <1>2, <1>5, <2>1
  <2>2. CASE ~Bound(cli)
    BY <2>2
  <2> QED BY <2>1, <2>2
<1> HIDE DEF el, du, le, as
<1>9. /\ cli' \in Client /\ cli'.state = cli.state /\ cli'.elapsed = el /\ cli'.lease_left = le
      /\ cli'.bound_timeout = cli.bound_timeout
      /\ cli'.renewing_timeout = cli.renewing_timeout
      /\ cli'.rebinding_timeout = cli.rebinding_timeout
      /\ cli'.alarm = cli.alarm /\ cli'.binding = cli.binding
  BY <1>1, <1>2, <1>4, <1>7, <1>8 DEF Client
<1>10. wake' \in Nat
  BY <1>1, <1>2
<1>11. TypeOK'
  BY <1>1, <1>6, <1>9, <1>10 DEF TypeOK
<1>12. /\ Bound(cli') = Bound(cli) /\ Current(cli') = Current(cli) /\ Later(cli') = Later(cli)
       /\ Overdue(cli') = Overdue(cli)
  BY <1>9 DEF Bound, Current, Later, Overdue, Late
<1>13. CASE ~Bound(cli)
  BY <1>11, <1>12, <1>13 DEF Timely, Watched
<1>14. CASE Bound(cli)
  <2> DEFINE cu == Current(cli)
             la == Later(cli)
             ll == cli.lease_left
             ee == cli.elapsed
  <2>1. cu \in Nat /\ la \in Nat
    BY <1>2 DEF Client, Current, Later
  <2>2. /\ ee <= Longest /\ ee + ll < Longest /\ ll < Word
        /\ Overdue(cli) \/ (ee <= cu /\ cu - ee + la <= ll)
        /\ Overdue(cli) \/ wake <= cu - ee
    BY <1>1, <1>14 DEF Timely, Fits, Watched
  <2>3. el = IF ee + 1 <= Longest THEN ee + 1 ELSE Longest
    BY <1>3
  <2>4. le = IF -1 <= ll - 1 THEN ll - 1 ELSE -1
    BY <1>5, <1>14
  <2>5. ee \in Nat /\ ll \in Int
    BY <1>2
  <2> HIDE DEF cu, la, ll, ee
  <2>6. el <= Longest /\ el + le < Longest /\ le < Word
    BY <1>2, <2>2, <2>3, <2>4, <2>5
  <2>7. CASE Overdue(cli)
    BY <1>9, <1>11, <1>12, <2>6, <2>7 DEF Timely, Watched
  <2>8. CASE ~Overdue(cli)
    <3>1. ee <= cu /\ cu - ee + la <= ll /\ wake <= cu - ee
      BY <2>2, <2>8
    <3>2. ee < cu /\ wake < Word
      BY <1>1, <1>2, <2>1, <2>2, <2>5, <3>1
    <3>3. el = ee + 1 /\ le = ll - 1 /\ wake' = wake - 1
      BY <1>1, <1>2, <2>1, <2>2, <2>3, <2>4, <2>5, <3>1, <3>2
    <3>4. el <= cu /\ cu - el + la <= le /\ wake' <= cu - el
      BY <1>2, <2>1, <2>5, <3>1, <3>2, <3>3
    <3> QED BY <1>9, <1>11, <1>12, <2>6, <3>4 DEF Timely, Fits, Watched, cu, la
  <2> QED BY <2>7, <2>8
<1> QED
  BY <1>13, <1>14

-----------------------------------------------------------------------------
(* Theorems *)

\* discovery_local_port_cb: the client begins without an address.
LEMMA InitInv == Init => IInv
<1> SUFFICES ASSUME Init
             PROVE  IInv
  OBVIOUS
<1>1. Never \in Nat /\ QuestionInterval \in Nat
  BY Numbers DEF Never
<1>2. dhclient_create \in Client /\ dhclient_create.alarm = Never
  <2>1. << >> \in Seq(Message)
    BY EmptySeq
  <2> QED BY <1>1, <2>1 DEF dhclient_create, Client, States, Address, Lease
<1>3. 0 \in Address
  BY DEF Address
<1>4. cli = InitClient(dhclient_create, 0)
  BY DEF Init
<1>5. cli \in Client /\ cli.alarm = Never /\ cli.state \in {"INIT", "INIT_REBOOT"}
  BY <1>2, <1>3, <1>4, Initialised
<1>6. Timely(cli) /\ Watched(cli, wake)
  BY <1>5, Free
<1>7. TypeOK
  BY <1>1, <1>3, <1>5 DEF Init, TypeOK
<1> QED
  BY <1>6, <1>7 DEF IInv

\* Every step of the client, its callers, the network and time leaves the client in time.
THEOREM Invariance == Spec => []IInv
<1>1. Init => IInv
  BY InitInv
<1>2. IInv /\ [Next]_vars => IInv'
  <2> SUFFICES ASSUME IInv, [Next]_vars
               PROVE  IInv'
    OBVIOUS
  <2>1. CASE dhclient_run
    BY <2>1, StepRun
  <2>2. CASE (\E ip \in Requested : dhclient_init(ip)) \/ dhclient_release
    BY <2>2, StepCall
  <2>3. CASE dhclient_force_renew
    BY <2>3, StepForce
  <2>4. CASE \/ \E r \in requests : Answer(r)
             \/ \E m \in replies, duplicated \in BOOLEAN : Arrive(m, duplicated)
             \/ Lose
    BY <2>4, StepNetwork
  <2>5. CASE second
    BY <2>5, StepSecond
  <2>6. CASE UNCHANGED vars
    BY <2>6 DEF vars, IInv, TypeOK
  <2> QED
    BY <2>1, <2>2, <2>3, <2>4, <2>5, <2>6 DEF Next
<1> QED
  BY <1>1, <1>2, PTL DEF Spec

\* An address is given up before its lease ends, whatever becomes of its renewals: the alarms
\* of the states end them in time, and a forced renewal does not make the lease longer.  Only
\* a renewal whose time has wrapped around, for a T2 before T1, goes on after the lease.
THEOREM LeaseKept == Spec => []LeaseNotExceeded
<1>1. IInv => LeaseNotExceeded
  <2> SUFFICES ASSUME IInv, Bound(cli), cli.lease_left < 0
               PROVE  cli.state # "BOUND" /\ Wrapped
    BY DEF LeaseNotExceeded
  <2>1. /\ cli.elapsed \in Nat /\ cli.lease_left \in Int
        /\ Current(cli) \in Nat /\ Later(cli) \in Nat
    BY DEF IInv, TypeOK, Client, Current, Later
  <2>2. Overdue(cli) \/ Fits(cli)
    BY DEF IInv, Timely
  <2>3. ~Fits(cli)
    BY <2>1 DEF Fits
  <2> QED BY <2>2, <2>3 DEF Overdue, Late, Wrapped
<1> QED
  BY <1>1, Invariance, PTL
=============================================================================
