-------------------------- MODULE PhoneLinkProofs --------------------------
(****************************************************************************)
(* Proofs about the packets that cross PhoneLink's link, for any number of  *)
(* fragments a packet, of packet ids, of packets offered and of things that *)
(* go wrong.                                                                *)
(****************************************************************************)
EXTENDS PhoneLink, FiniteSetTheorems, TLAPS

Fragment ==
    {f \in [kind : Kind, id : Nat, index : Nat, packet : Nat] :
        f.index \in 1 .. FragCount(f.kind)}

\* Everything written or to be written.
OnTheWay == Range(air) \cup Range(pending)

FragTypeOK ==
    /\ pending \in Seq(Fragment) /\ air \in Seq(Fragment)
    /\ nextId \in Nat /\ offered \in Nat
    /\ heard \in [Kind -> Nat]
    /\ reasm = [k \in Kind |-> reasm[k]]

\* The calls of a queue are ahead of what else it holds.
CallsFirst(queue) ==
    \E c \in 0 .. Len(queue) :
        \A i \in DOMAIN queue : queue[i].kind = "call" <=> i <= c

\* The order in which one kind's fragments are written.
Before(f, g) ==
    f.kind = g.kind => \/ f.packet < g.packet
                       \/ f.packet = g.packet /\ f.index < g.index

Ordered(s) == \A i, j \in DOMAIN s : i < j => Before(s[i], s[j])

OrderInv ==
    /\ CallsFirst(pending)
    /\ Ordered(air) /\ Ordered(pending)
    /\ \A f \in Range(air), g \in Range(pending) : Before(f, g)

\* An id names one packet, none is from the future, and none on the way is of a
\* packet delivered or older.
Named(f, g) == f.id = g.id <=> f.packet = g.packet
NameInv ==
    /\ \A f, g \in OnTheWay : Named(f, g)
    /\ \A f \in OnTheWay : f.packet <= offered /\ heard[f.kind] < f.packet
    /\ \A k \in Kind : heard[k] <= offered

\* What a reassembler holds is one packet's; what is still to come of that packet
\* is behind it, and of no older one is there anything.
Follows(f, r) ==
    \A i \in DOMAIN r.have :
        /\ f.id = r.id <=> f.packet = r.have[i]
        /\ r.have[i] <= f.packet
        /\ f.packet = r.have[i] => i < f.index
HoldInv ==
    \A k \in Kind :
        reasm[k].active =>
            /\ \A i, j \in DOMAIN reasm[k].have : reasm[k].have[i] = reasm[k].have[j]
            /\ \A i \in DOMAIN reasm[k].have : i \in Nat /\ reasm[k].have[i] \in 0 .. offered
            /\ \A f \in OnTheWay : f.kind = k => Follows(f, reasm[k])

PacketInv == FragTypeOK /\ OrderInv /\ NameInv /\ HoldInv /\ OnePacket

-----------------------------------------------------------------------------
(* Queues of fragments.                                                     *)

\* The bounds are numbers.
LEMMA Counts ==
    /\ \A k \in Kind : FragCount(k) \in Nat \ {0}
    /\ IdCount \in Nat \ {0}
BY FragmentsAssumption DEF FragCount, Kind

\* What a sequence holds.
LEMMA InRange ==
    ASSUME NEW s \in Seq(Fragment), NEW f
    PROVE  f \in Range(s) <=> \E i \in 1 .. Len(s) : f = s[i]
BY DEF Range

\* A fragment is of its kind's count, and its numbers are numbers.
LEMMA FragmentIs ==
    ASSUME NEW f \in Fragment
    PROVE  /\ f.kind \in Kind /\ f.id \in Nat /\ f.packet \in Nat
           /\ f.index \in Nat /\ f.index <= FragCount(f.kind)
<1>1. FragCount(f.kind) \in Nat
  BY Counts DEF Fragment
<1> QED BY <1>1 DEF Fragment

\* The first of a queue and the rest of it.
LEMMA HeadAndTail ==
    ASSUME NEW s \in Seq(Fragment), s # <<>>
    PROVE  /\ Head(s) \in Range(s) /\ Head(s) \in Fragment
           /\ Tail(s) \in Seq(Fragment)
           /\ Range(Tail(s)) \subseteq Range(s)
           /\ Ordered(s) => /\ Ordered(Tail(s))
                            /\ \A g \in Range(Tail(s)) : Before(Head(s), g)
           /\ CallsFirst(s) => CallsFirst(Tail(s))
<1> DEFINE t == Tail(s)
<1>1. /\ Len(s) \in Nat \ {0} /\ Head(s) = s[1] /\ s[1] \in Fragment
      /\ t \in Seq(Fragment) /\ Len(t) = Len(s) - 1
      /\ \A i \in 1 .. Len(t) : i + 1 \in 1 .. Len(s) /\ t[i] = s[i + 1]
  OBVIOUS
<1>2. DOMAIN s = 1 .. Len(s) /\ DOMAIN t = 1 .. Len(t)
  BY <1>1
<1> HIDE DEF t
<1>3. Head(s) \in Range(s)
  BY <1>1, InRange
<1>4. Range(t) \subseteq Range(s)
  BY <1>1, InRange
<1>5. ASSUME Ordered(s)
      PROVE  Ordered(t) /\ \A g \in Range(t) : Before(Head(s), g)
  <2>1. ASSUME NEW i \in DOMAIN t, NEW j \in DOMAIN t, i < j
        PROVE  Before(t[i], t[j])
    <3>1. /\ i + 1 \in DOMAIN s /\ j + 1 \in DOMAIN s /\ i + 1 < j + 1
          /\ t[i] = s[i + 1] /\ t[j] = s[j + 1]
      BY <1>1, <1>2, <2>1
    <3> QED BY <3>1, <1>5 DEF Ordered
  <2>2. ASSUME NEW g \in Range(t)
        PROVE  Before(Head(s), g)
    <3>1. PICK i \in 1 .. Len(t) : g = t[i]
      BY <1>1, InRange
    <3>2. i + 1 \in DOMAIN s /\ 1 \in DOMAIN s /\ 1 < i + 1 /\ g = s[i + 1]
      BY <1>1, <1>2, <3>1
    <3> QED BY <3>2, <1>1, <1>5 DEF Ordered
  <2> QED BY <2>1, <2>2 DEF Ordered
<1>6. ASSUME CallsFirst(s)
      PROVE  CallsFirst(t)
  <2>1. PICK c \in 0 .. Len(s) : \A i \in DOMAIN s : s[i].kind = "call" <=> i <= c
    BY <1>6 DEF CallsFirst
  <2> DEFINE d == IF c = 0 THEN 0 ELSE c - 1
  <2>2. d \in 0 .. Len(t)
    BY <1>1
  <2>3. ASSUME NEW i \in DOMAIN t
        PROVE  t[i].kind = "call" <=> i <= d
    <3>1. i + 1 \in DOMAIN s /\ t[i] = s[i + 1] /\ i \in Nat \ {0}
      BY <1>1, <1>2
    <3>2. t[i].kind = "call" <=> i + 1 <= c
      BY <2>1, <3>1
    <3> QED BY <3>1, <3>2
  <2> HIDE DEF d
  <2> QED BY <2>2, <2>3 DEF CallsFirst
<1> QED BY <1>1, <1>3, <1>4, <1>5, <1>6 DEF t

\* Of a queue whose calls are first, the calls are what it begins with and the
\* rest is what it ends with.
LEMMA Parted ==
    ASSUME NEW s \in Seq(Fragment), NEW c \in 0 .. Len(s),
           \A i \in DOMAIN s : s[i].kind = "call" <=> i <= c
    PROVE  /\ Frames(s, "call") = [n \in 1 .. c |-> s[n]]
           /\ Frames(s, "nav") = [n \in 1 .. Len(s) - c |-> s[c + n]]
<1> DEFINE calls == {i \in DOMAIN s : s[i].kind = "call"}
           navs == {i \in DOMAIN s : s[i].kind = "nav"}
<1>1. DOMAIN s = 1 .. Len(s) /\ Len(s) \in Nat /\ c \in Nat /\ c <= Len(s)
  OBVIOUS
<1>2. \A i \in DOMAIN s : s[i] \in Fragment
  BY <1>1
<1>3. \A i \in DOMAIN s : s[i].kind = "nav" <=> s[i].kind # "call"
  BY <1>2, FragmentIs DEF Kind
<1>4. calls = 1 .. c
  BY <1>1
<1>5. navs = c + 1 .. Len(s)
  BY <1>1, <1>3
<1>6. \A a, b \in Nat : a <= b + 1 => Cardinality(a .. b) = b + 1 - a
  <2>1. \A a, b \in Int : Cardinality(a .. b) = IF a > b THEN 0 ELSE b - a + 1
    BY FS_Interval
  <2> QED BY <2>1
<1>7. ASSUME NEW n \in 1 .. c
      PROVE  Nth(calls, n) = n
  <2>1. \A i \in calls : {j \in calls : j <= i} = 1 .. i
    BY <1>4, <1>1
  <2>2. \A i \in calls : i \in Nat /\ Cardinality(1 .. i) = i
    BY <1>6, <1>4, <1>1
  <2>3. \A i \in calls : Cardinality({j \in calls : j <= i}) = i
    BY <2>1, <2>2
  <2>4. n \in calls
    BY <1>4, <1>1
  <2> HIDE DEF calls
  <2> QED BY <2>3, <2>4 DEF Nth
<1>8. ASSUME NEW n \in 1 .. Len(s) - c
      PROVE  Nth(navs, n) = c + n
  <2>1. \A i \in navs : {j \in navs : j <= i} = c + 1 .. i
    BY <1>5, <1>1
  <2>2. ASSUME NEW i \in navs
        PROVE  i \in Nat /\ Cardinality(c + 1 .. i) = i - c
    <3>1. i \in Nat /\ c + 1 \in Nat /\ c + 1 <= i + 1 /\ i + 1 - (c + 1) = i - c
      BY <1>5, <1>1
    <3> QED BY <3>1, <1>6
  <2>3. \A i \in navs : i \in Nat /\ Cardinality({j \in navs : j <= i}) = i - c
    BY <2>1, <2>2
  <2>4. c + n \in navs /\ (c + n) - c = n /\ n \in Nat
    BY <1>5, <1>1
  <2> HIDE DEF navs
  <2>5. \A i \in navs : Cardinality({j \in navs : j <= i}) = n <=> i = c + n
    BY <2>3, <2>4, <1>1
  <2> QED BY <2>4, <2>5 DEF Nth
<1>9. Cardinality(calls) = c
  <2>1. Cardinality(1 .. c) = c + 1 - 1
    BY <1>6, <1>1
  <2> HIDE DEF calls
  <2> QED BY <2>1, <1>1, <1>4
<1>10. Cardinality(navs) = Len(s) - c
  <2>1. Cardinality(c + 1 .. Len(s)) = Len(s) + 1 - (c + 1)
    BY <1>6, <1>1
  <2> HIDE DEF navs
  <2> QED BY <2>1, <1>1, <1>5
<1>11. Frames(s, "call") = [n \in 1 .. c |-> s[Nth(calls, n)]]
  BY <1>9 DEF Frames, Picked
<1>12. Frames(s, "nav") = [n \in 1 .. Len(s) - c |-> s[Nth(navs, n)]]
  BY <1>10 DEF Frames, Picked
<1> HIDE DEF calls, navs
<1> QED BY <1>7, <1>8, <1>11, <1>12

-----------------------------------------------------------------------------
(* What the steps do to what is on its way.                                 *)

NoneHeld == [k \in Kind |-> NoPartial]

\* An empty queue has no order to keep.
LEMMA Empty ==
    /\ <<>> \in Seq(Fragment) /\ Range(<<>>) = {}
    /\ Ordered(<<>>) /\ CallsFirst(<<>>)
<1>1. DOMAIN <<>> = {} /\ Len(<<>>) = 0
  OBVIOUS
<1>2. <<>> \in Seq(Fragment) /\ Range(<<>>) = {}
  BY <1>1 DEF Range
<1> QED BY <1>1, <1>2 DEF Ordered, CallsFirst

\* Losing fragments, and what a reassembler holds, endangers nothing.
LEMMA Thinner ==
    ASSUME PacketInv,
           air' \in Seq(Fragment), pending' \in Seq(Fragment),
           Range(air') \subseteq Range(air), Range(pending') \subseteq Range(pending),
           Ordered(air'), Ordered(pending'), CallsFirst(pending'),
           nextId' \in Nat, offered' = offered, heard' = heard, torn' = torn,
           reasm' \in {reasm, NoneHeld}
    PROVE  PacketInv'
<1>1. OnTheWay' \subseteq OnTheWay
  BY DEF OnTheWay
<1>2. FragTypeOK'
  BY DEF PacketInv, FragTypeOK, NoneHeld
<1>3. OrderInv'
  BY DEF PacketInv, OrderInv
<1>4. NameInv'
  BY <1>1 DEF PacketInv, NameInv
<1>5. HoldInv'
  <2>1. CASE reasm' = reasm
    BY <1>1, <2>1 DEF PacketInv, HoldInv
  <2>2. CASE reasm' = NoneHeld
    <3>1. \A k \in Kind : ~reasm'[k].active
      BY <2>2 DEF NoneHeld, NoPartial
    <3> QED BY <3>1 DEF HoldInv
  <2> QED BY <2>1, <2>2
<1>6. OnePacket'
  BY DEF PacketInv, OnePacket
<1> QED BY <1>2, <1>3, <1>4, <1>5, <1>6 DEF PacketInv

\* What is written goes to the end of the air, ahead of what is to be written.
LEMMA WriteStep ==
    ASSUME PacketInv, WriteHead
    PROVE  PacketInv'
<1>1. /\ FragTypeOK /\ OrderInv
      /\ pending # <<>> /\ pending \in Seq(Fragment) /\ air \in Seq(Fragment)
      /\ Ordered(air) /\ Ordered(pending) /\ CallsFirst(pending)
  BY DEF PacketInv, FragTypeOK, OrderInv, WriteHead
<1>2. /\ pending' = Tail(pending) /\ air' = Append(air, Head(pending))
      /\ nextId' = nextId /\ offered' = offered /\ heard' = heard /\ torn' = torn /\ reasm' = reasm
  BY DEF WriteHead, termFragVars
<1>3. PICK f \in Fragment : f = Head(pending)
  BY <1>1, HeadAndTail
<1>4. /\ f \in Range(pending) /\ pending' \in Seq(Fragment)
      /\ Range(pending') \subseteq Range(pending)
      /\ Ordered(pending') /\ CallsFirst(pending')
      /\ \A g \in Range(pending') : Before(f, g)
  BY <1>1, <1>2, <1>3, HeadAndTail
<1>5. /\ air' \in Seq(Fragment) /\ Len(air') = Len(air) + 1 /\ Len(air) \in Nat
      /\ \A i \in 1 .. Len(air) : air'[i] = air[i]
      /\ air'[Len(air) + 1] = f
      /\ DOMAIN air' = 1 .. Len(air) + 1 /\ DOMAIN air = 1 .. Len(air)
  BY <1>1, <1>2, <1>3
<1>6. \A g \in Range(air') : g \in Range(air) \/ g = f
  <2>1. ASSUME NEW g \in Range(air')
        PROVE  g \in Range(air) \/ g = f
    <3>1. PICK i \in DOMAIN air' : g = air'[i]
      BY DEF Range
    <3>2. i = Len(air) + 1 \/ i \in 1 .. Len(air)
      BY <1>5
    <3> QED BY <3>1, <3>2, <1>5 DEF Range
  <2> QED BY <2>1
<1>7. OnTheWay' \subseteq OnTheWay
  BY <1>4, <1>6 DEF OnTheWay
<1>8. \A g \in Range(air) : Before(g, f)
  BY <1>1, <1>4 DEF OrderInv
<1>9. Ordered(air')
  <2>1. ASSUME NEW i \in DOMAIN air', NEW j \in DOMAIN air', i < j
        PROVE  Before(air'[i], air'[j])
    <3>1. i \in 1 .. Len(air) /\ air'[i] = air[i] /\ air[i] \in Range(air)
      BY <1>5, <2>1 DEF Range
    <3>2. CASE j = Len(air) + 1
      BY <3>1, <3>2, <1>5, <1>8
    <3>3. CASE j \in 1 .. Len(air)
      <4>1. air'[j] = air[j] /\ j \in DOMAIN air /\ i \in DOMAIN air
        BY <3>1, <3>3, <1>5
      <4> QED BY <4>1, <3>1, <2>1, <1>1 DEF Ordered
    <3> QED BY <3>2, <3>3, <1>5
  <2> QED BY <2>1 DEF Ordered
<1>10. OrderInv'
  <2>1. \A g \in Range(air'), h \in Range(pending') : Before(g, h)
    BY <1>1, <1>4, <1>6 DEF OrderInv
  <2> QED BY <2>1, <1>4, <1>9 DEF OrderInv
<1>11. FragTypeOK'
  BY <1>1, <1>2, <1>4, <1>5 DEF FragTypeOK
<1>12. NameInv' /\ HoldInv'
  BY <1>2, <1>7 DEF PacketInv, NameInv, HoldInv
<1>13. OnePacket'
  BY <1>2 DEF PacketInv, OnePacket
<1> QED BY <1>10, <1>11, <1>12, <1>13 DEF PacketInv

\* What a reassembler holds once it has taken a fragment is that one's packet, up
\* to that one.
LEMMA Joined ==
    ASSUME NEW f \in Fragment, NEW o, NEW r, r = Having(o, f),
           o.active => /\ \A i \in DOMAIN o.have : i \in Nat
                       /\ Follows(f, o)
    PROVE  /\ r.active /\ r.id = f.id
           /\ f.index \in DOMAIN r.have
           /\ \A i \in DOMAIN r.have : i \in Nat /\ i <= f.index /\ r.have[i] = f.packet
<1> DEFINE q == IF o.active /\ o.id = f.id THEN o ELSE NoPartial
           places == DOMAIN q.have \cup {f.index}
           kept == [i \in places |-> IF i = f.index THEN f.packet ELSE q.have[i]]
<1>1. /\ Having(o, f) = HavingKept(q, f)
      /\ HavingKept(q, f) = [active |-> TRUE, id |-> f.id, have |-> kept]
  BY DEF Having, HavingKept
<1>2. \A i \in DOMAIN q.have : i \in Nat /\ i < f.index /\ q.have[i] = f.packet
  <2>1. CASE o.active /\ o.id = f.id
    BY <2>1 DEF Follows
  <2>2. CASE ~(o.active /\ o.id = f.id)
    <3>1. q.have = <<>> /\ DOMAIN <<>> = {}
      BY <2>2 DEF NoPartial
    <3> QED BY <3>1
  <2> QED BY <2>1, <2>2
<1>3. f.index \in Nat
  BY FragmentIs
<1> HIDE DEF q
<1>4. DOMAIN kept = places /\ \A i \in places : kept[i] = IF i = f.index THEN f.packet ELSE q.have[i]
  OBVIOUS
<1>5. \A i \in places : i \in Nat /\ i <= f.index /\ kept[i] = f.packet
  BY <1>2, <1>3
<1> HIDE DEF kept
<1>6. r.have = kept /\ r.active /\ r.id = f.id
  BY <1>1
<1> QED BY <1>4, <1>5, <1>6

\* A fragment that arrives: whole or not, what is behind it follows it.
LEMMA ArriveStep ==
    ASSUME PacketInv, Arrive
    PROVE  PacketInv'
<1>1. /\ FragTypeOK /\ OrderInv /\ NameInv /\ HoldInv /\ ~torn
      /\ air # <<>> /\ air \in Seq(Fragment) /\ pending \in Seq(Fragment)
      /\ Ordered(air) /\ offered \in Nat /\ heard \in [Kind -> Nat]
  BY DEF PacketInv, FragTypeOK, OrderInv, OnePacket, Arrive
<1>2. PICK f \in Fragment : f = Head(air)
  BY <1>1, HeadAndTail
<1>3. PICK k \in Kind : k = f.kind
  BY FragmentIs
<1>4. PICK o : o = reasm[k]
  OBVIOUS
<1>5. PICK r : r = Having(o, f)
  OBVIOUS
<1>6. /\ air' = Tail(air) /\ pending' = pending
      /\ nextId' = nextId /\ offered' = offered
  BY DEF Arrive, phoneFragVars
<1>7. /\ f \in Range(air) /\ air' \in Seq(Fragment)
      /\ Range(air') \subseteq Range(air) /\ Ordered(air')
      /\ \A g \in Range(air') : Before(f, g)
  BY <1>1, <1>2, <1>6, HeadAndTail
<1>8. /\ OnTheWay' \subseteq OnTheWay /\ f \in OnTheWay
      /\ \A g \in OnTheWay' : Before(f, g)
  <2>1. \A g \in Range(pending) : Before(f, g)
    BY <1>1, <1>7 DEF OrderInv
  <2> QED BY <2>1, <1>6, <1>7 DEF OnTheWay
<1>9. /\ r.active /\ r.id = f.id /\ f.index \in DOMAIN r.have
      /\ \A i \in DOMAIN r.have : i \in Nat /\ i <= f.index /\ r.have[i] = f.packet
  <2>1. o.active => /\ \A i \in DOMAIN o.have : i \in Nat
                    /\ Follows(f, o)
    BY <1>1, <1>3, <1>4, <1>8 DEF HoldInv
  <2> QED BY <2>1, <1>5, Joined
<1>10. /\ f.packet \in Nat /\ f.index \in Nat /\ f.index <= FragCount(k)
       /\ FragCount(k) \in Nat \ {0}
       /\ f.packet <= offered /\ heard[k] < f.packet
  BY <1>1, <1>3, <1>8, FragmentIs, Counts DEF NameInv
<1>11. \A g \in OnTheWay : g \in Fragment
  <2>1. \A s \in Seq(Fragment) : \A i \in 1 .. Len(s) : s[i] \in Fragment
    OBVIOUS
  <2>2. \A g \in Range(air) : g \in Fragment
    BY <2>1, <1>1, InRange
  <2>3. \A g \in Range(pending) : g \in Fragment
    BY <2>1, <1>1, InRange
  <2> QED BY <2>2, <2>3 DEF OnTheWay
<1>12. OrderInv'
  BY <1>1, <1>6, <1>7 DEF OrderInv
<1>13. \A g, h \in OnTheWay' : Named(g, h)
  BY <1>1, <1>8 DEF NameInv
<1>14. ASSUME NEW g \in OnTheWay', g.kind = k
       PROVE  Follows(g, r)
  <2>1. /\ g \in Fragment /\ g \in OnTheWay /\ Before(f, g) /\ Named(g, f)
        /\ g.packet \in Nat /\ g.index \in Nat
    BY <1>1, <1>8, <1>11, FragmentIs DEF NameInv
  <2>2. /\ g.id = r.id <=> g.packet = f.packet
        /\ f.packet <= g.packet
        /\ g.packet = f.packet => f.index < g.index
    BY <2>1, <1>3, <1>9, <1>10, <1>14 DEF Before, Named
  <2> QED BY <2>1, <2>2, <1>9, <1>10 DEF Follows
<1>15. CASE DOMAIN r.have # 1 .. FragCount(k)
  <2>1. /\ reasm' = [reasm EXCEPT ![k] = r] /\ heard' = heard /\ torn' = torn
    BY <1>2, <1>3, <1>4, <1>5, <1>15 DEF Arrive
  <2>2. /\ reasm' = [j \in Kind |-> reasm'[j]]
        /\ \A j \in Kind : reasm'[j] = IF j = k THEN r ELSE reasm[j]
    BY <2>1, <1>1 DEF FragTypeOK
  <2>3. FragTypeOK'
    BY <1>1, <1>6, <1>7, <2>1, <2>2 DEF FragTypeOK
  <2>4. NameInv'
    BY <1>1, <1>6, <1>8, <1>13, <2>1 DEF NameInv
  <2>5. HoldInv'
    <3>1. ASSUME NEW j \in Kind, reasm'[j].active
          PROVE  /\ \A a, b \in DOMAIN reasm'[j].have : reasm'[j].have[a] = reasm'[j].have[b]
                 /\ \A i \in DOMAIN reasm'[j].have : i \in Nat /\ reasm'[j].have[i] \in 0 .. offered'
                 /\ \A g \in OnTheWay' : g.kind = j => Follows(g, reasm'[j])
      <4>1. CASE j = k
        <5>1. reasm'[j] = r
          BY <2>2, <4>1
        <5> QED BY <5>1, <4>1, <1>6, <1>9, <1>10, <1>14
      <4>2. CASE j # k
        <5>1. reasm'[j] = reasm[j]
          BY <2>2, <4>2
        <5> QED BY <5>1, <3>1, <1>1, <1>6, <1>8 DEF HoldInv
      <4> QED BY <4>1, <4>2
    <3> QED BY <3>1 DEF HoldInv
  <2>6. OnePacket'
    BY <2>1, <1>1 DEF OnePacket
  <2> QED BY <1>12, <2>3, <2>4, <2>5, <2>6 DEF PacketInv
<1>16. CASE DOMAIN r.have = 1 .. FragCount(k)
  <2>1. /\ reasm' = [j \in Kind |-> IF j = k \/ k = "nav" THEN NoPartial ELSE reasm[j]]
        /\ heard' = [heard EXCEPT ![k] = f.packet]
        /\ torn' = (torn \/ Range(r.have) # {f.packet} \/ f.packet <= heard[k])
    BY <1>2, <1>3, <1>4, <1>5, <1>16 DEF Arrive
  <2>2. /\ reasm' = [j \in Kind |-> reasm'[j]]
        /\ \A j \in Kind : reasm'[j].active => reasm'[j] = reasm[j]
    BY <2>1 DEF NoPartial
  <2>3. heard' \in [Kind -> Nat] /\ \A j \in Kind : heard'[j] = IF j = k THEN f.packet ELSE heard[j]
    BY <2>1, <1>1, <1>10
  <2>4. FragTypeOK'
    BY <1>1, <1>6, <1>7, <2>2, <2>3 DEF FragTypeOK
  <2>5. ASSUME NEW g \in OnTheWay'
        PROVE  g.packet <= offered' /\ heard'[g.kind] < g.packet
    <3>1. /\ g \in Fragment /\ g \in OnTheWay /\ Before(f, g) /\ g.kind \in Kind
          /\ g.packet \in Nat /\ g.index \in Nat /\ g.index <= FragCount(g.kind)
          /\ g.packet <= offered /\ heard[g.kind] < g.packet
      BY <1>1, <1>8, <1>11, FragmentIs DEF NameInv
    <3>2. CASE g.kind # k
      BY <3>1, <3>2, <2>3, <1>6
    <3>3. CASE g.kind = k
      <4>1. FragCount(k) \in DOMAIN r.have
        BY <1>10, <1>16
      <4>2. f.index = FragCount(k)
        BY <4>1, <1>9, <1>10
      <4>3. f.packet < g.packet
        BY <4>2, <3>1, <3>3, <1>3, <1>10 DEF Before
      <4> QED BY <4>3, <3>1, <3>3, <2>3, <1>6
    <3> QED BY <3>2, <3>3
  <2>6. NameInv'
    <3>1. \A j \in Kind : heard'[j] <= offered'
      BY <2>3, <1>1, <1>6, <1>10 DEF NameInv
    <3> QED BY <3>1, <2>5, <1>13 DEF NameInv
  <2>7. HoldInv'
    BY <2>2, <1>1, <1>6, <1>8 DEF HoldInv
  <2>8. OnePacket'
    <3>1. Range(r.have) = {f.packet}
      BY <1>9 DEF Range
    <3>2. ~(f.packet <= heard[k])
      BY <1>1, <1>10
    <3> QED BY <3>1, <3>2, <2>1, <1>1 DEF OnePacket
  <2> QED BY <1>12, <2>4, <2>6, <2>7, <2>8 DEF PacketInv
<1> QED BY <1>15, <1>16

\* The fragments of one kind in a queue are in the queue's order.
LEMMA KindOf ==
    ASSUME NEW s \in Seq(Fragment), CallsFirst(s), Ordered(s), NEW k \in Kind,
           NEW t, t = Frames(s, k)
    PROVE  /\ t \in Seq(Fragment) /\ Ordered(t)
           /\ \A f \in Range(t) : f \in Range(s) /\ f.kind = k
<1>1. PICK c \in 0 .. Len(s) : \A i \in DOMAIN s : s[i].kind = "call" <=> i <= c
  BY DEF CallsFirst
<1>2. /\ DOMAIN s = 1 .. Len(s) /\ Len(s) \in Nat
      /\ \A i \in 1 .. Len(s) : s[i] \in Fragment
  OBVIOUS
<1>3. PICK a, n \in 0 .. Len(s) :
        /\ a + n <= Len(s)
        /\ t = [i \in 1 .. n |-> s[a + i]]
        /\ \A i \in 1 .. n : s[a + i].kind = k
  <2>1. /\ Frames(s, "call") = [i \in 1 .. c |-> s[i]]
        /\ Frames(s, "nav") = [i \in 1 .. Len(s) - c |-> s[c + i]]
    BY <1>1, Parted
  <2>2. CASE k = "call"
    <3>1. [i \in 1 .. c |-> s[i]] = [i \in 1 .. c |-> s[0 + i]]
      BY <1>1
    <3>2. \A i \in 1 .. c : s[0 + i].kind = k
      BY <1>1, <1>2, <2>2
    <3> QED BY <2>1, <2>2, <3>1, <3>2, <1>2
  <2>3. CASE k = "nav"
    <3>1. \A i \in 1 .. Len(s) - c : c + i \in 1 .. Len(s) /\ ~(c + i <= c)
      BY <1>1, <1>2
    <3>2. \A i \in 1 .. Len(s) : s[i].kind \in Kind
      BY <1>2, FragmentIs
    <3>3. \A i \in 1 .. Len(s) - c : s[c + i].kind = k
      BY <3>1, <3>2, <1>1, <1>2, <2>3 DEF Kind
    <3>4. t = [i \in 1 .. Len(s) - c |-> s[c + i]]
      BY <2>1, <2>3
    <3>5. /\ c \in 0 .. Len(s) /\ Len(s) - c \in 0 .. Len(s)
          /\ c + (Len(s) - c) <= Len(s)
      BY <1>1, <1>2
    <3> WITNESS c \in 0 .. Len(s), Len(s) - c \in 0 .. Len(s)
    <3> QED BY <3>3, <3>4, <3>5
  <2> QED BY <2>2, <2>3 DEF Kind
<1>4. /\ t \in Seq(Fragment) /\ DOMAIN t = 1 .. n
      /\ \A i \in 1 .. n : a + i \in 1 .. Len(s) /\ t[i] = s[a + i]
  BY <1>2, <1>3
<1>5. Ordered(t)
  <2>1. ASSUME NEW i \in DOMAIN t, NEW j \in DOMAIN t, i < j
        PROVE  Before(t[i], t[j])
    <3>1. /\ a + i \in DOMAIN s /\ a + j \in DOMAIN s /\ a + i < a + j
          /\ t[i] = s[a + i] /\ t[j] = s[a + j]
      BY <1>2, <1>4, <2>1
    <3> QED BY <3>1 DEF Ordered
  <2> QED BY <2>1 DEF Ordered
<1>6. ASSUME NEW f \in Range(t)
      PROVE  f \in Range(s) /\ f.kind = k
  <2>1. PICK i \in 1 .. n : f = t[i]
    BY <1>4 DEF Range
  <2> QED BY <2>1, <1>2, <1>3, <1>4 DEF Range
<1> QED BY <1>4, <1>5, <1>6

\* Calls ahead of the others, each in order, make one queue in order.
LEMMA Together ==
    ASSUME NEW s \in Seq(Fragment), NEW t \in Seq(Fragment), NEW u, u = s \o t,
           Ordered(s), Ordered(t),
           \A f \in Range(s) : f.kind = "call",
           \A f \in Range(t) : f.kind = "nav"
    PROVE  /\ u \in Seq(Fragment) /\ Ordered(u) /\ CallsFirst(u)
           /\ Range(u) \subseteq Range(s) \cup Range(t)
<1>1. /\ u \in Seq(Fragment) /\ Len(u) = Len(s) + Len(t)
      /\ Len(s) \in Nat /\ Len(t) \in Nat
      /\ DOMAIN u = 1 .. Len(u) /\ DOMAIN s = 1 .. Len(s) /\ DOMAIN t = 1 .. Len(t)
      /\ \A i \in 1 .. Len(u) : u[i] = IF i <= Len(s) THEN s[i] ELSE t[i - Len(s)]
  OBVIOUS
<1>2. \A i \in DOMAIN u : i <= Len(s) => i \in DOMAIN s /\ u[i] = s[i] /\ s[i] \in Range(s)
  BY <1>1 DEF Range
<1>3. \A i \in DOMAIN u : ~(i <= Len(s)) =>
        i - Len(s) \in DOMAIN t /\ u[i] = t[i - Len(s)] /\ t[i - Len(s)] \in Range(t)
  BY <1>1 DEF Range
<1>4. CallsFirst(u)
  <2>1. Len(s) \in 0 .. Len(u)
    BY <1>1
  <2>2. \A i \in DOMAIN u : u[i].kind = "call" <=> i <= Len(s)
    BY <1>2, <1>3
  <2> QED BY <2>1, <2>2 DEF CallsFirst
<1>5. Range(u) \subseteq Range(s) \cup Range(t)
  BY <1>2, <1>3 DEF Range
<1>6. ASSUME NEW i \in DOMAIN u, NEW j \in DOMAIN u, i < j
      PROVE  Before(u[i], u[j])
  <2>1. CASE j <= Len(s)
    <3>1. i <= Len(s)
      BY <1>1, <1>6, <2>1
    <3> QED BY <2>1, <3>1, <1>2, <1>6 DEF Ordered
  <2>2. CASE i <= Len(s) /\ ~(j <= Len(s))
    BY <2>2, <1>2, <1>3 DEF Before
  <2>3. CASE ~(i <= Len(s))
    <3>1. ~(j <= Len(s)) /\ i - Len(s) < j - Len(s)
      BY <1>1, <1>6, <2>3
    <3> QED BY <2>3, <3>1, <1>3 DEF Ordered
  <2> QED BY <2>1, <2>2, <2>3
<1> QED BY <1>1, <1>4, <1>5, <1>6 DEF Ordered

\* An offer's fragments are of a packet newer than all there were, under an id
\* that nothing on the way or half received goes by.
LEMMA OfferStep ==
    ASSUME PacketInv, NEW k \in Kind, Offer(k),
           air' = air, reasm' = reasm, heard' = heard, torn' = torn
    PROVE  PacketInv'
<1>1. /\ FragTypeOK /\ OrderInv /\ NameInv /\ HoldInv
      /\ pending \in Seq(Fragment) /\ air \in Seq(Fragment) /\ nextId \in Nat /\ offered \in Nat
      /\ heard \in [Kind -> Nat]
      /\ CallsFirst(pending) /\ Ordered(pending)
  BY DEF PacketInv, FragTypeOK, OrderInv
<1>2. PICK p : p = offered + 1
  OBVIOUS
<1>3. PICK frames : frames = FragmentsOf(k, nextId, p)
  OBVIOUS
<1>4. /\ pending' = IF k = "nav" THEN WithNav(pending, frames) ELSE WithCall(pending, frames)
      /\ nextId' = (nextId + 1) % IdCount /\ offered' = p
  BY <1>2, <1>3 DEF Offer
<1>5. p \in Nat /\ offered < p /\ nextId' \in Nat
  BY <1>1, <1>2, <1>4, Counts
<1>6. /\ \A f \in OnTheWay : f.id # nextId
      /\ \A j \in Kind : reasm[j].active => reasm[j].id # nextId
  BY DEF Offer, IdFree, OnTheWay
<1>7. /\ frames \in Seq(Fragment) /\ Ordered(frames)
      /\ \A f \in Range(frames) : f \in Fragment /\ f.kind = k /\ f.id = nextId /\ f.packet = p
  <2>1. FragCount(k) \in Nat \ {0}
    BY Counts
  <2>2. /\ DOMAIN frames = 1 .. FragCount(k)
        /\ frames = [i \in 1 .. FragCount(k) |-> frames[i]]
        /\ \A i \in 1 .. FragCount(k) :
              frames[i] = [kind |-> k, id |-> nextId, index |-> i, packet |-> p]
    BY <1>3 DEF FragmentsOf
  <2>3. \A i \in 1 .. FragCount(k) : frames[i] \in Fragment
    BY <2>1, <2>2, <1>1, <1>5 DEF Fragment
  <2>4. frames \in Seq(Fragment)
    BY <2>1, <2>2, <2>3
  <2>5. Ordered(frames)
    BY <2>2 DEF Ordered, Before
  <2> QED BY <2>2, <2>3, <2>4, <2>5 DEF Range
<1>8. PICK other \in Kind : other # k
  BY DEF Kind
<1>9. PICK rest : rest = Frames(pending, other)
  OBVIOUS
<1>10. /\ rest \in Seq(Fragment) /\ Ordered(rest)
       /\ \A f \in Range(rest) : f \in Range(pending) /\ f.kind = other
  BY <1>1, <1>9, KindOf
<1>11. /\ pending' \in Seq(Fragment) /\ Ordered(pending') /\ CallsFirst(pending')
       /\ Range(pending') \subseteq Range(rest) \cup Range(frames)
  <2>1. CASE k = "nav"
    <3>1. other = "call" /\ pending' = rest \o frames
      BY <2>1, <1>4, <1>8, <1>9 DEF Kind, WithNav
    <3> QED BY <2>1, <3>1, <1>7, <1>10, Together
  <2>2. CASE k = "call"
    <3>1. other = "nav" /\ pending' = frames \o rest
      BY <2>2, <1>4, <1>8, <1>9 DEF Kind, WithCall
    <3> QED BY <2>2, <3>1, <1>7, <1>10, Together
  <2> QED BY <2>1, <2>2 DEF Kind
<1>12. \A f \in Range(pending') :
         \/ f \in Range(pending)
         \/ f \in Fragment /\ f.kind = k /\ f.id = nextId /\ f.packet = p
  BY <1>7, <1>10, <1>11
<1>13. \A f \in OnTheWay' :
         \/ f \in OnTheWay
         \/ f \in Fragment /\ f.kind = k /\ f.id = nextId /\ f.packet = p
  BY <1>12 DEF OnTheWay
<1>14. \A f \in OnTheWay : f.packet <= offered /\ f.packet \in Nat /\ f.id # nextId
  <2>1. \A s \in Seq(Fragment) : \A i \in 1 .. Len(s) : s[i] \in Fragment
    OBVIOUS
  <2>2. \A f \in OnTheWay : f \in Fragment
    BY SMTT(40), <2>1, <1>1, InRange DEF OnTheWay
  <2> QED BY <2>2, <1>1, <1>6, FragmentIs DEF NameInv
<1>15. FragTypeOK'
  BY <1>1, <1>4, <1>5, <1>11 DEF FragTypeOK
<1>16. OrderInv'
  <2>1. ASSUME NEW f \in Range(air'), NEW g \in Range(pending')
        PROVE  Before(f, g)
    <3>1. f \in Range(air) /\ f \in OnTheWay
      BY DEF OnTheWay
    <3>2. CASE g \in Range(pending)
      BY <3>1, <3>2, <1>1 DEF OrderInv
    <3>3. CASE g.packet = p
      BY <3>1, <3>3, <1>1, <1>2, <1>14 DEF Before
    <3> QED BY <3>2, <3>3, <1>12
  <2>2. Ordered(air')
    BY <1>1 DEF OrderInv
  <2> QED BY <2>1, <2>2, <1>11 DEF OrderInv
<1>17. NameInv'
  <2>1. ASSUME NEW f \in OnTheWay', NEW g \in OnTheWay'
        PROVE  Named(f, g)
    <3>1. CASE f \in OnTheWay /\ g \in OnTheWay
      BY <3>1, <1>1 DEF NameInv
    <3>2. CASE f \in OnTheWay /\ g.id = nextId /\ g.packet = p
      BY <3>2, <1>1, <1>2, <1>14 DEF Named
    <3>3. CASE g \in OnTheWay /\ f.id = nextId /\ f.packet = p
      BY <3>3, <1>1, <1>2, <1>14 DEF Named
    <3>4. CASE g.id = nextId /\ g.packet = p /\ f.id = nextId /\ f.packet = p
      BY <3>4 DEF Named
    <3> QED BY <1>13, <3>1, <3>2, <3>3, <3>4
  <2>2. ASSUME NEW f \in OnTheWay'
        PROVE  f.packet <= offered' /\ heard'[f.kind] < f.packet
    <3>1. CASE f \in OnTheWay
      BY <3>1, <1>1, <1>2, <1>4, <1>14 DEF NameInv
    <3>2. CASE f.kind = k /\ f.packet = p
      BY <3>2, <1>1, <1>2, <1>4, <1>5 DEF NameInv
    <3> QED BY <1>13, <3>1, <3>2
  <2>3. \A j \in Kind : heard'[j] <= offered'
    BY <1>1, <1>2, <1>4 DEF NameInv
  <2> QED BY <2>1, <2>2, <2>3 DEF NameInv
<1>18. HoldInv'
  <2>1. ASSUME NEW j \in Kind, reasm'[j].active
        PROVE  /\ \A a, b \in DOMAIN reasm'[j].have : reasm'[j].have[a] = reasm'[j].have[b]
               /\ \A i \in DOMAIN reasm'[j].have : i \in Nat /\ reasm'[j].have[i] \in 0 .. offered'
               /\ \A g \in OnTheWay' : g.kind = j => Follows(g, reasm'[j])
    <3>1. PICK r : r = reasm[j]
      OBVIOUS
    <3>2. /\ r.active /\ r.id # nextId /\ reasm'[j] = r
          /\ \A a, b \in DOMAIN r.have : r.have[a] = r.have[b]
          /\ \A i \in DOMAIN r.have : i \in Nat /\ r.have[i] \in 0 .. offered
          /\ \A g \in OnTheWay : g.kind = j => Follows(g, r)
      BY <3>1, <2>1, <1>1, <1>6 DEF HoldInv
    <3>3. ASSUME NEW g \in OnTheWay', g.kind = j
          PROVE  Follows(g, r)
      <4>1. CASE g \in OnTheWay
        BY <4>1, <3>2, <3>3
      <4>2. CASE g.id = nextId /\ g.packet = p
        BY <4>2, <3>2, <1>1, <1>2 DEF Follows
      <4> QED BY <1>13, <4>1, <4>2
    <3>4. \A i \in DOMAIN r.have : r.have[i] \in 0 .. offered'
      BY <3>2, <1>1, <1>2, <1>4
    <3> QED BY <3>2, <3>3, <3>4
  <2> QED BY <2>1 DEF HoldInv
<1>19. OnePacket'
  BY DEF PacketInv, OnePacket
<1> QED BY <1>15, <1>16, <1>17, <1>18, <1>19 DEF PacketInv

-----------------------------------------------------------------------------
(* The link's steps.                                                        *)

\* What a step keeps that at most takes what is on the air.
AtMostAir ==
    /\ air' \in {air, <<>>}
    /\ UNCHANGED <<pending, nextId, reasm, heard, torn, offered>>

LEMMA AirStep ==
    ASSUME PacketInv, AtMostAir
    PROVE  PacketInv'
<1>1. /\ air \in Seq(Fragment) /\ pending \in Seq(Fragment) /\ nextId \in Nat
      /\ Ordered(air) /\ Ordered(pending) /\ CallsFirst(pending)
  BY DEF PacketInv, FragTypeOK, OrderInv
<1>2. /\ air' \in Seq(Fragment) /\ Ordered(air') /\ Range(air') \subseteq Range(air)
  BY <1>1, Empty DEF AtMostAir
<1>3. /\ pending' = pending /\ nextId' = nextId /\ offered' = offered
      /\ heard' = heard /\ torn' = torn /\ reasm' = reasm
  BY DEF AtMostAir
<1> QED BY <1>1, <1>2, <1>3, Thinner

\* Everything the two do but for packets, and the link's going.
LEMMA LinkStep ==
    ASSUME PacketInv,
           \/ OnConnected \/ OnDisconnected \/ RefreshCache \/ ScanResult \/ Bonded
           \/ WriteAnswered \/ PowerOn \/ AdvComplete \/ GapConnectFailed \/ GapDisconnect
           \/ Start \/ Meet \/ StartAppeared \/ ScanFailed \/ BondFailed \/ DiscoveryFailed
           \/ MeetFails \/ DialFails \/ DropLink \/ Forget \/ UNCHANGED vars
    PROVE  PacketInv'
<1> USE DEF AtMostAir, UnchangedButAir, fragVars, linkVars, phoneFragVars, termFragVars
<1>1. CASE UNCHANGED vars \/ OnConnected \/ RefreshCache \/ ScanFailed \/ BondFailed \/ DiscoveryFailed
  <2>1. AtMostAir
    BY <1>1 DEF vars, OnConnected, RefreshCache, ScanFailed, BondFailed, DiscoveryFailed
  <2> QED BY <2>1, AirStep
<1>2. CASE PowerOn \/ AdvComplete \/ GapConnectFailed \/ GapDisconnect \/ Meet \/ MeetFails \/ DialFails
  <2>1. AtMostAir
    BY <1>2 DEF PowerOn, AdvComplete, GapConnectFailed, GapDisconnect, Meet, MeetFails, DialFails
  <2> QED BY <2>1, AirStep
<1>3. CASE WriteAnswered
  <2>1. AtMostAir
    BY <1>3 DEF WriteAnswered, WriteDone
  <2> QED BY <2>1, AirStep
<1>4. \A p, b : Connecting(p, b) => air' \in {air, <<>>}
  BY DEF Connecting, CutByPhone, AirLost
<1>5. \A p : Reconnecting(p) => air' \in {air, <<>>}
  BY <1>4 DEF Reconnecting
<1>6. CASE OnDisconnected \/ Start
  <2>1. AtMostAir
    BY <1>5, <1>6 DEF OnDisconnected, Start
  <2> QED BY <2>1, AirStep
<1>7. CASE StartAppeared \/ ScanResult \/ Bonded
  <2>1. AtMostAir
    BY <1>4, <1>7 DEF StartAppeared, ScanResult, Bonded
  <2> QED BY <2>1, AirStep
<1>8. CASE DropLink \/ Forget
  <2>1. AtMostAir
    BY <1>8 DEF DropLink, Forget, Cut, AirLost
  <2> QED BY <2>1, AirStep
<1> QED BY <1>1, <1>2, <1>3, <1>6, <1>7, <1>8

\* What is lost of the queue, the air or a reassembler.
LEMMA LossStep ==
    ASSUME PacketInv,
           Destroy \/ PumpNothing \/ GapConnect \/ PowerCut \/ FragmentLost
    PROVE  PacketInv'
<1> USE DEF UnchangedButAir, fragVars, linkVars, phoneFragVars, termFragVars
<1>1. /\ air \in Seq(Fragment) /\ pending \in Seq(Fragment) /\ nextId \in Nat
      /\ Ordered(air) /\ Ordered(pending) /\ CallsFirst(pending)
  BY DEF PacketInv, FragTypeOK, OrderInv
<1>2. CASE Destroy
  <2>1. /\ air' = <<>> /\ pending' = <<>> /\ nextId' = 0 /\ offered' = offered
        /\ heard' = heard /\ torn' = torn /\ reasm' = reasm
    BY <1>2 DEF Destroy, CutByPhone, AirLost
  <2> QED BY <2>1, Empty, Thinner
<1>3. CASE PumpNothing
  <2>1. /\ pending # <<>> /\ air' = air /\ pending' = Tail(pending)
        /\ nextId' = nextId /\ offered' = offered
        /\ heard' = heard /\ torn' = torn /\ reasm' = reasm
    BY <1>3 DEF PumpNothing, DropCallHead
  <2>2. /\ pending' \in Seq(Fragment) /\ Ordered(pending') /\ CallsFirst(pending')
        /\ Range(pending') \subseteq Range(pending)
    BY <1>1, <2>1, HeadAndTail
  <2> QED BY <1>1, <2>1, <2>2, Thinner
<1>4. CASE GapConnect
  <2>1. /\ air' = air /\ pending' = pending /\ nextId' = nextId /\ offered' = offered
        /\ heard' = heard /\ torn' = torn /\ reasm' = NoneHeld
    BY <1>4 DEF GapConnect, NoneHeld
  <2> QED BY <1>1, <2>1, Thinner
<1>5. CASE PowerCut
  <2>1. /\ air' = <<>> /\ pending' = pending /\ nextId' = nextId /\ offered' = offered
        /\ heard' = heard /\ torn' = torn /\ reasm' = NoneHeld
    BY <1>5 DEF PowerCut, Cut, AirLost, NoneHeld
  <2> QED BY <1>1, <2>1, Empty, Thinner
<1>6. CASE FragmentLost
  <2>1. /\ air # <<>> /\ air' = Tail(air) /\ pending' = pending
        /\ nextId' = nextId /\ offered' = offered
        /\ heard' = heard /\ torn' = torn /\ reasm' = reasm
    BY <1>6 DEF FragmentLost, LoseHead
  <2>2. /\ air' \in Seq(Fragment) /\ Ordered(air') /\ Range(air') \subseteq Range(air)
    BY <1>1, <2>1, HeadAndTail
  <2> QED BY <1>1, <2>1, <2>2, Thinner
<1> QED BY <1>2, <1>3, <1>4, <1>5, <1>6

\* Nothing is on the way at first.
LEMMA PacketInit == Init => PacketInv
<1> SUFFICES ASSUME Init PROVE PacketInv
  OBVIOUS
<1>1. /\ pending = <<>> /\ air = <<>> /\ nextId = 0 /\ offered = 0 /\ torn = FALSE
      /\ reasm = NoneHeld /\ heard = [k \in Kind |-> 0]
  BY DEF Init, FragInit, NoneHeld
<1>2. OnTheWay = {} /\ \A k \in Kind : ~reasm[k].active
  BY <1>1, Empty DEF OnTheWay, NoneHeld, NoPartial
<1>3. FragTypeOK
  BY <1>1, Empty DEF FragTypeOK, NoneHeld
<1>4. OrderInv
  BY <1>1, Empty DEF OrderInv
<1>5. NameInv
  BY <1>1, <1>2 DEF NameInv
<1>6. HoldInv
  BY <1>2 DEF HoldInv
<1> QED BY <1>1, <1>3, <1>4, <1>5, <1>6 DEF PacketInv, OnePacket

LEMMA PacketStep == PacketInv /\ [Next]_vars => PacketInv'
<1> SUFFICES ASSUME PacketInv, [Next]_vars PROVE PacketInv'
  OBVIOUS
<1>1. CASE PumpFrame
  <2>1. WriteHead
    BY <1>1 DEF PumpFrame
  <2> QED BY <2>1, WriteStep
<1>2. CASE FragmentArrives
  <2>1. Arrive
    BY <1>2 DEF FragmentArrives
  <2> QED BY <2>1, ArriveStep
<1>3. CASE Discovered
  <2>1. /\ Offer("nav") /\ "nav" \in Kind
        /\ air' = air /\ reasm' = reasm /\ heard' = heard /\ torn' = torn
    BY <1>3 DEF Discovered, termFragVars, Kind
  <2> QED BY <2>1, OfferStep
<1>4. ASSUME NEW k \in Kind, OfferPacket(k)
      PROVE  PacketInv'
  <2>1. /\ Offer(k)
        /\ air' = air /\ reasm' = reasm /\ heard' = heard /\ torn' = torn
    BY <1>4 DEF OfferPacket, termFragVars
  <2> QED BY <2>1, OfferStep
<1> QED BY <1>1, <1>2, <1>3, <1>4, LinkStep, LossStep
        DEF Next, Calls, Traffic, Gap, World

\* However packets overtake one another, whichever end loses or restarts what, and
\* though their ids repeat, what ble_link.c's reassemblers deliver is one packet
\* that was offered, and none after a newer one of its kind.
THEOREM PacketsAreWhole == Spec => []OnePacket
<1>1. PacketInv => OnePacket
  BY DEF PacketInv
<1> QED BY <1>1, PacketInit, PacketStep, PTL DEF Spec
=============================================================================
