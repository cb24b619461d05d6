--------------------------- MODULE FriendCardProofs ---------------------------
(***************************************************************************)
(* Proofs about FriendCard, for any number of riders, places and turns, and *)
(* first about Selection: what is picked from a sequence is what it had at  *)
(* those places, in a sequence as long as they are many.  Then about the    *)
(* friends on the compass, FriendMarkers, and where they are, FriendPlaces. *)
(***************************************************************************)
EXTENDS FriendCard, FriendMarkers, FriendPlaces, SequenceTheorems, FiniteSetTheorems,
    NaturalsInduction, WellFoundedInduction, TLAPS

LEMMA PickedProperties ==
    ASSUME NEW S, NEW s \in Seq(S), NEW places \in SUBSET (DOMAIN s)
    PROVE  /\ Picked(s, places) \in Seq(S)
           /\ Range(Picked(s, places)) = {s[i] : i \in places}
<1> DEFINE rank == [i \in places |-> Cardinality({j \in places : j <= i})]
           n == Cardinality(places)
<1>1. DOMAIN s = 1 .. Len(s) /\ Len(s) \in Nat
  BY LenProperties
<1>2. /\ IsFiniteSet(places) /\ n \in Nat
      /\ \A i \in places : i \in Nat
  <2>1. IsFiniteSet(1 .. Len(s))
    BY <1>1, FS_Interval
  <2>2. IsFiniteSet(places)
    BY <1>1, <2>1, FS_Subset
  <2> QED  BY <1>1, <2>2, FS_CardinalityType
<1>3. ASSUME NEW i \in places
      PROVE  rank[i] \in 1 .. n /\ IsFiniteSet({j \in places : j <= i})
  <2>1. /\ {j \in places : j <= i} \in SUBSET places
        /\ i \in {j \in places : j <= i}
    BY <1>1
  <2>2. /\ IsFiniteSet({j \in places : j <= i})
        /\ Cardinality({j \in places : j <= i}) <= n
        /\ Cardinality({j \in places : j <= i}) \in Nat
    BY <2>1, <1>2, FS_Subset, FS_CardinalityType
  <2>3. Cardinality({j \in places : j <= i}) # 0
    BY <2>1, <2>2, FS_EmptySet
  <2> QED  BY <2>2, <2>3, <1>2
<1>4. ASSUME NEW i \in places, NEW k \in places, i < k
      PROVE  rank[i] # rank[k]
  <2>1. /\ {j \in places : j <= i} \in SUBSET {j \in places : j <= k}
        /\ k \in {j \in places : j <= k} /\ k \notin {j \in places : j <= i}
    BY <1>2, <1>4
  <2>2. IsFiniteSet({j \in places : j <= k})
    BY <1>3
  <2>3. Cardinality({j \in places : j <= i}) # Cardinality({j \in places : j <= k})
    BY <2>1, <2>2, FS_Subset
  <2> QED  BY <2>3
<1>5. rank \in Injection(places, 1 .. n)
  <2>1. rank \in [places -> 1 .. n]
    BY <1>3
  <2>2. \A i, k \in places : rank[i] = rank[k] => i = k
    <3> SUFFICES ASSUME NEW i \in places, NEW k \in places, i # k
                 PROVE  rank[i] # rank[k]
      OBVIOUS
    <3>1. i < k \/ k < i
      BY <1>2
    <3> QED  BY <3>1, <1>4
  <2> QED  BY <2>1, <2>2 DEF Injection, IsInjective
<1>6. IsFiniteSet(1 .. n) /\ Cardinality(1 .. n) = n
  BY <1>2, FS_Interval
<1>7. rank \in Surjection(places, 1 .. n)
  BY <1>5, <1>6, FS_Injection
<1>8. ASSUME NEW k \in 1 .. n
      PROVE  Nth(places, k) \in places /\ rank[Nth(places, k)] = k
  <2>1. \E i \in places : rank[i] = k
    BY <1>7 DEF Surjection
  <2>2. \E i \in places : Cardinality({j \in places : j <= i}) = k
    BY <2>1
  <2>3. /\ Nth(places, k) \in places
        /\ Cardinality({j \in places : j <= Nth(places, k)}) = k
    BY <2>2 DEF Nth
  <2> QED  BY <2>3
<1>9. Picked(s, places) \in [1 .. n -> S]
  BY <1>8, <1>1, ElementOfSeq DEF Picked
<1>10. Picked(s, places) \in Seq(S) /\ DOMAIN Picked(s, places) = 1 .. n
  BY <1>9, <1>2
<1>11. ASSUME NEW i \in places
       PROVE  \E k \in 1 .. n : Picked(s, places)[k] = s[i]
  <2>1. rank[i] \in 1 .. n
    BY <1>3
  <2>2. Nth(places, rank[i]) = i
    BY <2>1, <1>8, <1>5 DEF Injection, IsInjective
  <2> QED  BY <2>1, <2>2 DEF Picked
<1>12. ASSUME NEW k \in 1 .. n
       PROVE  \E i \in places : Picked(s, places)[k] = s[i]
  BY <1>8 DEF Picked
<1> QED  BY <1>10, <1>11, <1>12 DEF Range

LEMMA ChosenProperties ==
    ASSUME NEW S, NEW s \in Seq(S), NEW K
    PROVE  Chosen(s, K) \in Seq(S) /\ Range(Chosen(s, K)) = Range(s) \cap K
<1> DEFINE places == {i \in DOMAIN s : s[i] \in K}
<1>1. places \in SUBSET (DOMAIN s) /\ Chosen(s, K) = Picked(s, places)
  BY DEF Chosen
<1>2. Picked(s, places) \in Seq(S) /\ Range(Picked(s, places)) = {s[i] : i \in places}
  BY <1>1, PickedProperties
<1> QED  BY <1>1, <1>2 DEF Range

-----------------------------------------------------------------------------
(* Add friend's card, its ring and the finger on it.                        *)

RiderOrNone == 0 .. Riders
Prompts == [is : {"none", "offer", "waiting", "done"}, of : RiderOrNone]

Handshakes == [is : {"none", "offer", "waiting", "done"}, of : RiderOrNone, sure : BOOLEAN]

\* What the card, its ring and the finger range over.
CardOK(c) ==
    /\ c \in [page : {"entering", "up", "leaving", "down"}, items : Seq(Rider), centre : RiderOrNone,
              moving : BOOLEAN, prompt : Prompts, snap : RiderOrNone, held : RiderOrNone, gone : BOOLEAN,
              swiped : BOOLEAN]
    /\ IF c.items = <<>> THEN c.centre = 0 ELSE c.centre \in Range(c.items)
RingOK(r) == r \in [full : BOOLEAN, runs : BOOLEAN, asks : BOOLEAN, of : RiderOrNone, late : BOOLEAN]
FingerOK(f) == f \in [at : {"up", "down", "drag"}, drawn : BOOLEAN]
CardTypeOK == CardOK(card) /\ RingOK(ring) /\ FingerOK(finger)

MeshTypeOK ==
    /\ heard \in [Rider -> {"away", "closed", "far", "near"}]
    /\ prompt \in Handshakes
    /\ friends \subseteq Rider /\ hold \in 0 .. Taken
    /\ view \in [prompt : Prompts, list : Seq(Rider)]

\* A rider who asks is there to be asked back, and on the card.
PromptInv ==
    /\ prompt.is # "none" => prompt.of \in Rider
    /\ prompt.is = "offer" => heard[prompt.of] # "away" /\ prompt.of \notin friends
    /\ view.prompt.is # "none" => view.prompt.of \in Rider
    /\ view.prompt.is = "offer" => view.prompt.of \in Range(ItemsOf(view))

\* The snap an offer leaves is to that rider; once it is done the rider stays in the
\* centre, unless ours moves on.
SnapInv(c, f) ==
    /\ c.prompt.is # "none" => c.prompt.of \in Rider
    /\ c.snap # 0 => c.prompt = [is |-> "offer", of |-> c.snap]
    /\ c.prompt.is = "offer" /\ c.snap = 0 =>
         c.swiped \/ (c.centre = c.prompt.of /\ f.at # "drag")

\* Whose ring it is, while the page is there.
HoldInv(c, r, f) ==
    /\ r.full /\ r.asks =>
         r.late \/ f.at = "drag" \/ (f.at = "down" /\ (c.gone \/ r.of = c.centre))
    /\ r.full => r.late \/ c.gone \/ f.at = "drag" \/ r.of = c.centre
    /\ r.full /\ c.prompt.is = "offer" /\ c.held # 0 =>
         r.late \/ c.gone \/ f.at = "drag" \/ r.of = c.held \/ (r.asks /\ f.at = "down")
    /\ f.at = "drag" /\ f.drawn => ~r.full

There == card.page \in {"entering", "up"}
ThereInv == IF There THEN SnapInv(card, finger) /\ HoldInv(card, ring, finger) ELSE finger.at = "up"
CardInv == MeshTypeOK /\ CardTypeOK /\ PromptInv /\ ThereInv /\ ~astray

-----------------------------------------------------------------------------
LEMMA CardConstants == Riders \in Nat \ {0} /\ MaxCard \in Nat \ {0} /\ MaxTurns \in Nat
  BY CardAssumption

LEMMA RiderFacts == /\ Rider \subseteq RiderOrNone /\ 0 \notin Rider /\ 0 \in RiderOrNone
                    /\ RiderOrNone = Rider \cup {0} /\ Taken \notin RiderOrNone
                    /\ RiderOrNone \subseteq 0 .. Taken /\ Taken \in 0 .. Taken
  BY CardConstants DEF Rider, RiderOrNone, Taken

\* A list with riders has a first and a last; who is in it has a place.
LEMMA PlaceFacts ==
    ASSUME NEW s \in Seq(Rider)
    PROVE  /\ DOMAIN s = 1 .. Len(s) /\ Len(s) \in Nat
           /\ Range(s) \subseteq Rider
           /\ s # <<>> <=> Len(s) # 0
           /\ s # <<>> => s[1] \in Range(s)
           /\ \A i \in DOMAIN s : s[i] \in Range(s)
           /\ \A r \in Range(s) : IndexIn(s, r) \in DOMAIN s /\ s[IndexIn(s, r)] = r
<1>1. DOMAIN s = 1 .. Len(s) /\ Len(s) \in Nat
  BY LenProperties
<1>2. \A i \in DOMAIN s : s[i] \in Rider /\ s[i] \in Range(s)
  BY <1>1, ElementOfSeq DEF Range
<1>3. Range(s) \subseteq Rider
  BY <1>2 DEF Range
<1>4. s # <<>> <=> Len(s) # 0
  BY EmptySeq
<1>5. ASSUME NEW r \in Range(s)
      PROVE  IndexIn(s, r) \in DOMAIN s /\ s[IndexIn(s, r)] = r
  <2>1. \E i \in DOMAIN s : s[i] = r
    BY DEF Range
  <2> QED  BY <2>1 DEF IndexIn
<1>6. s # <<>> => 1 \in DOMAIN s
  BY <1>1, <1>4
<1> QED  BY <1>1, <1>2, <1>3, <1>4, <1>5, <1>6

LEMMA NearestIn ==
    ASSUME NEW s \in Seq(Rider), s # <<>>, NEW i \in Nat \ {0}
    PROVE  Nearest(s, i) \in Range(s)
<1>1. (IF i <= Len(s) THEN i ELSE Len(s)) \in DOMAIN s
  BY PlaceFacts
<1> QED  BY <1>1, PlaceFacts DEF Nearest

LEMMA FollowFacts ==
    ASSUME NEW c, CardOK(c), NEW items \in Seq(Rider), NEW d, d = FollowCentre(c, items)
    PROVE  /\ CardOK(d)
           /\ d.page = c.page /\ d.items = items /\ d.prompt = c.prompt /\ d.snap = c.snap
           /\ d.held = c.held /\ d.gone = c.gone /\ d.swiped = c.swiped
           /\ c.centre \in Range(items) => d.centre = c.centre
<1> DEFINE followed == [c EXCEPT !.items = items]
           place == IndexIn(c.items, c.centre)
           last == Nearest(items, place)
<1>1. 0 \notin Range(items) /\ Range(items) \subseteq RiderOrNone
  BY PlaceFacts, RiderFacts
<1>2. CASE items = <<>>
  <2>1. d = [followed EXCEPT !.centre = 0, !.moving = FALSE]
    BY <1>2 DEF FollowCentre
  <2>2. Range(items) = {}
    BY <1>2 DEF Range
  <2> QED  BY <1>2, <2>1, <2>2, RiderFacts DEF CardOK
<1>3. CASE items # <<>> /\ c.centre \in Range(items)
  <2>1. d = followed
    BY <1>3 DEF FollowCentre
  <2> QED  BY <1>3, <2>1 DEF CardOK
<1>4. CASE items # <<>> /\ c.centre \notin Range(items) /\ c.centre = 0
  <2>1. d = [followed EXCEPT !.centre = items[1]]
    BY <1>4 DEF FollowCentre
  <2>2. items[1] \in Range(items)
    BY <1>4, PlaceFacts
  <2> QED  BY <1>1, <1>4, <2>1, <2>2 DEF CardOK
<1>5. CASE items # <<>> /\ c.centre \notin Range(items) /\ c.centre # 0
  <2>1. c.items # <<>> /\ c.centre \in Range(c.items) /\ c.items \in Seq(Rider)
    BY <1>5 DEF CardOK
  <2>2. place \in Nat \ {0}
    BY <2>1, PlaceFacts
  <2>3. last \in Range(items)
    BY <1>5, <2>2, NearestIn
  <2>4. PICK b \in BOOLEAN : d = [followed EXCEPT !.centre = last, !.moving = b]
    <3>1. (c.moving \/ place > Len(items)) \in BOOLEAN
      OBVIOUS
    <3>2. d = [followed EXCEPT !.centre = last, !.moving = c.moving \/ place > Len(items)]
      BY <1>5 DEF FollowCentre, CardOK
    <3> QED  BY <3>1, <3>2
  <2> HIDE DEF last
  <2> QED  BY <1>1, <1>5, <2>3, <2>4 DEF CardOK
<1> QED  BY <1>2, <1>3, <1>4, <1>5

LEMMA EdgeFacts ==
    ASSUME NEW c, CardOK(c), NEW p \in Prompts, NEW d, d = Edge(c, p)
    PROVE  /\ CardOK(d)
           /\ d.page = c.page /\ d.items = c.items /\ d.centre = c.centre /\ d.prompt = p
           /\ d.gone = c.gone
           /\ p = c.prompt => d = c
           /\ p # c.prompt => d.snap = (IF p.is = "offer" THEN p.of ELSE 0)
           /\ p # c.prompt /\ p.is # "none" => d.held = 0
<1>1. CASE p = c.prompt
  BY <1>1 DEF Edge
<1>2. CASE p # c.prompt
  <2>1. PICK s \in RiderOrNone, h \in RiderOrNone :
            /\ d = [c EXCEPT !.prompt = p, !.swiped = FALSE, !.snap = s, !.held = h]
            /\ s = (IF p.is = "offer" THEN p.of ELSE 0)
            /\ p.is # "none" => h = 0
    <3>1. (IF p.is = "offer" THEN p.of ELSE 0) \in RiderOrNone /\ c.held \in RiderOrNone
      BY RiderFacts DEF Prompts, CardOK
    <3>2. (IF p.is = "none" THEN c.held ELSE 0) \in RiderOrNone
      BY <3>1, RiderFacts
    <3>3. d = [c EXCEPT !.prompt = p, !.swiped = FALSE, !.snap = IF p.is = "offer" THEN p.of ELSE 0,
                        !.held = IF p.is = "none" THEN c.held ELSE 0]
      BY <1>2 DEF Edge, CardOK
    <3> QED  BY <3>1, <3>2, <3>3
  <2> QED  BY <1>2, <2>1 DEF CardOK
<1> QED  BY <1>1, <1>2

LEMMA SnapFacts ==
    ASSUME NEW c, CardOK(c), NEW d, d = Snap(c)
    PROVE  /\ CardOK(d)
           /\ d.page = c.page /\ d.items = c.items /\ d.prompt = c.prompt
           /\ d.held = c.held /\ d.gone = c.gone /\ d.swiped = c.swiped
           /\ IF finger.at = "up" /\ c.snap # 0 /\ c.snap \in Range(c.items)
              THEN d.centre = c.snap /\ d.snap = 0
              ELSE d = c
<1>1. CASE finger.at = "up" /\ c.snap # 0 /\ c.snap \in Range(c.items)
  <2>1. PICK b \in BOOLEAN : d = [[c EXCEPT !.centre = c.snap, !.moving = b] EXCEPT !.snap = 0]
    <3>1. (c.moving \/ c.snap # c.centre) \in BOOLEAN
      OBVIOUS
    <3>2. d = [[c EXCEPT !.centre = c.snap, !.moving = c.moving \/ c.snap # c.centre] EXCEPT !.snap = 0]
      BY <1>1 DEF Snap, SnapNow, GoTo, CardOK
    <3> QED  BY <3>1, <3>2
  <2>2. c.items # <<>> /\ c.snap \in RiderOrNone
    BY <1>1, EmptySeq DEF CardOK, Range
  <2> QED  BY <1>1, <2>1, <2>2, RiderFacts DEF CardOK
<1>2. CASE ~(finger.at = "up" /\ c.snap # 0 /\ c.snap \in Range(c.items))
  <2>1. d = c
    BY <1>2 DEF Snap, SnapNow
  <2> QED  BY <2>1, <1>2
<1> QED  BY <1>1, <1>2

\* What the ring becomes.
LEMMA RingFacts ==
    ASSUME NEW c, CardOK(c), RingOK(ring), NEW r, r = Reconciled(c)
    PROVE  /\ RingOK(r)
           /\ \/ r = ring /\ (finger.at = "down" \/ ring.full = (WantsFull(c) /\ finger.at # "drag"))
              \/ /\ finger.at # "down" /\ ~r.asks /\ r.runs
                 /\ r.full = (WantsFull(c) /\ finger.at # "drag")
                 /\ r.full => r.of = c.centre
<1> DEFINE want == WantsFull(c) /\ finger.at # "drag"
<1>1. want \in BOOLEAN /\ c.centre \in RiderOrNone /\ ring.of \in RiderOrNone
  BY DEF CardOK, RingOK
<1>2. CASE finger.at = "down" \/ want = ring.full
  <2>1. r = ring
    BY <1>2 DEF Reconciled
  <2> QED  BY <2>1, <1>2
<1>3. CASE ~(finger.at = "down" \/ want = ring.full)
  <2>1. r = [full |-> want, runs |-> TRUE, asks |-> FALSE,
             of |-> IF want THEN c.centre ELSE ring.of, late |-> FALSE]
    BY <1>3 DEF Reconciled
  <2> HIDE DEF want
  <2>2. RingOK(r) /\ ~r.asks /\ r.runs /\ r.full = want /\ (r.full => r.of = c.centre)
    BY <2>1, <1>1 DEF RingOK
  <2> QED  BY <2>2, <1>3 DEF want
<1> QED  BY <1>2, <1>3

-----------------------------------------------------------------------------
(* The candidates. *)

LEMMA JoinedFacts ==
    ASSUME NEW s \in Seq(Rider), NEW t \in Seq(Rider), NEW u, u = s \o t
    PROVE  /\ u \in Seq(Rider) /\ Range(u) = Range(s) \cup Range(t)
           /\ s # <<>> => u # <<>> /\ u[1] = s[1]
<1>1. /\ DOMAIN s = 1 .. Len(s) /\ Len(s) \in Nat /\ DOMAIN t = 1 .. Len(t) /\ Len(t) \in Nat
      /\ s # <<>> => Len(s) # 0
  BY PlaceFacts
<1>2. /\ u \in Seq(Rider) /\ Len(u) = Len(s) + Len(t)
      /\ \A i \in 1 .. Len(s) + Len(t) : u[i] = IF i <= Len(s) THEN s[i] ELSE t[i - Len(s)]
  BY ConcatProperties
<1>3. DOMAIN u = 1 .. Len(s) + Len(t) /\ (u = <<>> => Len(u) = 0)
  BY <1>2, LenProperties, EmptySeq
<1>4. ASSUME NEW i \in DOMAIN s
      PROVE  i \in DOMAIN u /\ u[i] = s[i]
  BY <1>1, <1>2, <1>3
<1>5. ASSUME NEW j \in DOMAIN t
      PROVE  j + Len(s) \in DOMAIN u /\ u[j + Len(s)] = t[j]
  BY <1>1, <1>2, <1>3
<1>6. ASSUME NEW i \in DOMAIN u
      PROVE  u[i] \in Range(s) \cup Range(t)
  <2>1. CASE i <= Len(s)
    BY <2>1, <1>1, <1>2, <1>3 DEF Range
  <2>2. CASE ~(i <= Len(s))
    <3>1. i - Len(s) \in DOMAIN t /\ u[i] = t[i - Len(s)]
      BY <2>2, <1>1, <1>2, <1>3
    <3> QED  BY <3>1 DEF Range
  <2> QED  BY <2>1, <2>2
<1>7. Range(u) = Range(s) \cup Range(t)
  <2>1. Range(u) \subseteq Range(s) \cup Range(t)
    BY <1>6 DEF Range
  <2>2. \A r \in Range(s) : r \in Range(u)
    BY <1>4 DEF Range
  <2>3. \A r \in Range(t) : r \in Range(u)
    <3> SUFFICES ASSUME NEW j \in DOMAIN t PROVE t[j] \in Range(u)
      BY DEF Range
    <3> QED  BY <1>5 DEF Range
  <2> QED  BY <2>1, <2>2, <2>3
<1>8. s # <<>> => u # <<>> /\ u[1] = s[1]
  BY <1>1, <1>2, <1>3, <1>4
<1> QED  BY <1>2, <1>7, <1>8

\* The candidates are riders who may be, those there were and those there are
\* now, and one that asks is the first of them.
LEMMA CandidateFacts ==
    ASSUME view.list \in Seq(Rider), prompt.is # "none" => prompt.of \in Rider
    PROVE  /\ Candidates \in Seq(Rider)
           /\ Offers(prompt.of) /\ CandidateOk(prompt.of) =>
                Candidates # <<>> /\ Candidates[1] = prompt.of
<1> DEFINE OkNow == {r \in Rider : CandidateOk(r)}
           New == OkNow \ Range(view.list)
           Ranked(n) == {r \in Rider : Rank(r) = n}
           every == [r \in Rider |-> r]
           old == Chosen(view.list, OkNow)
           new == Chosen(every, New)
           joined == old \o new
           of(n) == Chosen(joined, Ranked(n))
<1>1. every \in Seq(Rider) /\ Range(every) = Rider
  BY CardConstants DEF Rider, Range
<1> HIDE DEF every
<1>2. /\ old \in Seq(Rider) /\ Range(old) = Range(view.list) \cap OkNow
      /\ new \in Seq(Rider) /\ Range(new) = Range(every) \cap New
  <2> HIDE DEF OkNow, New
  <2> QED  BY <1>1, ChosenProperties
<1> HIDE DEF old, new
<1>3. joined \in Seq(Rider) /\ Range(joined) = Range(old) \cup Range(new)
  BY <1>2, JoinedFacts
<1>4. OkNow \subseteq Range(joined)
  <2>1. Range(view.list) \subseteq Rider
    BY PlaceFacts
  <2> QED  BY <1>1, <1>2, <1>3
<1>5. Range(joined) \subseteq Rider
  BY <1>3, PlaceFacts
<1>6. Candidates = of(2) \o of(1) \o of(0)
  BY DEF Candidates, old, new, every
<1>7. ASSUME NEW n \in 0 .. 2
      PROVE  of(n) \in Seq(Rider) /\ Range(of(n)) = Range(joined) \cap Ranked(n)
  BY <1>3, ChosenProperties
<1>8. ASSUME Offers(prompt.of), CandidateOk(prompt.of)
      PROVE  of(2) # <<>> /\ of(2)[1] = prompt.of
  <2>1. prompt.of \in OkNow /\ prompt.of \in Ranked(2)
    BY <1>8 DEF Offers, Rank
  <2>2. prompt.of \in Range(of(2))
    BY <2>1, <1>4, <1>7
  <2>3. of(2) # <<>>
    BY <2>2, EmptySeq DEF Range
  <2>4. of(2)[1] \in Ranked(2)
    <3> HIDE DEF of, Ranked, joined
    <3>1. of(2) \in Seq(Rider) /\ Range(of(2)) \subseteq Ranked(2)
      BY <1>7
    <3> QED  BY <2>3, <3>1, PlaceFacts
  <2> HIDE DEF of
  <2> QED  BY <2>3, <2>4 DEF Rank, Offers
<1> HIDE DEF of
<1>9. PICK front : front = of(2) \o of(1)
  OBVIOUS
<1>10. /\ front \in Seq(Rider) /\ (of(2) # <<>> => front # <<>> /\ front[1] = of(2)[1])
  BY <1>7, <1>9, JoinedFacts
<1>11. /\ front \o of(0) \in Seq(Rider)
       /\ front # <<>> => front \o of(0) # <<>> /\ (front \o of(0))[1] = front[1]
  BY <1>7, <1>10, JoinedFacts
<1> QED  BY <1>6, <1>8, <1>9, <1>10, <1>11

LEMMA ItemsFacts ==
    ASSUME NEW v \in [prompt : Prompts, list : Seq(Rider)], v.prompt.is # "none" => v.prompt.of \in Rider
    PROVE  /\ ItemsOf(v) \in Seq(Rider)
           /\ v.prompt.is = "done" => ItemsOf(v) # <<>> 
           /\ v.prompt.is # "done" /\ v.list # <<>> => v.list[1] \in Range(ItemsOf(v))
<1> DEFINE n == IF Len(v.list) < MaxCard THEN Len(v.list) ELSE MaxCard
<1>1. v.list \in Seq(Rider) /\ DOMAIN v.list = 1 .. Len(v.list) /\ Len(v.list) \in Nat
  BY LenProperties
<1>2. n \in Nat /\ n <= Len(v.list)
  BY <1>1, CardConstants
<1>3. CASE v.prompt.is = "done"
  BY <1>3 DEF ItemsOf
<1>4. CASE v.prompt.is # "done"
  <2>1. \A i \in 1 .. n : v.list[i] \in Rider
    BY <1>1, <1>2, ElementOfSeq
  <2>2. PICK s : s = SubSeq(v.list, 1, n)
    OBVIOUS
  <2>3. /\ s \in Seq(Rider) /\ Len(s) = (IF 1 <= n THEN n - 1 + 1 ELSE 0)
        /\ \A i \in 1 .. n - 1 + 1 : s[i] = v.list[1 + i - 1]
    BY <2>1, <2>2, <1>2, SubSeqProperties
  <2>4. ItemsOf(v) = s
    BY <1>4, <2>2 DEF ItemsOf
  <2>5. ASSUME v.list # <<>>
        PROVE  v.list[1] \in Range(s)
    <3>1. Len(v.list) # 0
      BY <1>1, <2>5, EmptySeq
    <3>2. n >= 1
      BY <3>1, <1>1, CardConstants
    <3>3. 1 \in DOMAIN s /\ s[1] = v.list[1]
      BY <3>2, <1>2, <2>3, LenProperties
    <3> QED  BY <3>3 DEF Range
  <2> QED  BY <1>4, <2>3, <2>4, <2>5
<1> QED  BY <1>3, <1>4

-----------------------------------------------------------------------------
(* A frame. *)

\* What a frame makes of the card, up to the ring.
LEMMA FrameFacts ==
    ASSUME CardTypeOK, NEW items \in Seq(Rider), NEW p \in Prompts,
           NEW c, c = Snap(Edge(FollowCentre(card, items), p))
    PROVE  /\ CardOK(c) /\ c.page = card.page /\ c.items = items /\ c.prompt = p /\ c.gone = card.gone
           /\ p = card.prompt => c.swiped = card.swiped /\ c.held = card.held
           /\ p # card.prompt /\ p.is # "none" => c.held = 0
           /\ LET snap == IF p = card.prompt THEN card.snap ELSE IF p.is = "offer" THEN p.of ELSE 0
              IN  IF finger.at = "up" /\ snap # 0 /\ snap \in Range(items)
                  THEN c.centre = snap /\ c.snap = 0
                  ELSE c.snap = snap /\ (card.centre \in Range(items) => c.centre = card.centre)
<1>1. PICK d : d = FollowCentre(card, items)
  OBVIOUS
<1>2. /\ CardOK(d)
      /\ d.page = card.page /\ d.items = items /\ d.prompt = card.prompt /\ d.snap = card.snap
      /\ d.held = card.held /\ d.gone = card.gone /\ d.swiped = card.swiped
      /\ card.centre \in Range(items) => d.centre = card.centre
  BY <1>1, FollowFacts DEF CardTypeOK
<1>3. PICK e : e = Edge(d, p)
  OBVIOUS
<1>4. /\ CardOK(e)
      /\ e.page = d.page /\ e.items = d.items /\ e.centre = d.centre /\ e.prompt = p
      /\ e.gone = d.gone
      /\ p = d.prompt => e = d
      /\ p # d.prompt => e.snap = (IF p.is = "offer" THEN p.of ELSE 0)
      /\ p # d.prompt /\ p.is # "none" => e.held = 0
  BY <1>2, <1>3, EdgeFacts
<1>5. c = Snap(e)
  BY <1>1, <1>3
<1>6. /\ CardOK(c)
      /\ c.page = e.page /\ c.items = e.items /\ c.prompt = e.prompt
      /\ c.held = e.held /\ c.gone = e.gone /\ c.swiped = e.swiped
      /\ IF finger.at = "up" /\ e.snap # 0 /\ e.snap \in Range(e.items)
         THEN c.centre = e.snap /\ c.snap = 0
         ELSE c = e
  BY <1>4, <1>5, SnapFacts
<1>7. e.snap = IF p = card.prompt THEN card.snap ELSE IF p.is = "offer" THEN p.of ELSE 0
  BY <1>2, <1>4
<1> QED  BY <1>2, <1>4, <1>6, <1>7

LEMMA FrameKeeps ==
    ASSUME CardTypeOK, There, ThereInv,
           NEW items \in Seq(Rider), NEW p \in Prompts,
           p.is # "none" => p.of \in Rider, p.is = "offer" => p.of \in Range(items),
           NEW c, c = Snap(Edge(FollowCentre(card, items), p)),
           NEW k, k = [c EXCEPT !.gone = c.gone \/ ring.of \notin Range(items)],
           NEW r, r = Reconciled(c),
           NEW f, f = [finger EXCEPT !.drawn = TRUE]
    PROVE  /\ CardOK(k) /\ RingOK(r) /\ FingerOK(f) /\ k.page = card.page
           /\ SnapInv(k, f) /\ HoldInv(k, r, f)
<1> DEFINE snap == IF p = card.prompt THEN card.snap ELSE IF p.is = "offer" THEN p.of ELSE 0
           lost == ring.of \notin Range(items)
<1>1. /\ CardOK(c) /\ c.page = card.page /\ c.items = items /\ c.prompt = p /\ c.gone = card.gone
      /\ p = card.prompt => c.swiped = card.swiped /\ c.held = card.held
      /\ p # card.prompt /\ p.is # "none" => c.held = 0
      /\ IF finger.at = "up" /\ snap # 0 /\ snap \in Range(items)
         THEN c.centre = snap /\ c.snap = 0
         ELSE c.snap = snap /\ (card.centre \in Range(items) => c.centre = card.centre)
  BY FrameFacts
<1>2. k = [c EXCEPT !.gone = card.gone \/ lost] /\ lost \in BOOLEAN
  BY <1>1
<1>3. /\ CardOK(k) /\ k.page = card.page /\ k.centre = c.centre /\ k.prompt = p /\ k.snap = c.snap
      /\ k.held = c.held /\ k.swiped = c.swiped /\ k.gone = (card.gone \/ lost)
  <2> HIDE DEF lost, snap
  <2>1. card.gone \in BOOLEAN
    BY DEF CardTypeOK, CardOK
  <2> QED  BY <1>1, <1>2, <2>1 DEF CardOK
<1>4. f.at = finger.at /\ f.drawn /\ FingerOK(f) /\ finger.at \in {"up", "down", "drag"}
  BY DEF CardTypeOK, FingerOK
<1>5. /\ RingOK(r)
      /\ \/ r = ring /\ (finger.at = "down" \/ ring.full = (WantsFull(c) /\ finger.at # "drag"))
         \/ /\ finger.at # "down" /\ ~r.asks /\ r.runs
            /\ r.full = (WantsFull(c) /\ finger.at # "drag")
            /\ r.full => r.of = c.centre
  BY <1>1, RingFacts DEF CardTypeOK
<1>6. SnapInv(card, finger) /\ HoldInv(card, ring, finger)
  BY DEF ThereInv
<1>7. 0 \notin Rider /\ Range(items) \subseteq Rider
  BY PlaceFacts, RiderFacts
<1>8. SnapInv(k, f)
  <2>1. k.snap # 0 => k.prompt = [is |-> "offer", of |-> k.snap]
    <3>1. p.is = "offer" => p = [is |-> "offer", of |-> p.of]
      BY DEF Prompts
    <3> QED  BY <1>1, <1>3, <1>6, <3>1 DEF SnapInv
  <2>2. ASSUME p.is = "offer", k.snap = 0
        PROVE  k.swiped \/ (k.centre = p.of /\ f.at # "drag")
    <3>1. p # card.prompt => snap = p.of /\ snap # 0 /\ finger.at = "up"
      BY <1>1, <1>3, <1>7, <2>2
    <3>2. p = card.prompt => snap = card.snap
      OBVIOUS
    <3>3. card.snap # 0 /\ p = card.prompt => card.snap = p.of
      BY <1>6 DEF SnapInv
    <3> HIDE DEF snap
    <3> QED  BY <1>1, <1>3, <1>4, <1>6, <1>7, <2>2, <3>1, <3>2, <3>3 DEF SnapInv
  <2> QED  BY <1>3, <2>1, <2>2 DEF SnapInv
<1>9. HoldInv(k, r, f)
  <2>1. CASE r # ring
    <3>1. r.full => r.of = c.centre /\ finger.at = "up" /\ WantsFull(c)
      BY <1>4, <1>5, <2>1
    <3>2. r.full /\ p.is = "offer" /\ c.held # 0 => c.held = c.centre
      BY <1>1, <3>1 DEF WantsFull
    <3> QED  BY <1>3, <1>4, <1>5, <2>1, <3>1, <3>2 DEF HoldInv
  <2>2. CASE r = ring /\ finger.at = "drag"
    <3>1. ~r.full
      BY <1>5, <2>2
    <3> QED  BY <3>1 DEF HoldInv
  <2>3. CASE r = ring /\ finger.at = "down"
    <3>1. ring.of \in Range(items) /\ ring.of = card.centre => c.centre = ring.of
      BY <1>1, <2>3
    <3>2. p.is = "offer" /\ c.held # 0 => card.prompt.is = "offer" /\ card.held = c.held
      BY <1>1
    <3> QED  BY <1>3, <1>4, <1>6, <2>3, <3>1, <3>2 DEF HoldInv
  <2>4. CASE r = ring /\ finger.at = "up"
    <3>1. r.full => WantsFull(c)
      BY <1>4, <1>5, <2>4
    <3>2. p.is = "offer" /\ c.held # 0 => card.prompt.is = "offer" /\ card.held = c.held
      BY <1>1
    <3>3. r.full /\ p.is = "offer" => c.held = c.centre
      BY <3>1, <1>1 DEF WantsFull
    <3>4. ring.of \in Range(items) /\ ring.of = card.centre /\ p.is # "offer" => c.centre = ring.of
      <4>1. p.is # "offer" => snap = 0
        BY <1>6 DEF SnapInv
      <4> HIDE DEF snap
      <4> QED  BY <1>1, <4>1
    <3>5. r.full /\ p.is = "offer" => c.held # 0
      BY <1>1, <3>1, <1>7 DEF CardOK, WantsFull
    <3> QED  BY <1>3, <1>4, <1>6, <2>4, <3>2, <3>3, <3>4, <3>5 DEF HoldInv
  <2> QED  BY <1>4, <2>1, <2>2, <2>3, <2>4
<1> QED  BY <1>3, <1>4, <1>5, <1>8, <1>9

\* What a step of the card's own leaves of the invariant, whatever it is.
CardKept(c, r, f) ==
    /\ CardOK(c) /\ RingOK(r) /\ FingerOK(f)
    /\ IF c.page \in {"entering", "up"} THEN SnapInv(c, f) /\ HoldInv(c, r, f) ELSE f.at = "up"

LEMMA KeptThen ==
    ASSUME CardInv, MeshTypeOK', PromptInv', CardKept(card', ring', finger'), ~astray'
    PROVE  CardInv'
  BY DEF CardKept, CardInv, CardTypeOK, ThereInv, There

\* A frame, by what it makes of the card.
LEMMA DrawFacts ==
    ASSUME CardInv, CardDraw
    PROVE  \E new \in BOOLEAN, items \in Seq(Rider), p \in Prompts :
             /\ CardFrame(new) /\ There
             /\ view' \in [prompt : Prompts, list : Seq(Rider)]
             /\ items = ItemsOf(view') /\ p = view'.prompt
             /\ p.is # "none" => p.of \in Rider
             /\ p.is = "offer" => p.of \in Range(items)
             /\ \E c : /\ c = Snap(Edge(FollowCentre(card, items), p))
                       /\ card' = [c EXCEPT !.gone = c.gone \/ ring.of \notin Range(items)]
                       /\ ring' = Reconciled(c) /\ finger' = [finger EXCEPT !.drawn = TRUE]
<1>1. PICK new \in BOOLEAN : CardFrame(new)
  BY DEF CardDraw
<1>2. view' \in [prompt : Prompts, list : Seq(Rider)] /\ view'.prompt \in Prompts
  <2>1. Candidates \in Seq(Rider)
    BY CandidateFacts DEF CardInv, PromptInv, MeshTypeOK
  <2>2. [is |-> prompt.is, of |-> prompt.of] \in Prompts
    BY DEF CardInv, MeshTypeOK, Prompts, Handshakes
  <2> QED  BY <1>1, <2>1, <2>2 DEF CardFrame, CardInv, MeshTypeOK
<1>3. PICK items : items = ItemsOf(view')
  OBVIOUS
<1>4. PICK p : p = view'.prompt
  OBVIOUS
<1>5. /\ p \in Prompts /\ items \in Seq(Rider)
      /\ p.is # "none" => p.of \in Rider
      /\ p.is = "offer" => p.of \in Range(items)
  <2>1. CASE ~new
    <3>1. view' = view
      BY <1>1, <2>1 DEF CardFrame
    <3> QED  BY <1>2, <1>3, <1>4, <3>1, ItemsFacts DEF CardInv, PromptInv
  <2>2. CASE new
    <3>1. /\ p = [is |-> prompt.is, of |-> prompt.of] /\ view'.list = Candidates
      BY <1>1, <1>4, <2>2 DEF CardFrame
    <3>2. p.is # "none" => p.of \in Rider
      BY <3>1 DEF CardInv, PromptInv
    <3>3. ASSUME p.is = "offer"
          PROVE  p.of \in Range(items)
      <4>1. Offers(prompt.of) /\ CandidateOk(prompt.of)
        BY <3>1, <3>3 DEF CardInv, PromptInv, Offers, CandidateOk
      <4>2. Candidates # <<>> /\ Candidates[1] = prompt.of
        BY <4>1, CandidateFacts DEF CardInv, PromptInv, MeshTypeOK
      <4>3. PICK v : v = view'
        OBVIOUS
      <4>4. v.prompt = p /\ v.list = Candidates
        BY <1>4, <3>1, <4>3
      <4>5. items = ItemsOf(v)
        BY <1>3, <4>3
      <4> QED  BY <1>2, <3>1, <3>2, <3>3, <4>2, <4>3, <4>4, <4>5, ItemsFacts
    <3> QED  BY <1>2, <1>3, <1>4, <3>2, <3>3, ItemsFacts
  <2> QED  BY <2>1, <2>2
<1>6. PICK c : c = Snap(Edge(FollowCentre(card, items), p))
  OBVIOUS
<1>7. /\ There /\ card' = [c EXCEPT !.gone = c.gone \/ ring.of \notin Range(items)]
      /\ ring' = Reconciled(c) /\ finger' = [finger EXCEPT !.drawn = TRUE]
  <2>1. c \in [page : {"entering", "up", "leaving", "down"}, items : Seq(Rider), centre : RiderOrNone,
              moving : BOOLEAN, prompt : Prompts, snap : RiderOrNone, held : RiderOrNone, gone : BOOLEAN,
              swiped : BOOLEAN]
    BY <1>5, <1>6, FrameFacts DEF CardInv, CardOK
  <2> QED  BY <1>1, <1>3, <1>4, <1>6, <2>1 DEF CardFrame, There
<1> QED  BY <1>1, <1>2, <1>3, <1>4, <1>5, <1>6, <1>7

LEMMA LookDrawn ==
    ASSUME CardInv, CardDraw
    PROVE  CardInv'
<1>1. PICK new \in BOOLEAN, items \in Seq(Rider), p \in Prompts :
        /\ CardFrame(new) /\ There
        /\ view' \in [prompt : Prompts, list : Seq(Rider)]
        /\ items = ItemsOf(view') /\ p = view'.prompt
        /\ p.is # "none" => p.of \in Rider
        /\ p.is = "offer" => p.of \in Range(items)
        /\ \E c : /\ c = Snap(Edge(FollowCentre(card, items), p))
                  /\ card' = [c EXCEPT !.gone = c.gone \/ ring.of \notin Range(items)]
                  /\ ring' = Reconciled(c) /\ finger' = [finger EXCEPT !.drawn = TRUE]
  BY DrawFacts
<1>2. PICK c : /\ c = Snap(Edge(FollowCentre(card, items), p))
               /\ card' = [c EXCEPT !.gone = c.gone \/ ring.of \notin Range(items)]
               /\ ring' = Reconciled(c) /\ finger' = [finger EXCEPT !.drawn = TRUE]
  BY <1>1
<1>3. /\ CardOK(card') /\ RingOK(ring') /\ FingerOK(finger') /\ card'.page = card.page
      /\ SnapInv(card', finger') /\ HoldInv(card', ring', finger')
  <2>1. /\ CardTypeOK /\ There /\ ThereInv
        /\ p.is # "none" => p.of \in Rider
        /\ p.is = "offer" => p.of \in Range(items)
    BY <1>1 DEF CardInv
  <2> QED  BY <1>2, <2>1, FrameKeeps
<1>4. CardKept(card', ring', finger')
  BY <1>1, <1>3 DEF CardKept, There
<1>5. /\ heard' = heard /\ prompt' = prompt /\ friends' = friends /\ astray' = astray
      /\ hold' \in {hold, 0}
  BY <1>1 DEF CardFrame
<1>6. MeshTypeOK'
  <2>1. hold' \in 0 .. Taken
    BY <1>5, RiderFacts DEF CardInv, MeshTypeOK
  <2> QED  BY <1>1, <1>5, <2>1 DEF CardInv, MeshTypeOK
<1>7. PromptInv'
  BY <1>1, <1>5 DEF CardInv, PromptInv
<1> QED  BY <1>4, <1>5, <1>6, <1>7, KeptThen DEF CardInv

-----------------------------------------------------------------------------
(* The other riders. *)

LEMMA MeshThen ==
    ASSUME CardInv, UNCHANGED <<view, cardVars>>, MeshTypeOK', PromptInv'
    PROVE  CardInv'
  BY DEF CardInv, CardTypeOK, ThereInv, There, cardVars

LEMMA RidersKeep ==
    ASSUME CardInv, NEW r \in Rider, Ride(r) \/ Asks(r)
    PROVE  CardInv'
<1> USE RiderFacts DEF CardInv, MeshTypeOK, PromptInv, Handshakes
<1>0. prompt \in Handshakes
  OBVIOUS
<1>1. CASE Ride(r)
  <2>1. PICK h \in {"away", "closed", "far", "near"} \ {heard[r]} :
           /\ heard' = [heard EXCEPT ![r] = h]
           /\ prompt' = IF h = "away" /\ prompt.of = r /\ prompt.is # "done" THEN Closed ELSE prompt
    BY <1>1 DEF Ride
  <2>2. friends' = friends /\ hold' = hold /\ view' = view /\ UNCHANGED cardVars
    BY <1>1 DEF Ride
  <2>3. MeshTypeOK'
    BY <2>1, <2>2 DEF Closed
  <2>4. PromptInv'
    BY <2>1, <2>2 DEF Closed
  <2> QED  BY <2>2, <2>3, <2>4, MeshThen
<1>2. CASE Asks(r)
  <2>1. /\ heard[r] # "away" /\ r \notin friends
        /\ \/ prompt' = [is |-> "offer", of |-> r, sure |-> FALSE]
           \/ prompt.is = "waiting" /\ prompt.of = r /\ prompt' = [prompt EXCEPT !.sure = TRUE]
    BY <1>2 DEF Asks, Requested
  <2>2. heard' = heard /\ friends' = friends /\ hold' = hold /\ view' = view /\ UNCHANGED cardVars
    BY <1>2 DEF Asks
  <2>3. prompt' \in Handshakes
    <3>1. [prompt EXCEPT !.sure = TRUE] \in Handshakes
      BY <1>0
    <3>2. [is |-> "offer", of |-> r, sure |-> FALSE] \in Handshakes
      OBVIOUS
    <3> QED  BY <2>1, <3>1, <3>2
  <2>4. MeshTypeOK' /\ PromptInv'
    <3>1. MeshTypeOK'
      BY <2>2, <2>3
    <3> QED  BY <2>1, <2>2, <3>1
  <2> QED  BY <2>2, <2>4, MeshThen
<1> QED  BY <1>1, <1>2

LEMMA Handshaken ==
    ASSUME CardInv, Befriends \/ PromptEnds \/ MeshHold
    PROVE  CardInv'
<1> USE RiderFacts DEF CardInv, MeshTypeOK, PromptInv, Handshakes
<1>0. prompt \in Handshakes
  OBVIOUS
<1>1. CASE Befriends
  <2>1. /\ prompt.is = "waiting" /\ friends' = friends \cup {prompt.of}
        /\ prompt' = [prompt EXCEPT !.is = "done", !.sure = FALSE]
        /\ heard' = heard /\ hold' = hold /\ view' = view /\ UNCHANGED cardVars
    BY <1>1 DEF Befriends
  <2>2. MeshTypeOK' /\ PromptInv'
    BY <2>1
  <2> QED  BY <2>1, <2>2, MeshThen
<1>2. CASE PromptEnds
  <2>1. /\ prompt' = Closed /\ friends' = friends
        /\ heard' = heard /\ hold' = hold /\ view' = view /\ UNCHANGED cardVars
    BY <1>2 DEF PromptEnds
  <2>2. MeshTypeOK' /\ PromptInv'
    BY <2>1 DEF Closed
  <2> QED  BY <2>1, <2>2, MeshThen
<1>3. CASE MeshHold
  <2>1. /\ hold \in Rider /\ prompt' = HoldTaken(hold) /\ hold' = Taken /\ friends' = friends
        /\ heard' = heard /\ view' = view /\ UNCHANGED cardVars
    BY <1>3 DEF MeshHold
  <2>2. \/ prompt' = [prompt EXCEPT !.is = "waiting", !.sure = TRUE] /\ prompt.is = "offer"
        \/ prompt' = prompt
        \/ prompt' = [is |-> "waiting", of |-> hold, sure |-> FALSE]
        \/ prompt' = Closed
    BY <2>1 DEF HoldTaken, Offers
  <2>3. /\ [prompt EXCEPT !.is = "waiting", !.sure = TRUE] \in Handshakes
        /\ [is |-> "waiting", of |-> hold, sure |-> FALSE] \in Handshakes
        /\ Closed \in Handshakes
    BY <1>0, <2>1 DEF Closed
  <2>4. MeshTypeOK'
    BY <1>0, <2>1, <2>2, <2>3
  <2>5. PromptInv'
    <3>1. PICK q : q = prompt
      OBVIOUS
    <3>2. PICK t : t = prompt'
      OBVIOUS
    <3>3. q \in Handshakes /\ (q.is # "none" => q.of \in Rider)
      BY <1>0, <3>1
    <3>4. /\ t.is # "none" => t.of \in Rider
          /\ t.is = "offer" => t = q
      <4>1. CASE t = [q EXCEPT !.is = "waiting", !.sure = TRUE] /\ q.is = "offer"
        BY <3>3, <4>1
      <4>2. CASE t = q
        BY <3>3, <4>2
      <4>3. CASE t = [is |-> "waiting", of |-> hold, sure |-> FALSE]
        BY <2>1, <4>3
      <4>4. CASE t = Closed
        BY <4>4 DEF Closed
      <4> QED  BY <2>2, <3>1, <3>2, <4>1, <4>2, <4>3, <4>4
    <3> QED  BY <2>1, <3>1, <3>2, <3>4
  <2> QED  BY <2>1, <2>4, <2>5, MeshThen
<1> QED  BY <1>1, <1>2, <1>3

-----------------------------------------------------------------------------
(* The finger. *)

LEMMA CardThen ==
    ASSUME CardInv, UNCHANGED <<heard, prompt, friends, view>>, hold' \in 0 .. Taken,
           CardKept(card', ring', finger'), ~astray'
    PROVE  CardInv'
<1>1. MeshTypeOK' /\ PromptInv'
  BY DEF CardInv, MeshTypeOK, PromptInv
<1> QED  BY <1>1, KeptThen

LEMMA Alike ==
    ASSUME CardInv
    PROVE  /\ CardOK(card) /\ RingOK(ring) /\ FingerOK(finger) /\ hold \in 0 .. Taken /\ ~astray
           /\ There => SnapInv(card, finger) /\ HoldInv(card, ring, finger)
           /\ finger.at # "up" => There
  BY DEF CardInv, CardTypeOK, ThereInv, MeshTypeOK

LEMMA TouchKeeps ==
    ASSUME CardInv, Touch
    PROVE  CardInv'
<1>1. /\ finger.at = "up" /\ finger' = [at |-> "down", drawn |-> FALSE] /\ There
      /\ UNCHANGED <<meshVars, view, astray>>
  BY DEF Touch, Touched, There
<1>2. CASE MayHold
  <2>1. /\ ring' = [full |-> TRUE, runs |-> TRUE, asks |-> TRUE, of |-> card.centre, late |-> FALSE]
        /\ card' = [card EXCEPT !.gone = FALSE]
    BY <1>2 DEF Touch
  <2>2. CardOK(card') /\ RingOK(ring') /\ FingerOK(finger')
    BY <1>1, <2>1, Alike DEF CardOK, RingOK, FingerOK
  <2>3. CardKept(card', ring', finger')
    BY <1>1, <2>1, <2>2, Alike DEF CardKept, There, SnapInv, HoldInv, CardOK
  <2> QED  BY <1>1, <2>3, Alike, CardThen DEF meshVars
<1>3. CASE ~MayHold
  <2>1. ring' = ring /\ card' = card
    BY <1>3 DEF Touch
  <2>2. CardKept(card', ring', finger')
    BY <1>1, <2>1, Alike DEF CardKept, There, SnapInv, HoldInv, FingerOK
  <2> QED  BY <1>1, <2>2, Alike, CardThen DEF meshVars
<1> QED  BY <1>2, <1>3

LEMMA DragKeeps ==
    ASSUME CardInv, Drag
    PROVE  CardInv'
<1>1. PICK r \in Range(card.items), m \in BOOLEAN, w \in BOOLEAN :
        /\ card' = [card EXCEPT !.centre = r, !.snap = 0, !.swiped = w, !.moving = m]
        /\ w = (card.swiped \/ card.prompt.is = "offer")
  <2>1. PICK r \in Range(card.items) :
           card' = [card EXCEPT !.centre = r, !.snap = 0, !.swiped = card.swiped \/ card.prompt.is = "offer",
                                !.moving = finger.at = "drag" /\ card.moving]
    BY Alike DEF Drag, CardOK
  <2>2. (card.swiped \/ card.prompt.is = "offer") \in BOOLEAN /\ (finger.at = "drag" /\ card.moving) \in BOOLEAN
    OBVIOUS
  <2> QED  BY <2>1, <2>2
<1>2. /\ finger.at # "up" /\ finger' = [at |-> "drag", drawn |-> FALSE] /\ There
      /\ ring' = ring /\ card.items # <<>> /\ UNCHANGED <<meshVars, view, astray>>
  BY Alike DEF Drag, Touched
<1>3. card.items \in Seq(Rider) /\ Range(card.items) \subseteq RiderOrNone
  BY Alike, PlaceFacts, RiderFacts DEF CardOK
<1>4. CardOK(card') /\ card'.prompt = card.prompt /\ card'.page = card.page /\ card'.snap = 0 /\ card'.swiped = w
  BY ZenonT(30), <1>1, <1>2, <1>3, Alike, RiderFacts DEF CardOK
<1>5. SnapInv(card', finger') /\ HoldInv(card', ring', finger')
  BY <1>1, <1>2, <1>4, Alike DEF SnapInv, HoldInv
<1>6. CardKept(card', ring', finger')
  BY <1>2, <1>4, <1>5, Alike DEF CardKept, There, FingerOK
<1> QED  BY <1>2, <1>6, Alike, CardThen DEF meshVars

LEMMA BesideIn ==
    ASSUME CardOK(card)
    PROVE  Beside(card) \subseteq Range(card.items)
  BY DEF Beside, Range

LEMMA LiftedKeeps ==
    ASSUME CardInv, Lifted
    PROVE  CardInv'
<1>1. /\ finger.at # "up" /\ finger.drawn /\ finger' = [at |-> "up", drawn |-> FALSE]
      /\ There /\ UNCHANGED <<meshVars, view, astray>>
  BY Alike DEF Lifted, Touched
<1>2. /\ CardOK(card') /\ card'.prompt = card.prompt /\ card'.page = card.page /\ card'.snap = card.snap
      /\ card'.held = card.held /\ card'.gone = card.gone
      /\ card.prompt.is = "offer" /\ card.snap = 0 =>
           card'.swiped \/ (card'.centre = card.centre /\ finger.at # "drag" /\ ~card.swiped) \/ card.swiped
      /\ card.swiped => card'.swiped
  <2>1. /\ card.items \in Seq(Rider) /\ Range(card.items) \subseteq RiderOrNone
        /\ Beside(card) \subseteq Range(card.items)
    BY Alike, PlaceFacts, RiderFacts, BesideIn DEF CardOK
  <2>2. CASE card' = card
    BY <2>2, Alike, <1>1 DEF SnapInv, CardOK
  <2>3. CASE finger.at = "drag" /\ card.items # <<>>
             /\ \E r \in Beside(card) : card' = [card EXCEPT !.centre = r, !.moving = TRUE]
    BY <1>1, <2>1, <2>3, Alike DEF SnapInv, CardOK
  <2>4. CASE /\ finger.at = "down" /\ Len(card.items) >= 2
             /\ \E r \in Beside(card) :
                    card' = [GoTo(card, r) EXCEPT !.swiped = @ \/ (card.prompt.is = "offer" /\ card.snap = 0)]
    <3>1. PICK r \in Beside(card), m \in BOOLEAN, w \in BOOLEAN :
            /\ card' = [[card EXCEPT !.centre = r, !.moving = m] EXCEPT !.swiped = w]
            /\ w = (card.swiped \/ (card.prompt.is = "offer" /\ card.snap = 0))
      <4>1. PICK r \in Beside(card) :
              card' = [[card EXCEPT !.centre = r, !.moving = card.moving \/ r # card.centre]
                          EXCEPT !.swiped = card.swiped \/ (card.prompt.is = "offer" /\ card.snap = 0)]
        BY <2>4, Alike DEF GoTo, CardOK
      <4>2. /\ (card.moving \/ r # card.centre) \in BOOLEAN
            /\ (card.swiped \/ (card.prompt.is = "offer" /\ card.snap = 0)) \in BOOLEAN
        OBVIOUS
      <4> QED  BY <4>1, <4>2
    <3>2. card.items # <<>>
      BY <2>1, <2>4, PlaceFacts
    <3> QED  BY <2>1, <3>1, <3>2, Alike DEF CardOK
  <2> QED  BY <2>2, <2>3, <2>4 DEF Lifted
<1>3. PICK l \in BOOLEAN : /\ ring' = [ring EXCEPT !.late = l]
                           /\ l = (ring.late \/ ring.asks \/ (ring.full /\ ring.of # card'.centre))
  <2>1. (ring.late \/ ring.asks \/ (ring.full /\ ring.of # card'.centre)) \in BOOLEAN
    OBVIOUS
  <2> QED  BY <2>1, Alike DEF Lifted, RingOK
<1>4. RingOK(ring') /\ ring'.full = ring.full /\ ring'.asks = ring.asks /\ ring'.of = ring.of /\ ring'.late = l
  BY <1>3, Alike DEF RingOK
<1>5. SnapInv(card', finger')
  BY <1>1, <1>2, Alike DEF SnapInv
<1>6. HoldInv(card', ring', finger')
  BY <1>1, <1>2, <1>3, <1>4, Alike DEF HoldInv, FingerOK
<1>7. CardKept(card', ring', finger')
  BY <1>1, <1>2, <1>4, <1>5, <1>6, Alike DEF CardKept, There, FingerOK
<1> QED  BY <1>1, <1>7, Alike, CardThen DEF meshVars

-----------------------------------------------------------------------------
(* Animations, timers and the page. *)

LEMMA RingKeeps ==
    ASSUME CardInv, RingDone
    PROVE  CardInv'
<1>1. /\ ring' = [ring EXCEPT !.runs = FALSE, !.asks = FALSE]
      /\ UNCHANGED <<heard, prompt, friends, view, finger, turns>>
  BY DEF RingDone
<1>2. RingOK(ring') /\ ring'.full = ring.full /\ ~ring'.asks /\ ring'.of = ring.of /\ ring'.late = ring.late
  BY <1>1, Alike DEF RingOK
<1>3. CASE AsksNow
  <2>1. /\ hold' = ring.of /\ card' = [card EXCEPT !.held = ring.of]
        /\ astray' = (astray \/ (ring.of # card.centre /\ ~card.gone /\ ~ring.late))
        /\ ring.full /\ ring.asks /\ finger.at = "down" /\ There
    BY <1>3, Alike DEF RingDone, AsksNow
  <2>2. ~astray'
    BY <2>1, Alike DEF HoldInv
  <2>3. /\ CardOK(card') /\ card'.prompt = card.prompt /\ card'.page = card.page /\ card'.snap = card.snap
        /\ card'.held = ring.of /\ card'.gone = card.gone /\ card'.centre = card.centre
        /\ card'.swiped = card.swiped /\ ring.of \in RiderOrNone
    BY <2>1, Alike DEF CardOK, RingOK
  <2>4. CardKept(card', ring', finger')
    BY <1>1, <1>2, <2>1, <2>3, Alike DEF CardKept, There, SnapInv, HoldInv
  <2> QED  BY <1>1, <2>1, <2>2, <2>3, <2>4, RiderFacts, CardThen
<1>4. CASE ~AsksNow
  <2>1. hold' = hold /\ card' = card /\ astray' = astray
    BY <1>4 DEF RingDone
  <2>2. CardKept(card', ring', finger')
    BY <1>1, <1>2, <1>4, <2>1, Alike DEF CardKept, There, SnapInv, HoldInv, AsksNow, CardInv, ThereInv
  <2> QED  BY <1>1, <2>1, <2>2, Alike, CardThen
<1> QED  BY <1>3, <1>4

LEMMA TimesKeep ==
    ASSUME CardInv, CardTimes
    PROVE  CardInv'
<1>1. UNCHANGED <<meshVars, view, ring, finger, turns, astray>>
  BY DEF CardTimes
<1>2. CASE \/ card.moving /\ card' = [card EXCEPT !.moving = FALSE]
           \/ card.held # 0 /\ card' = [card EXCEPT !.held = 0]
           \/ card.page = "entering" /\ card' = [card EXCEPT !.page = "up"]
  <2>1. /\ CardOK(card') /\ card'.prompt = card.prompt /\ card'.snap = card.snap
        /\ card'.gone = card.gone /\ card'.centre = card.centre
        /\ card'.swiped = card.swiped /\ card'.held \in {0, card.held}
        /\ card'.page \in {"entering", "up"} <=> There
        /\ card'.page \in {"entering", "up"} => card'.page = card.page \/ card'.page = "up"
    BY <1>2, Alike, RiderFacts DEF CardOK, There
  <2>2. CardKept(card', ring', finger')
    BY <1>1, <2>1, Alike DEF CardKept, SnapInv, HoldInv, CardInv, ThereInv
  <2> QED  BY <1>1, <2>2, Alike, CardThen DEF meshVars
<1>3. CASE card.page = "leaving" /\ card' = [card EXCEPT !.page = "down"]
  <2>1. CardOK(card') /\ card'.page = "down" /\ ~There
    BY <1>3, Alike DEF CardOK, There
  <2>2. CardKept(card', ring', finger')
    BY <1>1, <2>1, Alike DEF CardKept
  <2> QED  BY <1>1, <2>2, Alike, CardThen DEF meshVars
<1> QED  BY <1>2, <1>3 DEF CardTimes

LEMMA Freshly == CardOK(FreshCard) /\ RingOK(FreshRing)
  BY RiderFacts DEF CardOK, RingOK, FreshCard, FreshRing, Prompts, NoPrompt

LEMMA PageKeeps ==
    ASSUME CardInv, CardLeaves \/ CardEnters
    PROVE  CardInv'
<1>1. finger' = [at |-> "up", drawn |-> TRUE] /\ UNCHANGED <<meshVars, view, astray>>
  BY DEF CardLeaves, CardEnters
<1>2. CASE CardLeaves
  <2>1. /\ card' = [card EXCEPT !.page = "leaving", !.moving = FALSE]
        /\ ring' = ring \/ ring' = [ring EXCEPT !.full = FALSE, !.runs = TRUE, !.asks = FALSE, !.late = FALSE]
    BY <1>2 DEF CardLeaves
  <2>2. CardOK(card') /\ RingOK(ring') /\ FingerOK(finger') /\ card'.page = "leaving"
    BY <1>1, <2>1, Alike DEF CardOK, RingOK, FingerOK
  <2>3. CardKept(card', ring', finger')
    BY <1>1, <2>2 DEF CardKept
  <2> QED  BY <1>1, <2>3, Alike, CardThen DEF meshVars
<1>3. CASE CardEnters
  <2>1. card' = FreshCard /\ ring' = FreshRing
    BY <1>3 DEF CardEnters
  <2>2. CardKept(card', ring', finger')
    BY <1>1, <2>1, Freshly DEF CardKept, FingerOK, SnapInv, HoldInv, FreshCard, FreshRing, NoPrompt
  <2> QED  BY <1>1, <2>2, Alike, CardThen DEF meshVars
<1> QED  BY <1>2, <1>3

-----------------------------------------------------------------------------
LEMMA CardInitially == CardInit => CardInv
<1> SUFFICES ASSUME CardInit PROVE CardInv
  OBVIOUS
<1> USE DEF CardInit
<1>1. MeshTypeOK
  <2>1. <<>> \in Seq(Rider)
    OBVIOUS
  <2> QED  BY <2>1, RiderFacts DEF MeshTypeOK, Closed, NoPrompt, Handshakes, Prompts
<1>2. CardTypeOK
  BY Freshly DEF CardTypeOK, FingerOK
<1>3. PromptInv
  BY DEF PromptInv, Closed, NoPrompt
<1>4. ThereInv
  BY DEF ThereInv, There, SnapInv, HoldInv, FreshCard, FreshRing, NoPrompt
<1> QED  BY <1>1, <1>2, <1>3, <1>4 DEF CardInv

LEMMA CardSteps == CardInv /\ [CardNext]_friendVars => CardInv'
<1> SUFFICES ASSUME CardInv, [CardNext]_friendVars PROVE CardInv'
  OBVIOUS
<1>1. CASE UNCHANGED friendVars
  BY <1>1 DEF friendVars, meshVars, cardVars, CardInv, MeshTypeOK, CardTypeOK, PromptInv, ThereInv, There
<1>2. CASE \E r \in Rider : Ride(r) \/ Asks(r)
  BY <1>2, RidersKeep
<1>3. CASE Befriends \/ PromptEnds \/ MeshHold
  BY <1>3, Handshaken
<1>4. CASE CardDraw
  BY <1>4, LookDrawn
<1>5. CASE RingDone \/ CardTimes
  BY <1>5, RingKeeps, TimesKeep
<1>6. CASE Touch \/ Drag \/ Lifted
  BY <1>6, TouchKeeps, DragKeeps, LiftedKeeps
<1>7. CASE CardLeaves \/ CardEnters
  BY <1>7, PageKeeps
<1> QED  BY <1>1, <1>2, <1>3, <1>4, <1>5, <1>6, <1>7 DEF CardNext

CardSpec == CardInit /\ [][CardNext]_friendVars

LEMMA CardInvariant == CardSpec => []CardInv
  BY CardInitially, CardSteps, PTL DEF CardSpec

\* Who is asked is who is in the centre when the ring fills, for any number of riders that
\* come, go, ask and change places under the finger (friend_screen.cpp, on_ring_full).
THEOREM AlwaysAsksShown == CardSpec => []AsksShown
<1>1. CardInv => AsksShown
  BY DEF CardInv, AsksShown
<1> QED  BY <1>1, CardInvariant, PTL

LEMMA RestFacts ==
    ASSUME CardInv
    PROVE  CardRests
<1> SUFFICES ASSUME AtRest
             PROVE  /\ ring.full <=> prompt.is \in {"waiting", "done"} /\ prompt.of = card.centre
                    /\ ring.full => ring.of = card.centre \/ ring.late \/ card.gone
                    /\ prompt.is = "offer" => card.centre = prompt.of \/ card.swiped
  BY DEF CardRests
<1>1. /\ card.page = "up" /\ finger = [at |-> "up", drawn |-> TRUE] /\ ~ring.runs /\ card.held = 0
      /\ view = [prompt |-> [is |-> prompt.is, of |-> prompt.of], list |-> Candidates]
      /\ card.prompt = view.prompt /\ card.items = ItemsOf(view)
      /\ Snap(card) = card /\ Reconciled(card) = ring
  BY DEF AtRest
<1>2. /\ CardOK(card) /\ RingOK(ring) /\ SnapInv(card, finger) /\ HoldInv(card, ring, finger)
      /\ card.prompt = [is |-> prompt.is, of |-> prompt.of]
  BY <1>1, Alike DEF There
<1>3. 0 \notin Rider /\ (card.items # <<>> => card.centre \in Rider) /\ (card.items = <<>> => card.centre = 0)
  BY <1>2, PlaceFacts, RiderFacts DEF CardOK
<1>4. ring.full <=> WantsFull(card)
  <2>1. PICK r : r = Reconciled(card)
    OBVIOUS
  <2>2. r = ring /\ ~r.runs /\ finger.at = "up"
    BY <1>1, <2>1
  <2>3. ring.full = (WantsFull(card) /\ finger.at # "drag")
    BY <1>2, <2>1, <2>2, RingFacts
  <2>4. ring.full \in BOOLEAN
    BY <1>2 DEF RingOK
  <2> QED  BY <2>2, <2>3, <2>4
<1>5. prompt.is # "none" => prompt.of \in Rider
  BY DEF CardInv, PromptInv
<1>6. ring.full <=> prompt.is \in {"waiting", "done"} /\ prompt.of = card.centre
  <2>1. /\ card.prompt.is = prompt.is /\ card.prompt.of = prompt.of /\ card.held = 0
        /\ card.items # <<>> => card.centre # 0
    BY <1>1, <1>2, <1>3
  <2>2. WantsFull(card) <=> card.items # <<>> /\ prompt.is \in {"waiting", "done"} /\ prompt.of = card.centre
    BY <2>1 DEF WantsFull
  <2>3. prompt.is \in {"waiting", "done"} /\ prompt.of = card.centre => card.items # <<>>
    BY <1>3, <1>5
  <2> QED  BY <1>4, <2>2, <2>3
<1>7. ring.full => ring.of = card.centre \/ ring.late \/ card.gone
  BY <1>1, <1>2 DEF HoldInv
<1>8. ASSUME prompt.is = "offer"
      PROVE  card.centre = prompt.of \/ card.swiped
  <2>1. prompt.of \in Range(card.items)
    BY <1>1, <1>2, <1>8 DEF CardInv, PromptInv
  <2>2. card.snap # 0 => card.snap = prompt.of
    BY <1>2 DEF SnapInv
  <2>3. card.snap = 0
    BY <1>1, <1>2, <2>1, <2>2, SnapFacts
  <2> QED  BY <1>2, <1>8, <2>3 DEF SnapInv
<1> QED  BY <1>6, <1>7, <1>8

\* Once there is nothing left to do the ring is full for a handshake with the rider in
\* the centre and empty if not, and a rider who asks us is in the centre, unless ours
\* has moved on (friend_screen.cpp, reconcile_ring and track_prompt).
THEOREM AlwaysCardRests == CardSpec => []CardRests
  BY RestFacts, CardInvariant, PTL

LEMMA CardMoves ==
    ASSUME CardInv, [CardNext]_friendVars, There, card'.centre # card.centre
    PROVE  \/ ~finger'.drawn
           \/ card.centre \notin Range(card'.items)
           \/ card'.prompt = [is |-> "offer", of |-> card'.centre] /\ finger.at = "up"
<1> USE Alike DEF CardOK
<1>1. CASE UNCHANGED cardVars
  BY <1>1 DEF cardVars
<1>2. CASE CardDraw
  <2>1. PICK items \in Seq(Rider), p \in Prompts :
          /\ p.is = "offer" => p.of \in Range(items)
          /\ \E c : /\ c = Snap(Edge(FollowCentre(card, items), p))
                    /\ card' = [c EXCEPT !.gone = c.gone \/ ring.of \notin Range(items)]
    BY <1>2, DrawFacts
  <2>2. PICK c : /\ c = Snap(Edge(FollowCentre(card, items), p))
                 /\ card' = [c EXCEPT !.gone = c.gone \/ ring.of \notin Range(items)]
    BY <2>1
  <2> DEFINE snap == IF p = card.prompt THEN card.snap ELSE IF p.is = "offer" THEN p.of ELSE 0
  <2>3. /\ CardOK(c) /\ c.items = items /\ c.prompt = p
        /\ IF finger.at = "up" /\ snap # 0 /\ snap \in Range(items)
           THEN c.centre = snap /\ c.snap = 0
           ELSE c.snap = snap /\ (card.centre \in Range(items) => c.centre = card.centre)
    BY <2>2, FrameFacts DEF CardInv
  <2>4. card'.items = items /\ card'.prompt = p /\ card'.centre = c.centre
    BY <2>2, <2>3
  <2>5. SnapInv(card, finger) /\ (p.is = "offer" => p = [is |-> "offer", of |-> p.of])
    BY Alike DEF Prompts
  <2>6. snap # 0 => p = [is |-> "offer", of |-> snap]
    BY <2>5 DEF SnapInv
  <2> HIDE DEF snap
  <2> QED  BY <2>3, <2>4, <2>6
<1>3. CASE Touch \/ Drag \/ Lifted
  <2>1. \E at : finger' = [at |-> at, drawn |-> FALSE]
    BY <1>3 DEF Touch, Drag, Lifted, Touched
  <2> QED  BY <2>1
<1>4. CASE RingDone
  BY <1>4 DEF RingDone
<1>5. CASE CardTimes
  BY <1>5 DEF CardTimes
<1>6. CASE CardLeaves \/ CardEnters
  BY <1>6 DEF CardLeaves, CardEnters, There
<1>7. CASE (\E r \in Rider : Ride(r) \/ Asks(r)) \/ Befriends \/ PromptEnds \/ MeshHold
  BY <1>7 DEF Ride, Asks, Befriends, PromptEnds, MeshHold, cardVars
<1> QED  BY <1>1, <1>2, <1>3, <1>4, <1>5, <1>6, <1>7 DEF CardNext, friendVars

\* The card changes rider by a touch, because its rider has left, or to one who asks
\* us and not under a finger.
THEOREM CardAlwaysHolds == CardSpec => CardHolds
<1>1. CardInv /\ [CardNext]_friendVars =>
        [card.page = "up" /\ card'.centre # card.centre =>
           \/ ~finger'.drawn
           \/ card.centre \notin Range(card'.items)
           \/ card'.prompt = [is |-> "offer", of |-> card'.centre] /\ finger.at = "up"]_friendVars
  BY CardMoves DEF There
<1> QED  BY <1>1, CardInvariant, PTL DEF CardSpec, CardHolds

\* Add friend's card asks the rider in its centre when the ring fills, and at rest its ring
\* and its centre are what the handshake is (friend_screen.cpp).
THEOREM CardAlwaysTrue == CardSpec => []CardTrue
BY AlwaysAsksShown, AlwaysCardRests, PTL DEF CardTrue

-----------------------------------------------------------------------------
(* The friends on the compass.                                              *)

Inks == Int \X Int
Tokens == [bearing : 0 .. Round - 1, avatar : Nat, accent : Nat, art : Inks, described : BOOLEAN, decoded : Inks]
Views == [near : FriendLists, set : [show : BOOLEAN, dot : BOOLEAN], course : -1 .. Round - 1]
\* An image described is of the look it was drawn for, and what LVGL keeps is of the image.
Honest(m) == /\ m.decoded = NoArt \/ m.decoded = m.art
             /\ m.described => m.art = Art([avatar |-> m.avatar, accent |-> m.accent])
             /\ ~m.described => m.decoded = NoArt
Bears(m, f) == /\ m.described /\ m.bearing = f.bearing
               /\ m.avatar = f.look.avatar /\ m.accent = f.look.accent
\* The inductive invariant: a pass leaves in the slots what it was given, each as drawn for it.
MarkersInv ==
    /\ near \in FriendLists /\ ringSet \in [show : BOOLEAN, dot : BOOLEAN] /\ course \in -1 .. Round - 1
    /\ tokens \in [1 .. MaxMarkers -> Tokens] /\ passed \in Views /\ restale \in BOOLEAN
    /\ \A i \in 1 .. MaxMarkers : Honest(tokens[i])
    /\ ringNow = [count |-> Len(passed.near), show |-> passed.set.show, dot |-> passed.set.dot]
    /\ north = passed.course
    /\ \A i \in 1 .. Len(passed.near) : Bears(tokens[i], passed.near[i])
    /\ ~restale => inked = CalledFor

LEMMA ListsAre ==
    ASSUME NEW fs \in FriendLists
    PROVE  /\ Len(fs) \in 0 .. MaxMarkers /\ DOMAIN fs = 1 .. Len(fs)
           /\ \A i \in 1 .. Len(fs) : /\ fs[i].bearing \in 0 .. Round - 1 /\ fs[i].look.avatar \in Nat
                                      /\ fs[i].look.accent \in Nat
<1>1. PICK n \in 0 .. MaxMarkers : fs \in [1 .. n -> [look : LooksAbout, bearing : 0 .. Round - 1]]
  BY DEF FriendLists
<1>2. n \in Nat /\ Len(fs) = n /\ DOMAIN fs = 1 .. n
  BY <1>1, FriendMarkersAssumption
<1> QED  BY <1>1, <1>2, FriendMarkersAssumption DEF LooksAbout

LEMMA MarkersStart == ASSUME MarkersInit PROVE MarkersInv
<1>1. <<>> \in FriendLists
  <2>1. 0 \in 0 .. MaxMarkers
    BY FriendMarkersAssumption
  <2>2. <<>> \in [1 .. 0 -> [look : LooksAbout, bearing : 0 .. Round - 1]]
    <3>1. <<>> \in Seq([look : LooksAbout, bearing : 0 .. Round - 1]) /\ Len(<<>>) = 0
      BY EmptySeq
    <3> QED  BY <3>1, LenProperties
  <2> QED  BY <2>1, <2>2 DEF FriendLists
<1>2. BlankToken \in Tokens /\ Honest(BlankToken)
  BY FriendMarkersAssumption DEF BlankToken, Tokens, Inks, NoArt, Honest
<1>3. passed \in Views /\ Len(passed.near) = 0
  BY <1>1, FriendMarkersAssumption DEF MarkersInit, Views
<1>4. inked = CalledFor
  BY DEF MarkersInit, CalledFor
<1>5. tokens \in [1 .. MaxMarkers -> Tokens] /\ \A i \in 1 .. MaxMarkers : Honest(tokens[i])
  BY <1>2 DEF MarkersInit
<1>6. /\ ringNow = [count |-> Len(passed.near), show |-> passed.set.show, dot |-> passed.set.dot]
      /\ north = passed.course
  BY <1>3 DEF MarkersInit
<1>7. \A i \in 1 .. Len(passed.near) : Bears(tokens[i], passed.near[i])
  BY <1>3
<1> QED  BY <1>3, <1>4, <1>5, <1>6, <1>7 DEF MarkersInit, MarkersInv

\* What is drawn is what was called for.
LEMMA DrawnIsCalledFor == ASSUME MarkersInv PROVE Drawn = CalledFor
<1>1. Len(passed.near) \in 0 .. MaxMarkers
  BY ListsAre DEF MarkersInv, Views
<1>2. ASSUME NEW i \in 1 .. Len(passed.near)
      PROVE  /\ tokens[i].bearing = passed.near[i].bearing
             /\ Ink(tokens[i], ringNow.dot) = IF passed.set.dot THEN <<0, passed.near[i].look.accent>>
                                              ELSE Art(passed.near[i].look)
  <2>1. i \in 1 .. MaxMarkers
    BY <1>1, FriendMarkersAssumption
  <2>2. Honest(tokens[i]) /\ Bears(tokens[i], passed.near[i])
    BY <2>1 DEF MarkersInv
  <2>3. tokens[i].art = Art(passed.near[i].look)
    BY <2>2 DEF Honest, Bears, Art
  <2> QED  BY <2>2, <2>3 DEF MarkersInv, Honest, Bears, Ink
<1> QED  BY <1>1, <1>2 DEF MarkersInv, Drawn, CalledFor

LEMMA TokenForKeeps ==
    ASSUME NEW m \in Tokens, Honest(m), NEW f, f.bearing \in 0 .. Round - 1, f.look.avatar \in Nat,
           f.look.accent \in Nat
    PROVE  /\ TokenFor(m, f) \in Tokens /\ Honest(TokenFor(m, f)) /\ Bears(TokenFor(m, f), f)
<1>1. Art(f.look) \in Inks
  BY FriendMarkersAssumption DEF Art, Inks
<1>2. Art(f.look) = Art([avatar |-> f.look.avatar, accent |-> f.look.accent])
  BY DEF Art
<1>3. CASE SameLook(m, f.look)
  <2>1. TokenFor(m, f) = [bearing |-> f.bearing, avatar |-> m.avatar, accent |-> m.accent, art |-> m.art,
                          described |-> m.described, decoded |-> m.decoded]
    BY <1>3 DEF TokenFor, Tokens
  <2> QED  BY <2>1, <1>3 DEF Tokens, Honest, Bears, SameLook
<1>4. CASE ~SameLook(m, f.look)
  <2>1. TokenFor(m, f) = [bearing |-> f.bearing, avatar |-> f.look.avatar, accent |-> f.look.accent,
                          art |-> Art(f.look), described |-> TRUE,
                          decoded |-> IF m.described THEN NoArt ELSE m.decoded]
    BY <1>4 DEF TokenFor, Described, Tokens
  <2>2. TokenFor(m, f).decoded = NoArt
    BY <2>1 DEF Honest
  <2> QED  BY <2>1, <2>2, <1>1, <1>2 DEF Tokens, Honest, Bears, Inks, NoArt
<1> QED  BY <1>3, <1>4

LEMMA MarkersPassKeeps == ASSUME MarkersInv, MarkersPass PROVE MarkersInv'
<1>1. /\ Len(near) \in 0 .. MaxMarkers /\ near' = near
      /\ \A i \in 1 .. Len(near) : /\ near[i].bearing \in 0 .. Round - 1 /\ near[i].look.avatar \in Nat
                                   /\ near[i].look.accent \in Nat
  BY ListsAre DEF MarkersInv, MarkersPass
<1>2. passed' = [near |-> near, set |-> ringSet, course |-> course] /\ passed' \in Views
  BY DEF MarkersInv, MarkersPass, Views
<1>3. ASSUME NEW i \in 1 .. MaxMarkers
      PROVE  /\ tokens'[i] \in Tokens /\ Honest(tokens'[i])
             /\ i <= Len(near) => Bears(tokens'[i], near[i])
  <2>1. tokens[i] \in Tokens /\ Honest(tokens[i])
    BY DEF MarkersInv
  <2>2. tokens'[i] = IF i <= Len(near) THEN TokenFor(tokens[i], near[i]) ELSE tokens[i]
    BY DEF MarkersPass
  <2>3. CASE i <= Len(near)
    <3>1. i \in 1 .. Len(near)
      BY <2>3, <1>1
    <3>2. /\ near[i].bearing \in 0 .. Round - 1 /\ near[i].look.avatar \in Nat
          /\ near[i].look.accent \in Nat
      BY <1>1, <3>1
    <3>3. /\ TokenFor(tokens[i], near[i]) \in Tokens /\ Honest(TokenFor(tokens[i], near[i]))
          /\ Bears(TokenFor(tokens[i], near[i]), near[i])
      BY <2>1, <3>2, TokenForKeeps
    <3> QED  BY <2>2, <2>3, <3>3
  <2> QED  BY <2>1, <2>2, <2>3, <1>1
<1>4. tokens' \in [1 .. MaxMarkers -> Tokens]
  BY <1>3 DEF MarkersPass
<1>5. \A i \in 1 .. Len(near) : Bears(tokens'[i], near[i])
  BY <1>3, <1>1, FriendMarkersAssumption
<1>6. ASSUME ~restale' PROVE inked' = CalledFor'
  <2>1. ~restale /\ ~RingChanges /\ course = north
    BY <1>6 DEF MarkersPass
  <2>2. /\ ringSet.show = passed.set.show /\ ringSet.dot = passed.set.dot /\ Len(near) = Len(passed.near)
        /\ course = passed.course
    BY <2>1 DEF RingChanges, MarkersInv
  <2>3. ASSUME NEW i \in 1 .. Len(near)
        PROVE  /\ near[i].bearing = passed.near[i].bearing /\ near[i].look.accent = passed.near[i].look.accent
               /\ Art(near[i].look) = Art(passed.near[i].look)
    <3>1. Bears(tokens[i], passed.near[i])
      BY <2>2 DEF MarkersInv
    <3>2. tokens[i].bearing = near[i].bearing /\ SameLook(tokens[i], near[i].look)
      BY <2>1 DEF RingChanges, Remarked
    <3> QED  BY <3>1, <3>2 DEF Bears, SameLook, Art
  <2>4. CalledFor' = CalledFor
    BY <2>2, <2>3, <1>2 DEF CalledFor
  <2> QED  BY <2>1, <2>4 DEF MarkersInv, MarkersPass
<1>7. near' \in FriendLists /\ ringSet' \in [show : BOOLEAN, dot : BOOLEAN] /\ course' \in -1 .. Round - 1
  BY DEF MarkersInv, MarkersPass
<1>8. restale' \in BOOLEAN
  BY DEF MarkersPass
<1> QED  BY <1>1, <1>2, <1>3, <1>4, <1>5, <1>6, <1>7, <1>8 DEF MarkersInv, MarkersPass

LEMMA RingDrawKeeps == ASSUME MarkersInv, RingDraws PROVE MarkersInv'
<1>1. inked' = CalledFor' /\ passed' = passed
  BY DrawnIsCalledFor DEF RingDraws, CalledFor
<1>2. ASSUME NEW i \in 1 .. MaxMarkers
      PROVE  /\ tokens'[i] \in Tokens /\ Honest(tokens'[i])
             /\ \A f : Bears(tokens[i], f) => Bears(tokens'[i], f)
  <2>1. tokens[i] \in Tokens /\ Honest(tokens[i])
    BY DEF MarkersInv
  <2>2. tokens'[i] = tokens[i] \/ (i <= ringNow.count /\ tokens'[i] = Decodes(tokens[i]))
    BY DEF RingDraws
  <2>3. CASE i <= ringNow.count /\ tokens'[i] = Decodes(tokens[i])
    <3>1. tokens[i].described
      BY <2>3 DEF MarkersInv, Bears
    <3> QED  BY <2>1, <2>3, <3>1 DEF Decodes, Tokens, Honest, Bears
  <2> QED  BY <2>1, <2>2, <2>3
<1>3. tokens' \in [1 .. MaxMarkers -> Tokens]
  <2>1. DOMAIN tokens' = 1 .. MaxMarkers /\ tokens' = [i \in 1 .. MaxMarkers |-> tokens'[i]]
    BY DEF RingDraws, MarkersInv
  <2> QED  BY <2>1, <1>2
<1>4. Len(passed.near) \in 0 .. MaxMarkers
  BY ListsAre DEF MarkersInv, Views
<1>5. ASSUME NEW i \in 1 .. Len(passed.near)
      PROVE  Bears(tokens'[i], passed.near[i])
  <2>1. i \in 1 .. MaxMarkers
    BY <1>4, FriendMarkersAssumption
  <2>2. Bears(tokens[i], passed.near[i])
    BY DEF MarkersInv
  <2> QED  BY <1>2, <2>1, <2>2
<1> QED  BY <1>1, <1>2, <1>3, <1>5 DEF MarkersInv, RingDraws

LEMMA CacheKeeps == ASSUME MarkersInv, NEW k \in 1 .. MaxMarkers, CacheDrops(k) PROVE MarkersInv'
<1>1. NoArt \in Inks
  BY DEF NoArt, Inks
<1>2. ASSUME NEW i \in 1 .. MaxMarkers
      PROVE  /\ tokens'[i] \in Tokens /\ Honest(tokens'[i])
             /\ \A f : Bears(tokens[i], f) => Bears(tokens'[i], f)
  <2>1. tokens[i] \in Tokens /\ Honest(tokens[i])
    BY DEF MarkersInv
  <2>2. tokens'[i] = tokens[i] \/ tokens'[i] = [tokens[i] EXCEPT !.decoded = NoArt]
    BY DEF CacheDrops, MarkersInv
  <2> QED  BY <1>1, <2>1, <2>2 DEF Tokens, Honest, Bears
<1>3. tokens' \in [1 .. MaxMarkers -> Tokens]
  <2>1. DOMAIN tokens' = 1 .. MaxMarkers /\ tokens' = [i \in 1 .. MaxMarkers |-> tokens'[i]]
    BY DEF CacheDrops, MarkersInv
  <2> QED  BY <2>1, <1>2
<1>4. Len(passed.near) \in 0 .. MaxMarkers
  BY ListsAre DEF MarkersInv, Views
<1>5. ASSUME NEW i \in 1 .. Len(passed.near)
      PROVE  Bears(tokens'[i], passed.near[i])
  <2>1. i \in 1 .. MaxMarkers
    BY <1>4, FriendMarkersAssumption
  <2>2. Bears(tokens[i], passed.near[i])
    BY DEF MarkersInv
  <2> QED  BY <1>2, <2>1, <2>2
<1> QED  BY <1>2, <1>3, <1>5 DEF MarkersInv, CacheDrops, CalledFor

LEMMA MarkersStep == ASSUME MarkersInv, [MarkersNext]_markerVars PROVE MarkersInv'
<1>1. CASE ThingsChange
  BY <1>1 DEF ThingsChange, MarkersInv, CalledFor
<1>2. CASE Elsewhere
  BY <1>2 DEF Elsewhere, MarkersInv, CalledFor
<1>3. CASE UNCHANGED markerVars
  BY <1>3 DEF markerVars, MarkersInv, CalledFor
<1> QED  BY <1>1, <1>2, <1>3, MarkersPassKeeps, RingDrawKeeps, CacheKeeps DEF MarkersNext

MarkersSpec == MarkersInit /\ [][MarkersNext]_markerVars
\* Theorem: the compass shows the friends of the last pass, each at its bearing with its own look,
\* for any number of slots, of presets and of looks (friend_markers.cpp).
THEOREM AlwaysMarkersTrue == MarkersSpec => []MarkersTrue
<1>1. MarkersInit => MarkersInv
  BY MarkersStart
<1>2. MarkersInv /\ [MarkersNext]_markerVars => MarkersInv'
  BY MarkersStep
<1>3. MarkersInv => MarkersTrue
  BY DEF MarkersInv, MarkersTrue
<1> QED  BY <1>1, <1>2, <1>3, PTL DEF MarkersSpec

-----------------------------------------------------------------------------
(* Where the friends are.                                                   *)

\* Products have names of their own: the provers are slow where they see many.
WholesIn(d, q, x) == d * q <= x /\ x < d * q + d
Within(q, a) == IF a >= 0 THEN 0 <= q /\ q <= a ELSE a <= q /\ q <= 0

LEMMA WholeTimes ==
    ASSUME NEW x \in Int, NEW d \in Nat, d >= 1
    PROVE  x \div d \in Int /\ WholesIn(d, x \div d, x)
<1>1. x \div d \in Int /\ x % d \in 0 .. d - 1 /\ x = d * (x \div d) + (x % d)
  OBVIOUS
<1> QED  BY <1>1 DEF WholesIn

LEMMA OneWhole ==
    ASSUME NEW x \in Int, NEW d \in Nat, d >= 1, NEW p \in Int, NEW q \in Int,
           WholesIn(d, p, x), WholesIn(d, q, x)
    PROVE  p = q
<1>1. d * p < d * q + d /\ d * q < d * p + d
  BY DEF WholesIn
<1>2. d * p < d * (q + 1) /\ d * q < d * (p + 1)
  BY <1>1
<1>3. p < q + 1 /\ q < p + 1
  <2>1. ASSUME NEW a \in Int, NEW b \in Int, d * a < d * b
        PROVE  a < b
    <3> SUFFICES ASSUME b <= a
                 PROVE  FALSE
      OBVIOUS
    <3>1. PICK c \in Nat : a = b + c
      <4>1. a - b \in Nat /\ a = b + (a - b)
        OBVIOUS
      <4> QED  BY <4>1
    <3>2. d * a = d * b + d * c /\ d * c >= 0
      BY <3>1
    <3> QED  BY <2>1, <3>2
  <2>2. q + 1 \in Int /\ p + 1 \in Int
    OBVIOUS
  <2> QED  BY <1>2, <2>1, <2>2
<1> QED  BY <1>3

\* What is added in wholes is added to the quotient.
WholesAdd(d, m, x) == (d * m + x) \div d = m + (x \div d)
LEMMA WholesOfSum ==
    ASSUME NEW m \in Int, NEW x \in Int, NEW d \in Nat, d >= 1
    PROVE  WholesAdd(d, m, x)
<1>1. x \div d \in Int /\ WholesIn(d, x \div d, x)
  BY WholeTimes
<1>2. PICK q \in Int : q = x \div d
  BY <1>1
<1>3. d * m + x \in Int /\ m + q \in Int
  OBVIOUS
<1>4. WholesIn(d, m + q, d * m + x)
  <2>1. d * (m + q) = d * m + d * q
    OBVIOUS
  <2>2. d * q <= x /\ x < d * q + d
    BY <1>1, <1>2 DEF WholesIn
  <2> QED  BY <2>1, <2>2 DEF WholesIn
<1>5. (d * m + x) \div d \in Int /\ WholesIn(d, (d * m + x) \div d, d * m + x)
  BY <1>3, WholeTimes
<1> QED  BY <1>2, <1>3, <1>4, <1>5, OneWhole DEF WholesAdd

\* A part of a, s of d, lies between nothing and a.
LEMMA PartWithin ==
    ASSUME NEW a \in Int, NEW s \in Nat, NEW d \in Nat, d >= 1, s <= d
    PROVE  (a * s) \div d \in Int /\ Within((a * s) \div d, a)
<1>1. a * s \in Int
  OBVIOUS
<1>2. (a * s) \div d \in Int /\ WholesIn(d, (a * s) \div d, a * s)
  BY <1>1, WholeTimes
<1>3. PICK q \in Int : q = (a * s) \div d
  BY <1>2
<1>4. d * q <= a * s /\ a * s < d * q + d
  BY <1>2, <1>3 DEF WholesIn
<1>5. PICK k \in Nat : d = s + k
  <2>1. d - s \in Nat /\ d = s + (d - s)
    OBVIOUS
  <2> QED  BY <2>1
<1>6. a * d = a * s + a * k
  BY <1>5
<1>7. \A b \in Int : d * b <= 0 => b <= 0
  <2> SUFFICES ASSUME NEW b \in Int, b > 0
               PROVE  d * b > 0
    OBVIOUS
  <2> QED  OBVIOUS
<1>8. d * (q + 1) = d * q + d /\ d * (a - q) = d * a - d * q /\ d * (q - a) = d * q - d * a
      /\ d * (0 - (q + 1)) = 0 - (d * q + d) /\ d * a = a * d
  OBVIOUS
<1>9. CASE a >= 0
  <2>1. a * s >= 0 /\ a * k >= 0
    BY <1>9
  <2>2. d * (0 - q) < d
    BY <2>1, <1>4
  <2>3. 0 <= q
    <3> SUFFICES ASSUME 0 - q >= 1
                 PROVE  FALSE
      OBVIOUS
    <3>1. PICK c \in Nat : 0 - q = 1 + c
      <4>1. 0 - q - 1 \in Nat /\ 0 - q = 1 + (0 - q - 1)
        OBVIOUS
      <4> QED  BY <4>1
    <3>2. d * (0 - q) = d + d * c /\ d * c >= 0
      BY <3>1
    <3> QED  BY <2>2, <3>2
  <2>4. d * (q - a) <= 0
    BY <2>1, <1>4, <1>6, <1>8
  <2>5. q - a \in Int
    OBVIOUS
  <2>6. q - a <= 0
    BY <1>7, <2>4, <2>5
  <2> QED  BY <2>3, <2>6, <1>3, <1>9 DEF Within
<1>10. CASE a < 0
  <2>1. a * s <= 0 /\ a * k <= 0
    BY <1>10
  <2>2. q <= 0
    BY <1>7, <2>1, <1>4
  <2>3. d * (a - q) < d
    BY <2>1, <1>4, <1>6, <1>8
  <2>4. a <= q
    <3> SUFFICES ASSUME a - q >= 1
                 PROVE  FALSE
      OBVIOUS
    <3>1. PICK c \in Nat : a - q = 1 + c
      <4>1. a - q - 1 \in Nat /\ a - q = 1 + (a - q - 1)
        OBVIOUS
      <4> QED  BY <4>1
    <3>2. d * (a - q) = d + d * c /\ d * c >= 0
      BY <3>1
    <3> QED  BY <2>3, <3>2
  <2> QED  BY <2>2, <2>4, <1>3, <1>10 DEF Within
<1> QED  BY <1>9, <1>10

\* Behind(p, t): a place p the pack had at t, or a little before.
Slack == Pace * (PhoneMaxAge - 1)
Behind(p, t) == Pace * t - Slack <= p /\ p <= Pace * t

\* PlaceBetween two places the pack had, each by what is a little late, it had the one in between.
PlaceBetween(f, g, a, b, t) == f + ((g - f) * (t - a)) \div (b - a)
LEMMA Interpolated ==
    ASSUME NEW a \in Int, NEW b \in Int, NEW t \in Int, a < t, t <= b, NEW f \in Int, NEW g \in Int,
           Behind(f, a), Behind(g, b)
    PROVE  /\ PlaceBetween(f, g, a, b, t) \in Int /\ Behind(PlaceBetween(f, g, a, b, t), t)
           /\ f = Pace * a /\ g = Pace * b => PlaceBetween(f, g, a, b, t) = Pace * t
<1>1. Pace \in Nat /\ Slack \in Nat
  BY FriendPlacesAssumption DEF Slack
<1>2. PICK d \in Nat, s \in Nat : d = b - a /\ s = t - a /\ d >= 1 /\ s <= d
  <2>1. b - a \in Nat /\ t - a \in Nat /\ b - a >= 1 /\ t - a <= b - a
    OBVIOUS
  <2> QED  BY <2>1
<1>3. PICK u \in Int, v \in Int : /\ f = Pace * a - u /\ g = Pace * b - v
                                  /\ 0 <= u /\ u <= Slack /\ 0 <= v /\ v <= Slack
  <2>1. /\ Pace * a - f \in Int /\ Pace * b - g \in Int
        /\ f = Pace * a - (Pace * a - f) /\ g = Pace * b - (Pace * b - g)
    BY <1>1
  <2>2. /\ 0 <= Pace * a - f /\ Pace * a - f <= Slack /\ 0 <= Pace * b - g /\ Pace * b - g <= Slack
    BY <1>1 DEF Behind
  <2> QED  BY <2>1, <2>2
<1>4. PICK w \in Int : w = u - v
  OBVIOUS
<1>5. g - f = Pace * d + w
  <2>1. Pace * d = Pace * b - Pace * a
    BY <1>1, <1>2
  <2> QED  BY <1>1, <1>3, <1>4, <2>1
<1>6. (g - f) * s = d * (Pace * s) + w * s
  <2>1. (Pace * d + w) * s = d * (Pace * s) + w * s
    BY <1>1
  <2>2. (g - f) * s = (Pace * d + w) * s
    BY <1>5, Zenon
  <2> QED  BY <2>1, <2>2, Zenon
<1>7. PICK m \in Int, x \in Int : m = Pace * s /\ x = w * s
  BY <1>1
<1>8. x \div d \in Int /\ Within(x \div d, w)
  BY <1>7, <1>2, PartWithin
<1>9. ((g - f) * s) \div d = m + (x \div d)
  <2>1. (g - f) * s = d * m + x
    BY <1>6, <1>7
  <2>2. WholesAdd(d, m, x)
    BY <1>2, WholesOfSum
  <2> QED  BY <2>1, <2>2 DEF WholesAdd
<1>10. PICK q \in Int : q = x \div d
  BY <1>8
<1>11. Pace * t = Pace * a + m
  BY <1>1, <1>2, <1>7
<1>12. Pace * a \in Int /\ Pace * b \in Int /\ Pace * t \in Int
  BY <1>1
<1>13. PlaceBetween(f, g, a, b, t) = Pace * t - u + q
  BY <1>2, <1>3, <1>9, <1>10, <1>11, <1>12 DEF PlaceBetween
<1>14. Within(q, w)
  BY <1>8, <1>10
<1>15. 0 - Slack <= q - u /\ q - u <= 0
  BY <1>1, <1>3, <1>4, <1>14 DEF Within
<1>16. f = Pace * a /\ g = Pace * b => q = 0 /\ u = 0
  BY <1>3, <1>4, <1>12, <1>14 DEF Within
<1>17. Behind(Pace * t - u + q, t)
  BY <1>1, <1>12, <1>15 DEF Behind
<1> QED  BY <1>12, <1>13, <1>16, <1>17

-----------------------------------------------------------------------------
(* The inductive invariant of FriendPlaces.                                 *)

Fixes == [at : Nat, place : Int]
Pseudonyms == [rider : Pack, boot : Nat]
Peers == [used : {TRUE}, id : Pseudonyms, heard : Nat, has : BOOLEAN, off : Int, at : Nat, level : BOOLEAN]
Entries == {EmptySlot} \cup Peers
\* The furthest a friend is shown from where they are.
Reach == Pace * (PosMaxAge + PhoneMaxAge - 1)
\* What is known of a rider is near enough to the truth.
NearTruth(p) == /\ p.has => 0 - Reach <= p.off - lead[p.id.rider] /\ p.off - lead[p.id.rider] <= Reach
                /\ p.level => p.off = lead[p.id.rider]
\* A position came when the rider still went by that pseudonym.
InTime(p) == p.at <= tick /\ (p.id = Pseudonym(p.id.rider) \/ p.at <= booted[p.id.rider])
\* Our fixes are in the order they came in, each of them a place where we were when it came in or
\* a little before; no pseudonym has two entries, and what is in an entry is near enough to the truth.
FixesOrdered ==
    /\ fixes \in Seq(Fixes)
    /\ \A i \in 1 .. Len(fixes) : fixes[i].at <= tick /\ Behind(fixes[i].place, fixes[i].at)
    /\ \A i, j \in 1 .. Len(fixes) : i < j => fixes[i].at <= fixes[j].at
TableNear ==
    /\ table \in [1 .. PeerSlots -> Entries]
    /\ \A i \in 1 .. PeerSlots : table[i].used => NearTruth(table[i])
    /\ \A i, j \in 1 .. PeerSlots : table[i].used /\ table[j].used /\ table[i].id = table[j].id => i = j
TableInTime == \A i \in 1 .. PeerSlots : table[i].used => InTime(table[i])
PlacesInv ==
    /\ lead \in [Pack -> Int] /\ tick \in Nat /\ fixTaken \in -1 .. tick
    /\ booted \in [Pack -> Nat] /\ \A r \in Pack : booted[r] <= tick
    /\ FixesOrdered /\ TableNear /\ TableInTime

LEMMA NearTruthSays ==
    ASSUME NEW p, NearTruth(p)
    PROVE  /\ p.has => 0 - Reach <= p.off - lead[p.id.rider] /\ p.off - lead[p.id.rider] <= Reach
           /\ p.level => p.off = lead[p.id.rider]
  BY Zenon DEF NearTruth

LEMMA EntriesAre ==
    ASSUME NEW e \in Entries
    PROVE  /\ e.used \in BOOLEAN /\ (e.used => e \in Peers) /\ (~e.used => e = EmptySlot)
<1>1. CASE e = EmptySlot
  BY <1>1 DEF EmptySlot
<1>2. CASE e \in Peers
  BY <1>2 DEF Peers
<1> QED  BY <1>1, <1>2 DEF Entries

LEMMA PlacesStart == ASSUME PlacesInit PROVE PlacesInv
<1>1. fixes \in Seq(Fixes) /\ Len(fixes) = 0
  BY EmptySeq DEF PlacesInit
<1>2. FixesOrdered
  BY <1>1 DEF FixesOrdered
<1>3. table \in [1 .. PeerSlots -> Entries] /\ \A i \in 1 .. PeerSlots : ~table[i].used
  <2>1. EmptySlot \in Entries /\ ~EmptySlot.used
    BY DEF Entries, EmptySlot
  <2> QED  BY <2>1 DEF PlacesInit
<1>4. TableNear /\ TableInTime
  BY <1>3 DEF TableNear, TableInTime
<1>6. tick = 0 /\ booted \in [Pack -> Nat] /\ \A r \in Pack : booted[r] <= tick
  BY DEF PlacesInit
<1>5. lead \in [Pack -> Int] /\ tick \in Nat /\ fixTaken \in -1 .. tick
  <2>1. lead \in [Pack -> Leads] /\ Leads \subseteq Int
    BY FriendPlacesAssumption DEF PlacesInit
  <2>2. lead \in [Pack -> Int]
    BY <2>1
  <2> QED  BY <2>2 DEF PlacesInit
<1> QED  BY <1>2, <1>4, <1>5, <1>6 DEF PlacesInv

\* A fix is kept behind those before it.
LEMMA FixKeeps ==
    ASSUME PlacesInv, NEW taken \in 0 .. tick, tick - taken <= PhoneMaxAge - 1, SetOwnPos(taken), tick' = tick
    PROVE  FixesOrdered'
<1>. DEFINE kept == IF Len(fixes) = OwnFixes THEN Tail(fixes) ELSE fixes
            new == [at |-> tick, place |-> Pace * taken]
<1>1. Pace \in Nat /\ PhoneMaxAge \in Nat \ {0} /\ OwnFixes \in Nat \ {0} /\ tick \in Nat
  BY FriendPlacesAssumption DEF PlacesInv
<1>2. /\ kept \in Seq(Fixes)
      /\ \A i \in 1 .. Len(kept) : kept[i].at <= tick /\ Behind(kept[i].place, kept[i].at)
      /\ \A i, j \in 1 .. Len(kept) : i < j => kept[i].at <= kept[j].at
  <2>1. CASE Len(fixes) = OwnFixes
    <3>1. fixes # <<>>
      BY <1>1, <2>1, EmptySeq
    <3>2. /\ Tail(fixes) \in Seq(Fixes) /\ Len(Tail(fixes)) = Len(fixes) - 1
          /\ \A i \in 1 .. Len(Tail(fixes)) : Tail(fixes)[i] = fixes[i + 1]
      BY <3>1, HeadTailProperties DEF PlacesInv, FixesOrdered
    <3>3. \A i \in 1 .. Len(fixes) - 1 : i + 1 \in 1 .. Len(fixes)
      BY <1>1, <2>1
    <3>4. \A i, j \in 1 .. Len(fixes) - 1 : i < j => i + 1 < j + 1
      BY <1>1, <2>1
    <3> QED  BY <2>1, <3>2, <3>3, <3>4 DEF PlacesInv, FixesOrdered
  <2>2. CASE Len(fixes) # OwnFixes
    BY <2>2 DEF PlacesInv, FixesOrdered
  <2> QED  BY <2>1, <2>2
<1>3. new \in Fixes
  BY <1>1 DEF Fixes
<1>4. Behind(new.place, new.at)
  <2>1. PICK c \in Nat : tick = taken + c /\ c <= PhoneMaxAge - 1
    <3>1. tick - taken \in Nat /\ tick = taken + (tick - taken)
      BY <1>1
    <3> QED  BY <3>1
  <2>2. PICK k \in Nat : PhoneMaxAge - 1 = c + k
    <3>1. PhoneMaxAge - 1 - c \in Nat /\ PhoneMaxAge - 1 = c + (PhoneMaxAge - 1 - c)
      BY <1>1, <2>1
    <3> QED  BY <3>1
  <2>3. Pace * tick = Pace * taken + Pace * c /\ Slack = Pace * c + Pace * k
    BY <1>1, <2>1, <2>2 DEF Slack
  <2>4. Pace * c >= 0 /\ Pace * k >= 0 /\ Pace * taken \in Int
    BY <1>1, <2>1
  <2>5. new.place = Pace * taken /\ new.at = tick
    OBVIOUS
  <2> QED  BY <1>1, <2>1, <2>3, <2>4, <2>5 DEF Behind
<1>5. fixes' = Append(kept, new) /\ Len(kept) \in Nat
  BY <1>2 DEF SetOwnPos
<1>6. /\ fixes' \in Seq(Fixes) /\ Len(fixes') = Len(kept) + 1
      /\ \A i \in 1 .. Len(kept) : fixes'[i] = kept[i]
      /\ fixes'[Len(kept) + 1] = new
  BY <1>2, <1>3, <1>5, AppendProperties
<1>. HIDE DEF kept, new
<1>7. new.at = tick
  BY DEF new
<1>8. PICK n \in Nat : n = Len(kept) /\ \A i \in 1 .. n + 1 : i \in 1 .. n \/ i = n + 1
  BY <1>5
<1>9. \A i \in 1 .. Len(fixes') : fixes'[i].at <= tick /\ Behind(fixes'[i].place, fixes'[i].at)
  BY <1>1, <1>2, <1>4, <1>6, <1>7, <1>8
<1>10. \A i, j \in 1 .. Len(fixes') : i < j => fixes'[i].at <= fixes'[j].at
  <2> SUFFICES ASSUME NEW i \in 1 .. n + 1, NEW j \in 1 .. n + 1, i < j
               PROVE  fixes'[i].at <= fixes'[j].at
    BY <1>6, <1>8
  <2>1. i \in 1 .. n
    BY <1>8
  <2>2. CASE j \in 1 .. n
    BY <1>2, <1>6, <1>8, <2>1, <2>2
  <2>3. CASE j = n + 1
    BY <1>2, <1>6, <1>7, <1>8, <2>1, <2>3
  <2> QED  BY <1>8, <2>2, <2>3
<1> QED  BY <1>6, <1>9, <1>10 DEF FixesOrdered, Behind, Slack

\* Of some slots there is a least.
LEMMA LeastOfSome ==
    ASSUME NEW S \in SUBSET Nat, S # {}
    PROVE  \E m \in S : \A k \in S : m <= k
<1>1. PICK m \in S : \A k \in S : <<k, m>> \notin OpToRel(<, Nat)
  BY WFMin, NatLessThanWellFounded, Zenon
<1>2. \A k \in S : m <= k
  <2> SUFFICES ASSUME NEW k \in S
               PROVE  m <= k
    OBVIOUS
  <2>1. k \in Nat /\ m \in Nat
    OBVIOUS
  <2>2. ~(k < m)
    BY <1>1, <2>1, Zenon DEF OpToRel
  <2> QED  BY <2>1, <2>2
<1> QED  BY <1>2

\* A pseudonym has its own slot where it has one, and otherwise some slot.
LEMMA SlotForIs ==
    ASSUME TableNear, NEW r
    PROVE  /\ SlotFor(r) \in 1 .. PeerSlots
           /\ \A i \in 1 .. PeerSlots : table[i].used /\ table[i].id = r => i = SlotFor(r)
<1>. DEFINE theirs == {i \in 1 .. PeerSlots : table[i].used /\ table[i].id = r}
            free == {i \in 1 .. PeerSlots : ~table[i].used}
            silent == {i \in 1 .. PeerSlots : \A j \in 1 .. PeerSlots : table[i].heard <= table[j].heard}
            among == IF theirs # {} THEN theirs ELSE IF free # {} THEN free ELSE silent
<1>1. PeerSlots \in Nat \ {0}
  BY FriendPlacesAssumption
<1>2. among \in SUBSET (1 .. PeerSlots)
  OBVIOUS
<1>3. ASSUME free = {}
      PROVE  silent # {}
  <2>1. \A i \in 1 .. PeerSlots : table[i].heard \in Nat
    BY <1>3, EntriesAre DEF TableNear, Peers
  <2>2. 1 \in 1 .. PeerSlots
    BY <1>1
  <2>3. PICK h \in {table[i].heard : i \in 1 .. PeerSlots} : \A k \in {table[i].heard : i \in 1 .. PeerSlots} : h <= k
    BY <2>1, <2>2, LeastOfSome
  <2> QED  BY <2>3
<1>4. among # {}
  BY <1>3
<1>5. SlotFor(r) = CHOOSE i \in among : \A j \in among : i <= j
  BY DEF SlotFor
<1>. HIDE DEF among
<1>6. \E i \in among : \A j \in among : i <= j
  <2>1. among \in SUBSET Nat
    BY <1>2
  <2> QED  BY <1>4, <2>1, LeastOfSome
<1>7. SlotFor(r) \in among
  BY <1>5, <1>6
<1>8. ASSUME NEW i \in 1 .. PeerSlots, table[i].used, table[i].id = r
      PROVE  i = SlotFor(r)
  <2>1. i \in theirs
    BY <1>8
  <2>2. among = theirs
    BY <2>1 DEF among
  <2>3. SlotFor(r) \in 1 .. PeerSlots /\ table[SlotFor(r)].used /\ table[SlotFor(r)].id = r
    BY <1>7, <2>2
  <2> QED  BY <1>8, <2>3 DEF TableNear
<1> QED  BY <1>2, <1>7, <1>8

\* Putting what is near the truth in a rider's slot keeps the table so.
LEMMA PutKeeps ==
    ASSUME TableNear, TableInTime, NEW id, NEW p \in Peers, p.id = id, NearTruth(p), InTime(p),
           UNCHANGED <<lead, tick, booted>>, table' = [table EXCEPT ![SlotFor(id)] = p]
    PROVE  TableNear' /\ TableInTime'
<1>1. PICK s : s = SlotFor(id)
  OBVIOUS
<1>2. s \in 1 .. PeerSlots /\ \A i \in 1 .. PeerSlots : table[i].used /\ table[i].id = id => i = s
  BY <1>1, SlotForIs
<1>3. /\ table' \in [1 .. PeerSlots -> Entries] /\ table'[s] = p
      /\ \A i \in 1 .. PeerSlots : i # s => table'[i] = table[i]
  BY <1>1, <1>2 DEF TableNear, Entries
<1>4. \A i \in 1 .. PeerSlots : table'[i].used => NearTruth(table'[i]) /\ InTime(table'[i])
  BY <1>3 DEF TableNear, TableInTime
<1>5. \A i \in 1 .. PeerSlots : (NearTruth(table[i])' <=> NearTruth(table'[i]))
                                 /\ (InTime(table[i])' <=> InTime(table'[i]))
  BY DEF NearTruth, Reach, InTime, Pseudonym
<1>6. \A i, j \in 1 .. PeerSlots :
         table'[i].used /\ table'[j].used /\ table'[i].id = table'[j].id => i = j
  BY <1>2, <1>3 DEF TableNear
<1> QED  BY <1>3, <1>4, <1>5, <1>6 DEF TableNear, TableInTime

LEMMA PseudonymIs ==
    ASSUME PlacesInv, NEW r \in Pack
    PROVE  Pseudonym(r) \in Pseudonyms /\ Pseudonym(r).rider = r
BY DEF PlacesInv, Pseudonym, Pseudonyms

LEMMA PeerNowIs ==
    ASSUME PlacesInv, NEW r \in Pack, NEW id, id = Pseudonym(r)
    PROVE  PeerNow(id) \in Peers /\ PeerNow(id).id = id /\ NearTruth(PeerNow(id)) /\ InTime(PeerNow(id))
<1>1. PICK q : q = table[SlotFor(id)]
  OBVIOUS
<1>2. SlotFor(id) \in 1 .. PeerSlots
  BY SlotForIs DEF PlacesInv
<1>3. /\ q \in Entries /\ (q.used => NearTruth(q) /\ InTime(q)) /\ tick \in Nat
      /\ id \in Pseudonyms /\ id.rider = r
  BY <1>1, <1>2, PseudonymIs DEF PlacesInv, TableNear, TableInTime
<1>4. CASE q.used /\ q.id = id
  <2>1. q \in Peers
    BY <1>3, <1>4, EntriesAre
  <2>2. PeerNow(id) = [q EXCEPT !.heard = tick]
    BY <1>1, <1>4 DEF PeerNow
  <2> QED  BY <2>1, <2>2, <1>3, <1>4 DEF Peers, NearTruth, InTime
<1>5. CASE ~(q.used /\ q.id = id)
  <2>1. PeerNow(id) = FreshPeer(id)
    BY <1>1, <1>5 DEF PeerNow
  <2> QED  BY <2>1, <1>3 DEF FreshPeer, Peers, NearTruth, InTime
<1> QED  BY <1>4, <1>5

\* Around(p, t): where the pack was within PosMaxAge of t, or a little before.
Around(p, t) == Pace * t - Reach <= p /\ p <= Pace * t + Pace * PosMaxAge

LEMMA BehindAround ==
    ASSUME NEW a \in Int, NEW t \in Int, t - a <= PosMaxAge, a - t <= PosMaxAge, NEW p \in Int, Behind(p, a)
    PROVE  Around(p, t)
<1>1. Pace \in Nat /\ PosMaxAge \in Nat /\ PhoneMaxAge \in Nat \ {0}
  BY FriendPlacesAssumption
<1>2. Reach = Pace * PosMaxAge + Slack /\ Slack \in Int
  BY <1>1 DEF Reach, Slack
<1>3. PICK c \in Nat, d \in Nat : PosMaxAge = (t - a) + c /\ PosMaxAge = (a - t) + d
  <2>1. /\ PosMaxAge - (t - a) \in Nat /\ PosMaxAge = (t - a) + (PosMaxAge - (t - a))
        /\ PosMaxAge - (a - t) \in Nat /\ PosMaxAge = (a - t) + (PosMaxAge - (a - t))
    BY <1>1
  <2> QED  BY <2>1
<1>4. /\ Pace * PosMaxAge = Pace * t - Pace * a + Pace * c /\ Pace * c >= 0
      /\ Pace * PosMaxAge = Pace * a - Pace * t + Pace * d /\ Pace * d >= 0
      /\ Pace * a \in Int /\ Pace * t \in Int
  BY <1>1, <1>3
<1> QED  BY <1>1, <1>2, <1>4 DEF Behind, Around

\* Where we were at t, as far as our fixes tell, and exactly there when they were sent as taken.
LEMMA OwnAtIs ==
    ASSUME PlacesInv, fixes # <<>>, Fresh(fixes[Len(fixes)].at, PosMaxAge),
           NEW t \in Int, tick - PosMaxAge <= t, t <= tick
    PROVE  OwnAt(t) \in Int /\ Around(OwnAt(t), t) /\ (Like(t) => OwnAt(t) = Pace * t)
<1>1. PICK n \in Nat : n = Len(fixes) /\ n >= 1
  BY EmptySeq DEF PlacesInv, FixesOrdered
<1>2. \A i \in 1 .. n : /\ fixes[i] \in Fixes /\ fixes[i].at \in Nat /\ fixes[i].place \in Int
                        /\ fixes[i].at <= tick /\ Behind(fixes[i].place, fixes[i].at)
  <2>1. \A i \in 1 .. n : fixes[i] \in Fixes
    BY <1>1, ElementOfSeq DEF PlacesInv, FixesOrdered
  <2>2. \A i \in 1 .. n : fixes[i].at <= tick /\ Behind(fixes[i].place, fixes[i].at)
    BY <1>1 DEF PlacesInv, FixesOrdered
  <2> QED  BY <2>1, <2>2 DEF Fixes
<1>3. tick \in Nat /\ PosMaxAge \in Nat /\ Pace \in Nat /\ 1 \in 1 .. n /\ n \in 1 .. n
  BY <1>1, FriendPlacesAssumption DEF PlacesInv
<1>4. tick - fixes[n].at <= PosMaxAge
  BY <1>1 DEF Fresh
<1>5. CASE t <= fixes[1].at
  <2>1. OwnAt(t) = fixes[1].place
    BY <1>5 DEF OwnAt
  <2>2. fixes[1].at - t <= PosMaxAge /\ t - fixes[1].at <= PosMaxAge
    BY <1>2, <1>3, <1>5
  <2>3. Around(OwnAt(t), t)
    BY <1>2, <1>3, <2>1, <2>2, BehindAround
  <2>4. Like(t) => OwnAt(t) = Pace * t
    <3> SUFFICES ASSUME Like(t)
                 PROVE  OwnAt(t) = Pace * t
      OBVIOUS
    <3>1. fixes[1].at = t
      BY <1>2, <1>3, <1>5 DEF Like
    <3> QED  BY <2>1, <3>1, <1>1, <1>3 DEF Like, TrueFix
  <2> QED  BY <1>2, <1>3, <2>1, <2>3, <2>4
<1>6. CASE t > fixes[n].at
  <2>1. n = Len(fixes) /\ fixes[1].at <= fixes[n].at
    <3>1. 1 < n => fixes[1].at <= fixes[n].at
      BY SMTT(30), <1>1, <1>3 DEF PlacesInv, FixesOrdered
    <3> QED  BY <1>1, <1>2, <1>3, <3>1
  <2>2. OwnAt(t) = fixes[n].place
    <3>1. {fixes[1].at, fixes[n].at} \subseteq Int
      BY <1>2, <1>3
    <3>2. ~(t <= fixes[1].at)
      BY <1>6, <2>1, <3>1
    <3> QED  BY <1>6, <2>1, <3>2 DEF OwnAt
  <2>3. fixes[n].at - t <= PosMaxAge /\ t - fixes[n].at <= PosMaxAge
    BY <1>2, <1>3, <1>4, <1>6
  <2>4. Around(OwnAt(t), t)
    BY <1>2, <1>3, <2>2, <2>3, BehindAround
  <2>5. ~Like(t)
    BY <1>2, <1>3, <1>6, <2>1 DEF Like
  <2> QED  BY <1>2, <1>3, <2>2, <2>4, <2>5
<1>7. CASE fixes[1].at < t /\ t <= fixes[n].at
  <2>1. PICK i : i = CHOOSE k \in 1 .. Len(fixes) - 1 : fixes[k].at < t /\ t <= fixes[k + 1].at
    OBVIOUS
  <2>2. i \in 1 .. n - 1 /\ fixes[i].at < t /\ t <= fixes[i + 1].at
    <3>1. \E k \in 1 .. n - 1 : fixes[k].at < t /\ t <= fixes[k + 1].at
      <4>1. {k \in 1 .. n : t <= fixes[k].at} \in SUBSET Nat /\ {k \in 1 .. n : t <= fixes[k].at} # {}
        BY <1>3, <1>7
      <4>2. PICK m \in {k \in 1 .. n : t <= fixes[k].at} : \A k \in {k \in 1 .. n : t <= fixes[k].at} : m <= k
        BY <4>1, LeastOfSome
      <4>3. m # 1
        BY <1>2, <1>3, <1>7, <4>2
      <4>4. m - 1 \in 1 .. n - 1 /\ m - 1 \in 1 .. n /\ (m - 1) + 1 = m /\ ~(m <= m - 1)
        BY <1>1, <4>2, <4>3
      <4>5. fixes[m - 1].at < t
        BY <1>2, <4>2, <4>4
      <4> QED  BY <4>2, <4>4, <4>5
    <3> QED  BY <1>1, <2>1, <3>1
  <2>3. i \in 1 .. n /\ i + 1 \in 1 .. n
    BY <1>1, <2>2
  <2>4. PICK f \in Int, g \in Int, a \in Int, b \in Int :
           f = fixes[i].place /\ g = fixes[i + 1].place /\ a = fixes[i].at /\ b = fixes[i + 1].at
    <3>1. {fixes[i].place, fixes[i].at} \subseteq Int
      BY <1>2, <2>3
    <3>2. {fixes[i + 1].place, fixes[i + 1].at} \subseteq Int
      BY <1>2, <2>3
    <3> QED  BY <3>1, <3>2
  <2>5. a < t /\ t <= b /\ Behind(f, a) /\ Behind(g, b) /\ b <= tick
    BY <1>2, <2>2, <2>3, <2>4
  <2>6. OwnAt(t) = PlaceBetween(f, g, a, b, t)
    <3>1. ~(t <= fixes[1].at) /\ ~(t > fixes[Len(fixes)].at)
      BY <1>1, <1>2, <1>3, <1>7
    <3>2. OwnAt(t) = PlaceBetween(fixes[i].place, fixes[i + 1].place, fixes[i].at, fixes[i + 1].at, t)
      BY <2>1, <3>1, Zenon DEF OwnAt, PlaceBetween
    <3> QED  BY <2>4, <3>2
  <2>7. OwnAt(t) \in Int /\ Behind(OwnAt(t), t)
    <3>1. PlaceBetween(f, g, a, b, t) \in Int /\ Behind(PlaceBetween(f, g, a, b, t), t)
      BY <2>5, Interpolated
    <3> QED  BY <2>6, <3>1
  <2>8. Around(OwnAt(t), t)
    BY <1>3, <2>7, BehindAround
  <2>9. Like(t) => OwnAt(t) = Pace * t
    <3> SUFFICES ASSUME Like(t)
                 PROVE  OwnAt(t) = Pace * t
      OBVIOUS
    <3>1. f = Pace * a /\ g = Pace * b
      BY <1>1, <2>3, <2>4 DEF Like, TrueFix
    <3> QED  BY <2>5, <2>6, <3>1, Interpolated
  <2> QED  BY <2>7, <2>8, <2>9
<1>8. t <= fixes[1].at \/ t > fixes[n].at \/ (fixes[1].at < t /\ t <= fixes[n].at)
  BY <1>2, <1>3
<1> QED  BY <1>5, <1>6, <1>7, <1>8

\* What is between two offsets near enough is near enough.
LEMMA SomewhereBetween ==
    ASSUME NEW a \in Int, NEW b \in Int, NEW o \in Somewhere(a, b)
    PROVE  o \in Int /\ ((a <= o /\ o <= b) \/ (b <= o /\ o <= a))
BY DEF Somewhere

\* The offset made of a position of theirs and of ours of that time.
LEMMA OffsetNear ==
    ASSUME PlacesInv, NEW r \in Pack, NEW age \in Nat, Compared(age), NEW late \in 0 .. PhoneMaxAge - 1
    PROVE  /\ OffsetNow(r, age, late) \in Int
           /\ 0 - Reach <= OffsetNow(r, age, late) - lead[r] /\ OffsetNow(r, age, late) - lead[r] <= Reach
           /\ late = 0 /\ Like(tick - age) => OffsetNow(r, age, late) = lead[r]
<1>1. /\ Pace \in Nat /\ PosMaxAge \in Nat /\ PhoneMaxAge \in Nat \ {0} /\ tick \in Nat /\ lead[r] \in Int
      /\ late \in Nat
  BY FriendPlacesAssumption DEF PlacesInv
<1>2. PICK t \in Int, l \in Int : t = tick - age /\ l = lead[r]
  BY <1>1
<1>9. PICK o : o = OwnAt(t)
  OBVIOUS
<1>3. tick - PosMaxAge <= t /\ t <= tick
  BY <1>1, <1>2 DEF Compared
<1>4. o \in Int /\ Around(o, t) /\ (Like(t) => o = Pace * t)
  BY <1>3, <1>9, OwnAtIs DEF Compared
<1>5. Reach = Pace * PosMaxAge + Slack /\ Slack \in Int /\ Pace * PosMaxAge \in Nat
  BY <1>1 DEF Reach, Slack
<1>6. Pace * late >= 0 /\ Pace * late <= Slack /\ Pace * late \in Int /\ Pace * t \in Int
  <2>1. PICK k \in Nat : PhoneMaxAge - 1 = late + k
    <3>1. PhoneMaxAge - 1 - late \in Nat /\ PhoneMaxAge - 1 = late + (PhoneMaxAge - 1 - late)
      BY <1>1
    <3> QED  BY <3>1
  <2>2. Slack = Pace * late + Pace * k /\ Pace * k >= 0
    BY <1>1, <2>1 DEF Slack
  <2> QED  BY <1>1, <2>2
<1>7. OffsetNow(r, age, late) = Pace * t - Pace * late + l - o
  <2>1. Pace * (tick - age - late) = Pace * t - Pace * late
    BY <1>1, <1>2
  <2> QED  BY <1>2, <1>9, <2>1 DEF OffsetNow
<1>8. late = 0 => Pace * late = 0
  BY <1>1
<1> QED  BY <1>1, <1>2, <1>4, <1>5, <1>6, <1>7, <1>8 DEF Around

LEMMA AfterPosNear ==
    ASSUME PlacesInv, NEW r \in Pack, NEW age \in Nat, NEW late \in 0 .. PhoneMaxAge - 1,
           NEW p \in Peers, p.id = Pseudonym(r), NearTruth(p), InTime(p), NEW q \in AfterPos(p, r, age, late)
    PROVE  q \in Peers /\ q.id = p.id /\ NearTruth(q) /\ InTime(q)
<1>1. tick \in Nat /\ lead[r] \in Int /\ Reach \in Int
  BY FriendPlacesAssumption DEF PlacesInv, Reach
<1>4. p.id.rider = r
  BY PseudonymIs
<1>2. CASE ~Compared(age)
  BY <1>2 DEF AfterPos
<1>3. CASE Compared(age)
  <2>1. PICK new : new = OffsetNow(r, age, late)
    OBVIOUS
  <2>2. /\ new \in Int /\ 0 - Reach <= new - lead[r] /\ new - lead[r] <= Reach
        /\ late = 0 /\ Like(tick - age) => new = lead[r]
    BY <1>3, <2>1, OffsetNear
  <2>3. PICK o \in NewOffsets(p, new) :
           q = [p EXCEPT !.has = TRUE, !.off = o, !.at = tick,
                         !.level = late = 0 /\ Like(tick - age) /\ (Restarts(p) \/ p.at = tick \/ p.level)]
    BY <1>3, <2>1 DEF AfterPos
  <2>4. p.off \in Int /\ p.has \in BOOLEAN /\ p.level \in BOOLEAN
    BY DEF Peers
  <2>5. CASE Restarts(p) \/ p.at = tick
    <3>1. o = new
      BY <2>3, <2>5 DEF NewOffsets
    <3>2. /\ q.id = p.id /\ q.off = new /\ q.at = tick /\ q \in Peers
          /\ q.level => late = 0 /\ Like(tick - age)
      BY <1>1, <2>2, <2>3, <3>1 DEF Peers
    <3> QED  BY <1>1, <1>4, <2>2, <3>2 DEF NearTruth, InTime
  <2>6. CASE ~(Restarts(p) \/ p.at = tick)
    <3>1. o \in Somewhere(p.off, new)
      BY <2>3, <2>6 DEF NewOffsets
    <3>2. o \in Int /\ ((p.off <= o /\ o <= new) \/ (new <= o /\ o <= p.off))
      BY <2>2, <2>4, <3>1, SomewhereBetween
    <3>3. p.has /\ 0 - Reach <= p.off - lead[r] /\ p.off - lead[r] <= Reach /\ (p.level => p.off = lead[r])
      <4>1. p.has
        BY <2>6 DEF Restarts
      <4> QED  BY <1>4, <4>1 DEF NearTruth
    <3>4. 0 - Reach <= o - lead[r] /\ o - lead[r] <= Reach
      BY <1>1, <2>2, <2>4, <3>2, <3>3
    <3>5. late = 0 /\ Like(tick - age) /\ p.level => o = lead[r]
      BY <1>1, <2>2, <2>4, <3>2, <3>3
    <3>6. /\ q.id = p.id /\ q.has /\ q.off = o /\ q.at = tick
          /\ q.level = (late = 0 /\ Like(tick - age) /\ p.level)
          /\ q \in Peers
      BY <1>1, <2>3, <2>6, <3>2 DEF Peers
    <3>7. q.id.rider = r
      BY <1>4, <3>6
    <3>8. 0 - Reach <= q.off - lead[q.id.rider] /\ q.off - lead[q.id.rider] <= Reach
      BY <3>4, <3>6, <3>7
    <3>9. q.level => q.off = lead[q.id.rider]
      BY <3>5, <3>6, <3>7
    <3>10. NearTruth(q)
      BY <3>8, <3>9, Zenon DEF NearTruth
    <3>11. InTime(q)
      BY <1>1, <3>6, <3>7 DEF InTime
    <3> QED  BY <3>6, <3>10, <3>11
  <2> QED  BY <2>5, <2>6
<1> QED  BY <1>2, <1>3

LEMMA HearPosKeeps ==
    ASSUME PlacesInv, NEW r \in Pack, NEW age \in 0 .. PosMaxAge + 1, NEW late \in 0 .. PhoneMaxAge - 1,
           HearPos(r, age, late)
    PROVE  PlacesInv'
<1>0. PICK id : id = Pseudonym(r)
  OBVIOUS
<1>1. PICK q \in AfterPos(PeerNow(id), r, age, late) : table' = [table EXCEPT ![SlotFor(id)] = q]
  BY <1>0 DEF HearPos
<1>2. age \in Nat /\ PeerNow(id) \in Peers /\ PeerNow(id).id = id /\ NearTruth(PeerNow(id)) /\ InTime(PeerNow(id))
  BY <1>0, PeerNowIs, FriendPlacesAssumption
<1>3. q \in Peers /\ q.id = id /\ NearTruth(q) /\ InTime(q)
  BY <1>0, <1>2, AfterPosNear
<1>4. UNCHANGED <<lead, tick, fixes, fixTaken, booted>>
  BY DEF HearPos
<1>5. TableNear' /\ TableInTime'
  BY <1>1, <1>3, <1>4, PutKeeps DEF PlacesInv
<1> QED  BY <1>4, <1>5 DEF PlacesInv, FixesOrdered, Behind, Slack

LEMMA HearHelloKeeps ==
    ASSUME PlacesInv, NEW r \in Pack, HearHello(r)
    PROVE  PlacesInv'
<1>0. PICK id : id = Pseudonym(r)
  OBVIOUS
<1>1. PeerNow(id) \in Peers /\ PeerNow(id).id = id /\ NearTruth(PeerNow(id)) /\ InTime(PeerNow(id))
  BY <1>0, PeerNowIs
<1>2. UNCHANGED <<lead, tick, fixes, fixTaken, booted>> /\ table' = [table EXCEPT ![SlotFor(id)] = PeerNow(id)]
  BY <1>0 DEF HearHello
<1>3. TableNear' /\ TableInTime'
  BY <1>1, <1>2, PutKeeps DEF PlacesInv
<1> QED  BY <1>2, <1>3 DEF PlacesInv, FixesOrdered, Behind, Slack

LEMMA ForgetKeeps ==
    ASSUME PlacesInv, ForgetSilent
    PROVE  PlacesInv'
<1>1. \A i \in 1 .. PeerSlots : table'[i] \in Entries /\ (table'[i].used => table[i].used /\ table'[i] = table[i])
  BY DEF ForgetSilent, PlacesInv, TableNear, Entries, EmptySlot
<1>2. table' \in [1 .. PeerSlots -> Entries]
  BY <1>1 DEF ForgetSilent
<1>3. UNCHANGED <<lead, tick, fixes, fixTaken, booted>>
  BY DEF ForgetSilent
<1>4. \A i \in 1 .. PeerSlots : table'[i].used => NearTruth(table'[i]) /\ InTime(table'[i])
  BY <1>1 DEF PlacesInv, TableNear, TableInTime
<1>5. \A i \in 1 .. PeerSlots : (NearTruth(table[i])' <=> NearTruth(table'[i]))
                                 /\ (InTime(table[i])' <=> InTime(table'[i]))
  BY <1>3 DEF NearTruth, Reach, InTime, Pseudonym
<1>6. \A i, j \in 1 .. PeerSlots :
         table'[i].used /\ table'[j].used /\ table'[i].id = table'[j].id => i = j
  BY <1>1 DEF PlacesInv, TableNear
<1>7. TableNear' /\ TableInTime'
  BY <1>2, <1>4, <1>5, <1>6 DEF TableNear, TableInTime
<1> QED  BY <1>3, <1>7 DEF PlacesInv, FixesOrdered, Behind, Slack

LEMMA TableStays == ASSUME TableNear, UNCHANGED <<lead, table>> PROVE TableNear'
BY DEF TableNear, NearTruth, Reach

\* Time and a terminal that starts make no entry's last position any later.
LEMMA InTimeStays ==
    ASSUME PlacesInv, UNCHANGED table, tick' \in Nat, tick <= tick',
           booted' = booted \/ \E r \in Pack : booted' = [booted EXCEPT ![r] = tick]
    PROVE  TableInTime'
<1> SUFFICES ASSUME NEW i \in 1 .. PeerSlots, table[i].used
             PROVE  InTime(table[i])'
  BY DEF TableInTime
<1>1. table[i] \in Peers /\ InTime(table[i]) /\ tick \in Nat
  BY EntriesAre DEF PlacesInv, TableNear, TableInTime
<1>2. PICK p \in Peers : p = table[i] /\ p = table'[i]
  BY <1>1
<1>3. p.at \in Nat /\ p.at <= tick /\ p.id.rider \in Pack
  BY <1>1, <1>2 DEF InTime, Peers, Pseudonyms
<1>4. CASE booted' = booted
  BY <1>1, <1>2, <1>3, <1>4 DEF InTime, Pseudonym
<1>5. ASSUME NEW r \in Pack, booted' = [booted EXCEPT ![r] = tick]
      PROVE  InTime(table[i])'
  <2>1. booted'[r] = tick /\ \A o \in Pack : o # r => booted'[o] = booted[o]
    BY <1>5 DEF PlacesInv
  <2>2. CASE p.id.rider = r
    BY <1>1, <1>2, <1>3, <2>1, <2>2 DEF InTime
  <2>3. CASE p.id.rider # r
    BY <1>1, <1>2, <1>3, <2>1, <2>3 DEF InTime, Pseudonym
  <2> QED  BY <2>2, <2>3
<1> QED  BY <1>4, <1>5

LEMMA PlacesStep == ASSUME PlacesInv, [PlacesNext]_placeVars PROVE PlacesInv'
<1>0. tick \in Nat /\ PhoneMaxAge \in Nat \ {0}
  BY FriendPlacesAssumption DEF PlacesInv
<1>1. CASE TimePasses
  <2>1. tick' = tick + 1 /\ UNCHANGED <<lead, fixes, fixTaken, table, booted>>
    BY <1>1 DEF TimePasses
  <2>2. \A i \in 1 .. Len(fixes) : fixes[i].at \in Nat
    <3>1. \A i \in 1 .. Len(fixes) : fixes[i] \in Fixes
      BY ElementOfSeq DEF PlacesInv, FixesOrdered
    <3> QED  BY <3>1 DEF Fixes
  <2>3. \A i \in 1 .. Len(fixes) : fixes[i].at <= tick'
    BY <1>0, <2>1, <2>2 DEF PlacesInv, FixesOrdered
  <2>4. FixesOrdered'
    BY <2>1, <2>3 DEF PlacesInv, FixesOrdered, Behind, Slack
  <2>5. TableNear' /\ TableInTime'
    BY <1>0, <2>1, TableStays, InTimeStays DEF PlacesInv
  <2>6. \A r \in Pack : booted[r] <= tick + 1
    BY <1>0 DEF PlacesInv
  <2> QED  BY <1>0, <2>1, <2>4, <2>5, <2>6 DEF PlacesInv
<1>2. CASE PhoneFix
  <2>1. tick' = tick /\ fixTaken' = tick /\ UNCHANGED <<lead, table, booted>> /\ SetOwnPos(tick)
    BY <1>2 DEF PhoneFix
  <2>2. tick \in 0 .. tick /\ tick - tick <= PhoneMaxAge - 1
    BY <1>0
  <2>3. FixesOrdered'
    BY <2>1, <2>2, FixKeeps
  <2>4. TableNear' /\ TableInTime'
    BY <1>0, <2>1, TableStays, InTimeStays DEF PlacesInv
  <2> QED  BY <1>0, <2>1, <2>3, <2>4 DEF PlacesInv
<1>3. CASE PhoneRepeats
  <2>1. UNCHANGED <<lead, tick, fixTaken, table, booted>> /\ SetOwnPos(fixTaken)
    BY <1>3 DEF PhoneRepeats
  <2>2. fixTaken \in 0 .. tick /\ tick - fixTaken <= PhoneMaxAge - 1
    BY <1>0, <1>3 DEF PhoneRepeats, PlacesInv
  <2>3. FixesOrdered'
    BY <2>1, <2>2, FixKeeps
  <2>4. TableNear' /\ TableInTime'
    BY <1>0, <2>1, TableStays, InTimeStays DEF PlacesInv
  <2> QED  BY <2>1, <2>3, <2>4 DEF PlacesInv
<1>4. ASSUME NEW r \in Pack, FriendsChange(r)
      PROVE  PlacesInv'
  <2>1. UNCHANGED <<lead, tick, fixes, fixTaken, table, booted>>
    BY <1>4 DEF FriendsChange
  <2>2. TableNear' /\ TableInTime'
    BY <1>0, <2>1, TableStays, InTimeStays DEF PlacesInv
  <2> QED  BY <2>1, <2>2 DEF PlacesInv, FixesOrdered, Behind, Slack
<1>5. CASE UNCHANGED placeVars
  <2>1. UNCHANGED <<lead, tick, fixes, fixTaken, table, booted>>
    BY <1>5 DEF placeVars
  <2>2. TableNear' /\ TableInTime'
    BY <1>0, <2>1, TableStays, InTimeStays DEF PlacesInv
  <2> QED  BY <2>1, <2>2 DEF PlacesInv, FixesOrdered, Behind, Slack
<1>6. ASSUME NEW r \in Pack, Reboots(r)
      PROVE  PlacesInv'
  <2>1. UNCHANGED <<lead, tick, fixes, fixTaken, table>> /\ booted' = [booted EXCEPT ![r] = tick]
    BY <1>6 DEF Reboots
  <2>2. TableNear' /\ TableInTime'
    <3>1. TableNear'
      BY <2>1, TableStays DEF PlacesInv
    <3>2. tick' \in Nat /\ tick <= tick' /\ UNCHANGED table
      BY <1>0, <2>1
    <3>3. \E o \in Pack : booted' = [booted EXCEPT ![o] = tick]
      BY <1>6, <2>1, Zenon
    <3> QED  BY <3>1, <3>2, <3>3, InTimeStays, Zenon
  <2>3. booted' \in [Pack -> Nat] /\ \A o \in Pack : booted'[o] <= tick
    BY <1>0, <2>1 DEF PlacesInv
  <2> QED  BY <2>1, <2>2, <2>3 DEF PlacesInv, FixesOrdered, Behind, Slack
<1> QED  BY <1>1, <1>2, <1>3, <1>4, <1>5, <1>6, ForgetKeeps, HearHelloKeeps, HearPosKeeps DEF PlacesNext

LEMMA PlacesHold == ASSUME PlacesInv PROVE PlacesTrue
<1> SUFFICES ASSUME NEW i \in FriendsNear, NEW r, r = table[i].id.rider
             PROVE  /\ \A j \in FriendsNear : table[j].id = table[i].id => j = i
                    /\ table[i].id # Pseudonym(r) => Fresh(booted[r], ShowFor)
                    /\ Distance(table[i].off, lead[r]) <= Reach
                    /\ table[i].level => table[i].off = lead[r]
  BY DEF PlacesTrue, Reach
<1>1. i \in 1 .. PeerSlots /\ table[i].used /\ table[i].has /\ Fresh(table[i].at, ShowFor)
  BY DEF FriendsNear
<1>2. table[i] \in Peers /\ NearTruth(table[i]) /\ InTime(table[i]) /\ r \in Pack /\ tick \in Nat
  <2>1. table[i] \in Peers
    BY <1>1, EntriesAre DEF PlacesInv, TableNear
  <2>2. r \in Pack
    BY <2>1 DEF Peers, Pseudonyms
  <2> QED  BY <1>1, <2>1, <2>2 DEF PlacesInv, TableNear, TableInTime
<1>3. \A j \in FriendsNear : table[j].id = table[i].id => j = i
  BY <1>1 DEF FriendsNear, PlacesInv, TableNear
<1>8. table[i].id # Pseudonym(r) => Fresh(booted[r], ShowFor)
  <2>1. PICK a \in Nat, b \in Nat : a = table[i].at /\ b = booted[r] /\ b <= tick
    BY <1>2 DEF Peers, PlacesInv
  <2>2. table[i].id # Pseudonym(r) => a <= b
    BY <1>2, <2>1 DEF InTime
  <2>3. tick - a <= ShowFor /\ ShowFor \in Nat
    BY <1>1, <2>1, FriendPlacesAssumption DEF Fresh
  <2> QED  BY <1>2, <2>1, <2>2, <2>3 DEF Fresh
<1>4. PICK o \in Int, l \in Int : o = table[i].off /\ l = lead[r]
  BY <1>2 DEF Peers, PlacesInv
<1>5. 0 - Reach <= o - l /\ o - l <= Reach /\ (table[i].level => o = l)
  <2>1. /\ table[i].has => /\ 0 - Reach <= table[i].off - lead[r]
                           /\ table[i].off - lead[r] <= Reach
        /\ table[i].level => table[i].off = lead[r]
    BY <1>2 DEF NearTruth
  <2> QED  BY <1>1, <1>4, <2>1
<1>6. Reach \in Int
  BY FriendPlacesAssumption DEF Reach
<1>7. Distance(o, l) <= Reach
  BY <1>4, <1>5, <1>6 DEF Distance
<1> QED  BY <1>3, <1>4, <1>5, <1>7, <1>8

PlacesSpec == PlacesInit /\ [][PlacesNext]_placeVars
\* Theorem: a friend the compass shows is shown once by the pseudonym they go by, and by an earlier
\* one no longer than ShowFor after their terminal has started again; near enough to the truth, and
\* exactly where they are when every fix was sent as taken, for any pack, pace, ages, number of
\* slots and of starts (mesh_core.c).
THEOREM AlwaysPlacesTrue == PlacesSpec => []PlacesTrue
<1>1. PlacesInit => PlacesInv
  BY PlacesStart
<1>2. PlacesInv /\ [PlacesNext]_placeVars => PlacesInv'
  BY PlacesStep
<1>3. PlacesInv => PlacesTrue
  BY PlacesHold
<1> QED  BY <1>1, <1>2, <1>3, PTL DEF PlacesSpec
=============================================================================
