-------------------------- MODULE AppleFetchProofs --------------------------
(****************************************************************************)
(* Proofs about AppleFetch, for any number of slots,  *)
(* notifications, changes, versions and sessions.                           *)
(*                                                                          *)
(* What is tracked or announced is on the phone, or its withdrawal is       *)
(* behind it in the air, and an identity is of one category (TrackedInv):   *)
(* so is the call that rings (CallInv).  While nothing has gone wrong the   *)
(* one fetch under way is being asked for, answered, or of a notification   *)
(* withdrawn, and without one nobody waits for one (PipeInv).  So whatever  *)
(* is on the phone has been reported with its present text, or is announced, *)
(* waiting or being fetched (ReportInv).                                    *)
(****************************************************************************)
EXTENDS AppleFetch, SequenceTheorems, FiniteSetTheorems, WellFoundedInduction, NaturalsInduction, TLAPS

\* What the iPhone holds, announces and sends, and what ancs_core keeps of it.
Cat     == {"call", "other"}
Posted  == [cat : Cat, version : Nat]
Change  == [part : {"announced", "removed"}, uid : Uid, cat : Cat]
Part    == [part : {"head", "rest"}, uid : Uid, version : Nat]
Event   == Change \cup Part
Tracked == [uid : Uid, cat : Cat, asked : BOOLEAN]
Core    == [tracked : [1 .. Slots -> Tracked \cup {Free}], buf : Seq(Part), active : BOOLEAN, uid : Nat]

\* What the variables hold.
FetchTypeOK ==
    /\ link \in {"down", "up", "ready"}
    /\ iphone \in [Uid -> Posted \cup {Absent}]
    /\ posted \in 0 .. MaxUid /\ session \in Nat /\ since \in Nat
    /\ air \in Seq(Event) /\ answer \in Seq(Part) /\ cp \in Seq(Uid)
    /\ core \in Core
    /\ call \in [live : BOOLEAN, uid : Nat]
    /\ told \in [Uid -> Nat] /\ spoiled \in BOOLEAN /\ changes \in Nat

\* The withdrawal of u, of category cat, is on its way behind place i.
Leaving(seq, i, u, cat) == \E j \in DOMAIN seq : j > i /\ seq[j] = [part |-> "removed", uid |-> u, cat |-> cat]
Known(has, seq, i, u, cat) == (has[u] # Absent /\ has[u].cat = cat) \/ Leaving(seq, i, u, cat)

\* Nothing is left of an earlier link, and its numbers are not those of this one.
LinkInv ==
    /\ link # "ready" => /\ core = Fresh /\ air = <<>> /\ cp = <<>> /\ answer = <<>>
                         /\ told = Untold
    /\ since <= session
    /\ spoiled => told = Untold

\* Every identity in use is one this link has given out.
NumberedInv ==
    /\ \A u \in Uid : u > posted => iphone[u] = Absent /\ told[u] = 0
    /\ \A i \in DOMAIN air : air[i].uid <= posted
    /\ \A i \in DOMAIN answer : answer[i].uid <= posted
    /\ \A i \in DOMAIN core.buf : core.buf[i].uid <= posted
    /\ \A i \in DOMAIN cp : cp[i] <= posted
    /\ \A s \in Used(core) : core.tracked[s].uid <= posted

\* What is announced or tracked is on the phone, or its withdrawal is behind it;
\* what is withdrawn is off the phone, and was of one category.
TrackedInv ==
    /\ \A s \in Used(core) : Known(iphone, air, 0, core.tracked[s].uid, core.tracked[s].cat)
    /\ \A i \in DOMAIN air : air[i].part = "announced" => Known(iphone, air, i, air[i].uid, air[i].cat)
    /\ \A i \in DOMAIN air : air[i].part = "removed" => iphone[air[i].uid] = Absent
    /\ \A i, j \in DOMAIN air :
          air[i].part = "removed" /\ air[j].part = "removed" /\ air[i].uid = air[j].uid => air[i].cat = air[j].cat

\* The call that rings is known as a call.
CallInv ==
    (link = "ready" /\ call.live /\ since = session) =>
        call.uid \in Uid /\ Known(iphone, air, 0, call.uid, "call")

\* The answer about u, of version v: in the buffer, in the air, still to be sent.
PartPlaces(seq) == {i \in DOMAIN seq : seq[i].part \in {"head", "rest"}}
OnItsWay(buf, seq, rest_, u, v) ==
    LET head == [part |-> "head", uid |-> u, version |-> v]
        rest == [part |-> "rest", uid |-> u, version |-> v]
    IN  \/ buf = <<>> /\ rest_ = <<head, rest>> /\ PartPlaces(seq) = {}
        \/ buf = <<>> /\ rest_ = <<rest>> /\ \E i \in DOMAIN seq : PartPlaces(seq) = {i} /\ seq[i] = head
        \/ buf = <<>> /\ rest_ = <<>>
           /\ \E i, j \in DOMAIN seq : i < j /\ PartPlaces(seq) = {i, j} /\ seq[i] = head /\ seq[j] = rest
        \/ buf = <<head>> /\ rest_ = <<rest>> /\ PartPlaces(seq) = {}
        \/ buf = <<head>> /\ rest_ = <<>> /\ \E i \in DOMAIN seq : PartPlaces(seq) = {i} /\ seq[i] = rest
NoParts == core.buf = <<>> /\ answer = <<>> /\ PartPlaces(air) = {}

\* The request about u is the last on its way; those before it get no answer.
Asking(u) ==
    /\ NoParts /\ cp # <<>> /\ cp[Len(cp)] = u
    /\ \A i \in DOMAIN cp : i < Len(cp) => iphone[cp[i]] = Absent
\* It is answered with the text of version v, which is news and not too new.
Answering(u, v) ==
    /\ cp = <<>> /\ OnItsWay(core.buf, air, answer, u, v)
    /\ told[u] <= v
    /\ iphone[u] # Absent => v <= iphone[u].version
\* It had no answer: the withdrawal of u is on its way.
Unanswered(u) == NoParts /\ cp = <<>> /\ iphone[u] = Absent

\* One fetch is under way, or none and nobody waits for one.
PipeInv ==
    (link = "ready" /\ ~spoiled) =>
        IF core.active
        THEN /\ core.uid \in Uid
             /\ \E c \in Cat : Known(iphone, air, 0, core.uid, c)
             /\ Asking(core.uid) \/ Unanswered(core.uid) \/ \E v \in Nat : Answering(core.uid, v)
        ELSE NoParts /\ Pending(core) = {} /\ \A i \in DOMAIN cp : iphone[cp[i]] = Absent

\* u has been reported with its present text, or will be if nothing goes wrong.
Coming(u) ==
    \/ told[u] = iphone[u].version
    \/ \E i \in DOMAIN air : air[i].part = "announced" /\ air[i].uid = u
    \/ core.active /\ \E s \in Pending(core) : core.tracked[s].uid = u
    \/ core.active /\ core.uid = u /\ (Asking(u) \/ Answering(u, iphone[u].version))
ReportInv ==
    (link = "ready" /\ ~spoiled) =>
        \A u \in Present : told[u] <= iphone[u].version /\ Coming(u)

FetchInv == FetchTypeOK /\ LinkInv /\ NumberedInv /\ TrackedInv /\ CallInv /\ PipeInv /\ ReportInv

-----------------------------------------------------------------------------
\* Sequences, their ends and their elements.
LEMMA AppendedAt ==
    ASSUME NEW S, NEW s \in Seq(S), NEW e \in S
    PROVE  /\ Append(s, e) \in Seq(S)
           /\ Len(s) \in Nat /\ DOMAIN s = 1 .. Len(s)
           /\ Len(Append(s, e)) = Len(s) + 1 /\ DOMAIN Append(s, e) = 1 .. (Len(s) + 1)
           /\ \A i \in DOMAIN s : Append(s, e)[i] = s[i]
           /\ Append(s, e)[Len(s) + 1] = e
<1>1. Append(s, e) \in Seq(S) /\ Len(Append(s, e)) = Len(s) + 1
  BY AppendProperties
<1>2. DOMAIN Append(s, e) = 1 .. Len(Append(s, e))
  BY <1>1, LenProperties
<1> QED  BY <1>1, <1>2, AppendProperties, LenProperties

LEMMA TailAt ==
    ASSUME NEW S, NEW s \in Seq(S), s # <<>>
    PROVE  /\ Tail(s) \in Seq(S) /\ Head(s) \in S /\ Head(s) = s[1]
           /\ Len(s) \in Nat /\ Len(s) >= 1 /\ DOMAIN s = 1 .. Len(s)
           /\ Len(Tail(s)) = Len(s) - 1 /\ DOMAIN Tail(s) = 1 .. (Len(s) - 1)
           /\ \A i \in DOMAIN Tail(s) : Tail(s)[i] = s[i + 1]
<1>1. Tail(s) \in Seq(S) /\ Len(Tail(s)) = Len(s) - 1 /\ Head(s) \in S /\ Head(s) = s[1]
  BY HeadTailProperties
<1>2. DOMAIN Tail(s) = 1 .. Len(Tail(s)) /\ Len(s) \in Nat /\ DOMAIN s = 1 .. Len(s)
  BY <1>1, LenProperties
<1>3. Len(s) >= 1
  BY <1>2, EmptySeq
<1>4. \A i \in 1 .. (Len(s) - 1) : Tail(s)[i] = s[i + 1]
  BY HeadTailProperties
<1> QED  BY <1>1, <1>2, <1>3, <1>4

LEMMA Elements ==
    ASSUME NEW S, NEW s \in Seq(S)
    PROVE  Len(s) \in Nat /\ DOMAIN s = 1 .. Len(s) /\ \A i \in DOMAIN s : s[i] \in S
  BY LenProperties, ElementOfSeq

LEMMA NothingRead == <<>> \in Seq(Part) /\ <<>> \in Seq(Event) /\ <<>> \in Seq(Uid) /\ DOMAIN (<<>>) = {}
  BY EmptySeq

\* Something more in the air hides no withdrawal on its way.
LEMMA LeavingAppended ==
    ASSUME NEW seq \in Seq(Event), NEW e \in Event, NEW i, NEW u, NEW cat,
           Leaving(seq, i, u, cat)
    PROVE  Leaving(Append(seq, e), i, u, cat)
<1>1. PICK j \in DOMAIN seq : j > i /\ seq[j] = [part |-> "removed", uid |-> u, cat |-> cat]
  BY DEF Leaving
<1>2. j \in DOMAIN Append(seq, e) /\ Append(seq, e)[j] = seq[j]
  BY <1>1, AppendedAt
<1> QED  BY <1>1, <1>2 DEF Leaving

\* What has been heard is not on its way any more, and the rest is a place nearer.
LEMMA LeavingTail ==
    ASSUME NEW seq \in Seq(Event), seq # <<>>, NEW i \in Nat, NEW k \in Nat, NEW u, NEW cat,
           Leaving(seq, i, u, cat),
           \/ i = k + 1
           \/ i = 0 /\ k = 0 /\ ~(Head(seq).part = "removed" /\ Head(seq).uid = u)
    PROVE  Leaving(Tail(seq), k, u, cat)
<1>1. PICK j \in DOMAIN seq : j > i /\ seq[j] = [part |-> "removed", uid |-> u, cat |-> cat]
  BY DEF Leaving
<1>2. j # 1
  <2>1. seq[j].part = "removed" /\ seq[j].uid = u
    BY <1>1
  <2> QED  BY <1>1, <2>1, TailAt
<1>3. j - 1 \in DOMAIN Tail(seq) /\ Tail(seq)[j - 1] = seq[j] /\ j - 1 > k
  BY <1>1, <1>2, TailAt
<1> QED  BY <1>1, <1>3 DEF Leaving

LEMMA PlacesAppended ==
    ASSUME NEW seq \in Seq(Event), NEW e \in Event
    PROVE  PartPlaces(Append(seq, e)) =
               IF e.part \in {"head", "rest"} THEN PartPlaces(seq) \cup {Len(seq) + 1} ELSE PartPlaces(seq)
<1>1. Len(seq) + 1 \notin DOMAIN seq /\ DOMAIN Append(seq, e) = DOMAIN seq \cup {Len(seq) + 1}
  BY AppendedAt
<1> QED  BY <1>1, AppendedAt DEF PartPlaces

LEMMA PlacesTail ==
    ASSUME NEW seq \in Seq(Event), seq # <<>>
    PROVE  PartPlaces(Tail(seq)) = {i \in DOMAIN Tail(seq) : i + 1 \in PartPlaces(seq)}
  BY TailAt DEF PartPlaces

LEMMA OneOrTwo ==
    /\ \A x, y : <<x>> # <<>> /\ <<x, y>> # <<>> /\ <<x>> # <<x, y>>
    /\ \A x, y : Head(<<x>>) = x /\ Tail(<<x>>) = <<>> /\ Head(<<x, y>>) = x /\ Tail(<<x, y>>) = <<y>>
  OBVIOUS

\* An announcement moves no part of an answer.
LEMMA OnItsWayAppended ==
    ASSUME NEW seq \in Seq(Event), NEW e \in Change, NEW buf, NEW rest_, NEW u, NEW v,
           OnItsWay(buf, seq, rest_, u, v)
    PROVE  OnItsWay(buf, Append(seq, e), rest_, u, v)
<1>1. e \in Event /\ e.part \notin {"head", "rest"}
  BY DEF Event, Change
<1>2. PartPlaces(Append(seq, e)) = PartPlaces(seq)
  BY <1>1, PlacesAppended
<1>3. \A i \in DOMAIN seq : i \in DOMAIN Append(seq, e) /\ Append(seq, e)[i] = seq[i]
  BY <1>1, AppendedAt
<1> DEFINE more == Append(seq, e)
<1> HIDE DEF more
<1> QED  BY <1>2, <1>3 DEF OnItsWay, more

\* Nor does hearing one.
LEMMA OnItsWayTail ==
    ASSUME NEW seq \in Seq(Event), seq # <<>>, Head(seq).part \notin {"head", "rest"},
           NEW buf, NEW rest_, NEW u, NEW v,
           OnItsWay(buf, seq, rest_, u, v)
    PROVE  OnItsWay(buf, Tail(seq), rest_, u, v)
<1>1. 1 \notin PartPlaces(seq) /\ PartPlaces(seq) \subseteq DOMAIN seq
  BY TailAt DEF PartPlaces
<1>2. \A i \in DOMAIN seq : i # 1 => i - 1 \in DOMAIN Tail(seq) /\ Tail(seq)[i - 1] = seq[i]
  BY TailAt
<1>3. PartPlaces(seq) = {} => PartPlaces(Tail(seq)) = {}
  BY PlacesTail
<1>4. \A i \in DOMAIN seq : PartPlaces(seq) = {i} => PartPlaces(Tail(seq)) = {i - 1} /\ i # 1
  BY <1>1, PlacesTail, TailAt
<1>5. \A i, j \in DOMAIN seq :
        PartPlaces(seq) = {i, j} => PartPlaces(Tail(seq)) = {i - 1, j - 1} /\ i # 1 /\ j # 1 /\ (i < j => i - 1 < j - 1)
  <2> SUFFICES ASSUME NEW i \in DOMAIN seq, NEW j \in DOMAIN seq, PartPlaces(seq) = {i, j}
               PROVE  /\ PartPlaces(Tail(seq)) = {i - 1, j - 1} /\ i # 1 /\ j # 1
                      /\ (i < j => i - 1 < j - 1)
    OBVIOUS
  <2>1. i # 1 /\ j # 1 /\ i \in Nat /\ j \in Nat
    BY <1>1, TailAt
  <2>2. \A k \in DOMAIN Tail(seq) : k \in Nat /\ (k + 1 \in {i, j} <=> k \in {i - 1, j - 1})
    BY <2>1, TailAt
  <2>3. {k \in DOMAIN Tail(seq) : k + 1 \in {i, j}} = {i - 1, j - 1}
    BY <1>2, <2>1, <2>2
  <2> QED  BY <2>1, <2>3, PlacesTail
<1> DEFINE left == Tail(seq)
           head == [part |-> "head", uid |-> u, version |-> v]
           rest == [part |-> "rest", uid |-> u, version |-> v]
<1> HIDE DEF left
<1>6. CASE PartPlaces(seq) = {}
  BY <1>3, <1>6 DEF OnItsWay, left
<1>7. CASE \E i \in DOMAIN seq : PartPlaces(seq) = {i} /\ seq[i] = head /\ buf = <<>> /\ rest_ = <<rest>>
  <2>1. PICK i \in DOMAIN seq : PartPlaces(seq) = {i} /\ seq[i] = head /\ buf = <<>> /\ rest_ = <<rest>>
    BY <1>7
  <2>2. i - 1 \in DOMAIN left /\ PartPlaces(left) = {i - 1} /\ left[i - 1] = head
    BY <1>2, <1>4, <2>1 DEF left
  <2> QED  BY <2>1, <2>2 DEF OnItsWay, left
<1>8. CASE \E i \in DOMAIN seq : PartPlaces(seq) = {i} /\ seq[i] = rest /\ buf = <<head>> /\ rest_ = <<>>
  <2>1. PICK i \in DOMAIN seq : PartPlaces(seq) = {i} /\ seq[i] = rest /\ buf = <<head>> /\ rest_ = <<>>
    BY <1>8
  <2>2. i - 1 \in DOMAIN left /\ PartPlaces(left) = {i - 1} /\ left[i - 1] = rest
    BY <1>2, <1>4, <2>1 DEF left
  <2> QED  BY <2>1, <2>2 DEF OnItsWay, left
<1>9. CASE \E i, j \in DOMAIN seq : /\ i < j /\ PartPlaces(seq) = {i, j} /\ seq[i] = head /\ seq[j] = rest
                                    /\ buf = <<>> /\ rest_ = <<>>
  <2>1. PICK i \in DOMAIN seq, j \in DOMAIN seq : /\ i < j /\ PartPlaces(seq) = {i, j}
                                                  /\ seq[i] = head /\ seq[j] = rest
                                                  /\ buf = <<>> /\ rest_ = <<>>
    BY <1>9
  <2>2. /\ i - 1 \in DOMAIN left /\ j - 1 \in DOMAIN left /\ i - 1 < j - 1
        /\ PartPlaces(left) = {i - 1, j - 1} /\ left[i - 1] = head /\ left[j - 1] = rest
    BY <1>2, <1>5, <2>1 DEF left
  <2> QED  BY <2>1, <2>2 DEF OnItsWay, left
<1> QED  BY <1>6, <1>7, <1>8, <1>9 DEF OnItsWay

\* The phone sends the next part of the answer.
LEMMA OnItsWaySent ==
    ASSUME NEW seq \in Seq(Event), NEW rest_ \in Seq(Part), rest_ # <<>>, NEW buf, NEW u, NEW v,
           OnItsWay(buf, seq, rest_, u, v)
    PROVE  OnItsWay(buf, Append(seq, Head(rest_)), Tail(rest_), u, v)
<1> DEFINE head == [part |-> "head", uid |-> u, version |-> v]
           rest == [part |-> "rest", uid |-> u, version |-> v]
           more == Append(seq, Head(rest_))
           n == Len(seq) + 1
<1>1. Head(rest_) \in Event /\ Head(rest_).part \in {"head", "rest"}
  <2>1. Head(rest_) \in Part
    BY TailAt
  <2> QED  BY <2>1 DEF Event, Part
<1>2. /\ PartPlaces(more) = PartPlaces(seq) \cup {n}
      /\ n \in DOMAIN more /\ more[n] = Head(rest_)
      /\ \A i \in DOMAIN seq : i \in DOMAIN more /\ more[i] = seq[i] /\ i < n
  BY <1>1, PlacesAppended, AppendedAt
<1> HIDE DEF more, n
<1>3. CASE buf = <<>> /\ rest_ = <<head, rest>> /\ PartPlaces(seq) = {}
  <2>1. Head(rest_) = head /\ Tail(rest_) = <<rest>>
    BY <1>3, OneOrTwo
  <2> QED  BY <1>2, <1>3, <2>1 DEF OnItsWay, more
<1>4. CASE buf = <<>> /\ rest_ = <<rest>> /\ \E i \in DOMAIN seq : PartPlaces(seq) = {i} /\ seq[i] = head
  <2>1. Head(rest_) = rest /\ Tail(rest_) = <<>>
    BY <1>4, OneOrTwo
  <2> QED  BY <1>2, <1>4, <2>1 DEF OnItsWay, more
<1>5. CASE buf = <<head>> /\ rest_ = <<rest>> /\ PartPlaces(seq) = {}
  <2>1. Head(rest_) = rest /\ Tail(rest_) = <<>>
    BY <1>5, OneOrTwo
  <2> QED  BY <1>2, <1>5, <2>1 DEF OnItsWay, more
<1> QED  BY <1>3, <1>4, <1>5 DEF OnItsWay

-----------------------------------------------------------------------------
\* The least of some slots is one of them.
LEMMA LeastSlot ==
    ASSUME NEW S \in SUBSET (1 .. Slots), S # {}
    PROVE  Min(S) \in S
<1>1. PICK m \in S : \A k \in S : <<k, m>> \notin OpToRel(<, Nat)
  <2>1. S \subseteq Nat
    OBVIOUS
  <2> QED  BY <2>1, WFMin, NatLessThanWellFounded, Zenon
<1>2. \A k \in S : m <= k
  <2> SUFFICES ASSUME NEW k \in S
               PROVE  m <= k
    OBVIOUS
  <2>1. k \in Nat /\ m \in Nat
    OBVIOUS
  <2>2. ~(k < m)
    BY <1>1, <2>1, Zenon DEF OpToRel
  <2> QED  BY <2>1, <2>2
<1> QED  BY <1>1, <1>2 DEF Min

\* What claim_tracked and an announcement make of the state.
LEMMA SlotForProperties ==
    ASSUME NEW c \in Core, NEW u \in Uid
    PROVE  /\ SlotFor(c, u) \in 1 .. Slots
           /\ ~Evicts(c, u) => (c.tracked[SlotFor(c, u)] = Free \/ c.tracked[SlotFor(c, u)].uid = u)
<1>1. \A S \in SUBSET (1 .. Slots) : S # {} => Min(S) \in S
  BY LeastSlot
<1>2. Used(c) \subseteq 1 .. Slots /\ Holding(c, u) \subseteq Used(c)
  BY DEF Used, Holding
<1>3. CASE Holding(c, u) # {}
  <2>1. SlotFor(c, u) \in Holding(c, u)
    BY <1>1, <1>2, <1>3 DEF SlotFor
  <2> QED  BY <1>2, <2>1 DEF Holding
<1>4. CASE Holding(c, u) = {} /\ (1 .. Slots) \ Used(c) # {}
  <2>1. SlotFor(c, u) \in (1 .. Slots) \ Used(c)
    BY <1>1, <1>4 DEF SlotFor
  <2> QED  BY <2>1 DEF Used
<1>5. CASE Holding(c, u) = {} /\ (1 .. Slots) \ Used(c) = {}
  <2>1. SlotFor(c, u) = 1 /\ Evicts(c, u)
    BY <1>2, <1>5 DEF SlotFor, Evicts
  <2> QED  BY <2>1, SlotsAssumption
<1> QED  BY <1>3, <1>4, <1>5

\* What a request makes of the state.
LEMMA RequestFacts ==
    ASSUME NEW c \in Core, NEW u \in Uid
    PROVE  LET r == Request(c, u) IN
           /\ r.core \in Core /\ r.core.tracked = c.tracked
           /\ r.core.active /\ r.core.uid = u /\ r.core.buf = <<>>
           /\ r.asks = {u}
<1> DEFINE d == [c EXCEPT !.buf = <<>>, !.active = TRUE, !.uid = u]
<1>1. Request(c, u) = [core |-> d, asks |-> {u}]
  BY DEF Request
<1>2. u \in Nat
  BY AppleAssumption DEF Uid
<1>3. d \in Core
  BY <1>2, NothingRead DEF Core
<1>4. d.tracked = c.tracked /\ d.active /\ d.uid = u /\ d.buf = <<>>
  BY DEF Core
<1> HIDE DEF d
<1> QED  BY <1>1, <1>3, <1>4

LEMMA AnnouncedFacts ==
    ASSUME NEW c \in Core, NEW u \in Uid, NEW cat \in Cat
    PROVE  LET r == Announced(c, u, cat)
               s == SlotFor(c, u)
           IN /\ r.core \in Core
              /\ \A t \in 1 .. Slots : t # s => r.core.tracked[t] = c.tracked[t]
              /\ r.core.tracked[s].uid = u /\ r.core.tracked[s].cat = cat
              /\ r.core.tracked[s] \in Tracked
              /\ c.active /\ c.uid # u => ~r.core.tracked[s].asked
              /\ c.active => r.asks = {} /\ r.core.active /\ r.core.uid = c.uid /\ r.core.buf = c.buf
              /\ ~c.active => r.asks = {u} /\ r.core.active /\ r.core.uid = u /\ r.core.buf = <<>>
<1> DEFINE s == SlotFor(c, u)
           asking == [c EXCEPT !.tracked[s] = [uid |-> u, cat |-> cat, asked |-> TRUE]]
           waiting == [c EXCEPT !.tracked[s] = [uid |-> u, cat |-> cat, asked |-> FALSE]]
<1>1. s \in 1 .. Slots
  BY SlotForProperties
<1>2. /\ asking \in Core
      /\ \A t \in 1 .. Slots : t # s => asking.tracked[t] = c.tracked[t]
      /\ asking.tracked[s] = [uid |-> u, cat |-> cat, asked |-> TRUE]
      /\ [uid |-> u, cat |-> cat, asked |-> TRUE] \in Tracked
      /\ (c.active => asking.active) /\ asking.uid = c.uid /\ asking.buf = c.buf
  BY <1>1 DEF Core, Tracked
<1>3. /\ waiting \in Core
      /\ \A t \in 1 .. Slots : t # s => waiting.tracked[t] = c.tracked[t]
      /\ waiting.tracked[s] = [uid |-> u, cat |-> cat, asked |-> FALSE]
      /\ [uid |-> u, cat |-> cat, asked |-> FALSE] \in Tracked
      /\ (c.active => waiting.active) /\ waiting.uid = c.uid /\ waiting.buf = c.buf
  BY <1>1 DEF Core, Tracked
<1>4. CASE c.active /\ c.uid = u
  <2>1. (c.uid = u) = TRUE
    BY <1>4
  <2>2. Announced(c, u, cat) = [core |-> asking, asks |-> {}]
    BY <1>4, <2>1 DEF Announced
  <2> HIDE DEF asking, waiting, s
  <2> QED  BY <1>2, <1>4, <2>2 DEF s
<1>5. CASE c.active /\ c.uid # u
  <2>1. (c.uid = u) = FALSE
    BY <1>5
  <2>2. Announced(c, u, cat) = [core |-> waiting, asks |-> {}]
    BY <1>5, <2>1 DEF Announced
  <2> HIDE DEF asking, waiting, s
  <2> QED  BY <1>3, <1>5, <2>2 DEF s
<1>6. CASE ~c.active
  <2>1. Announced(c, u, cat) = Request(asking, u)
    BY <1>6 DEF Announced
  <2> HIDE DEF asking, waiting, s
  <2> QED  BY <1>2, <1>6, <2>1, RequestFacts DEF s
<1> QED  BY <1>4, <1>5, <1>6

\* What the end of a fetch makes of it: nobody waits, or the first one is asked for.
LEMMA EndedFacts ==
    ASSUME NEW c \in Core
    PROVE  LET r == Ended(c) IN
           /\ r.core \in Core /\ r.core.buf = <<>>
           /\ \/ /\ Pending(c) = {} /\ r.asks = {}
                 /\ r.core.tracked = c.tracked /\ ~r.core.active
              \/ \E s \in Pending(c) :
                    /\ r.core.tracked = [c.tracked EXCEPT ![s].asked = TRUE]
                    /\ r.core.active /\ r.core.uid = c.tracked[s].uid /\ r.asks = {c.tracked[s].uid}
<1> DEFINE d == [c EXCEPT !.buf = <<>>, !.active = FALSE, !.uid = 0]
<1>1. d \in Core /\ d.tracked = c.tracked /\ ~d.active /\ d.buf = <<>>
  BY NothingRead DEF Core
<1>2. Pending(d) = Pending(c) /\ Pending(c) \subseteq 1 .. Slots
  BY <1>1 DEF Pending, Used
<1>3. Ended(c) = PumpPending(d)
  BY DEF Ended
<1> HIDE DEF d
<1>4. CASE Pending(c) = {}
  BY <1>1, <1>2, <1>3, <1>4 DEF PumpPending
<1>5. CASE Pending(c) # {}
  <2> DEFINE s == Min(Pending(d))
             e == [d EXCEPT !.tracked[s].asked = TRUE]
  <2>1. s \in Pending(c) /\ s \in 1 .. Slots
    BY <1>2, <1>5, LeastSlot
  <2>2. c.tracked[s] \in Tracked
    BY <1>1, <2>1 DEF Core, Pending, Used
  <2>3. Ended(c) = Request(e, d.tracked[s].uid)
    BY <1>1, <1>2, <1>3, <1>5 DEF PumpPending
  <2> HIDE DEF s
  <2>4. e \in Core /\ e.tracked = [c.tracked EXCEPT ![s].asked = TRUE]
    BY <1>1, <2>1, <2>2 DEF Core, Tracked
  <2> HIDE DEF e
  <2>5. /\ Request(e, d.tracked[s].uid).core \in Core
        /\ Request(e, d.tracked[s].uid).core.tracked = e.tracked
        /\ Request(e, d.tracked[s].uid).core.active
        /\ Request(e, d.tracked[s].uid).core.uid = d.tracked[s].uid
        /\ Request(e, d.tracked[s].uid).core.buf = <<>>
        /\ Request(e, d.tracked[s].uid).asks = {d.tracked[s].uid}
    <3>1. d.tracked[s].uid \in Uid
      BY <1>1, <2>2 DEF Tracked
    <3> QED  BY <2>4, <3>1, RequestFacts
  <2> QED  BY <1>1, <2>1, <2>3, <2>4, <2>5
<1> QED  BY <1>4, <1>5

\* What a withdrawal makes of it.
LEMMA WithdrawnFacts ==
    ASSUME NEW c \in Core, NEW u \in Uid
    PROVE  LET r == Withdrawn(c, u) IN
           /\ r \in Core
           /\ \A s \in 1 .. Slots :
                 r.tracked[s] = IF c.tracked[s] # Free /\ c.tracked[s].uid = u THEN Free ELSE c.tracked[s]
           /\ c.active /\ c.uid = u => ~r.active /\ r.buf = <<>>
           /\ ~(c.active /\ c.uid = u) => r.active = c.active /\ r.uid = c.uid /\ r.buf = c.buf
<1> DEFINE gone == [c EXCEPT !.tracked = [s \in 1 .. Slots |-> IF s \in Holding(c, u) THEN Free ELSE @[s]]]
<1>1. /\ gone \in Core
      /\ \A s \in 1 .. Slots :
            gone.tracked[s] = IF c.tracked[s] # Free /\ c.tracked[s].uid = u THEN Free ELSE c.tracked[s]
      /\ gone.active = c.active /\ gone.uid = c.uid /\ gone.buf = c.buf
  BY DEF Core, Holding, Used
<1>2. Withdrawn(c, u) = IF c.active /\ c.uid = u THEN [gone EXCEPT !.active = FALSE, !.uid = 0, !.buf = <<>>] ELSE gone
  BY DEF Withdrawn
<1> HIDE DEF gone
<1>3. CASE c.active /\ c.uid = u
  <2>1. Withdrawn(c, u) = [gone EXCEPT !.active = FALSE, !.uid = 0, !.buf = <<>>]
    BY <1>2, <1>3
  <2>2. [gone EXCEPT !.active = FALSE, !.uid = 0, !.buf = <<>>] \in Core
    BY <1>1, NothingRead DEF Core
  <2>3. /\ Withdrawn(c, u).tracked = gone.tracked
        /\ ~Withdrawn(c, u).active /\ Withdrawn(c, u).buf = <<>>
    BY <1>1, <2>1 DEF Core
  <2> QED  BY <1>1, <1>3, <2>1, <2>2, <2>3
<1>4. CASE ~(c.active /\ c.uid = u)
  BY <1>1, <1>2, <1>4
<1> QED  BY <1>3, <1>4

LEMMA CategoryFacts ==
    ASSUME NEW c \in Core, NEW u, NEW default
    PROVE  \/ Holding(c, u) = {} /\ Category(c, u, default) = default
           \/ \E s \in Used(c) : c.tracked[s].uid = u /\ Category(c, u, default) = c.tracked[s].cat
  BY DEF Category, Holding

\* A write to the Control Point, or its failure.
LEMMA WriteFacts ==
    ASSUME NEW asks, Write(asks)
    PROVE  /\ asks = {} => cp' = cp /\ changes' = changes
           /\ \A u : asks = {u} =>
                 \/ cp' = Append(cp, u) /\ changes' = changes
                 \/ cp' = cp /\ changes' = changes + 1
<1>1. \A u : asks = {u} => (CHOOSE w \in asks : TRUE) = u /\ asks # {}
  OBVIOUS
<1> QED  BY <1>1 DEF Write

-----------------------------------------------------------------------------
\* Nothing is known before the first connection.
LEMMA FetchStarts == FetchInit => FetchInv
<1> SUFFICES ASSUME FetchInit
             PROVE  FetchInv
  OBVIOUS
<1>1. link = "down" /\ air = <<>> /\ cp = <<>> /\ answer = <<>> /\ core = Fresh
  BY DEF FetchInit
<1>2. core \in Core /\ Used(core) = {} /\ core.buf = <<>>
  BY <1>1, NothingRead DEF Core, Fresh, Used
<1>3. FetchTypeOK
  <2>1. iphone = [u \in Uid |-> Absent] /\ told = [u \in Uid |-> 0]
    BY DEF FetchInit, Untold
  <2>2. call \in [live : BOOLEAN, uid : Nat]
    BY DEF FetchInit, NoCall
  <2>3. posted = 0 /\ session = 0 /\ since = 0 /\ changes = 0 /\ spoiled = FALSE
    BY DEF FetchInit
  <2>4. 0 \in 0 .. MaxUid
    BY AppleAssumption
  <2>5. iphone \in [Uid -> Posted \cup {Absent}] /\ told \in [Uid -> Nat]
    BY <2>1
  <2> QED  BY <1>1, <1>2, <2>2, <2>3, <2>4, <2>5, NothingRead DEF FetchTypeOK
<1>4. LinkInv
  BY DEF LinkInv, FetchInit
<1>5. NumberedInv
  BY <1>1, <1>2, NothingRead DEF FetchInit, NumberedInv, Untold
<1>6. TrackedInv
  BY <1>1, <1>2, NothingRead DEF TrackedInv
<1> QED  BY <1>1, <1>3, <1>4, <1>5, <1>6 DEF FetchInv, CallInv, PipeInv, ReportInv

LEMMA FreshTracksNone == Used(Fresh) = {}
  BY DEF Used, Fresh

\* Whoever is known is of a number given out.
LEMMA KnownPosted ==
    ASSUME FetchTypeOK, NumberedInv, NEW u \in Uid, NEW cat, NEW i, Known(iphone, air, i, u, cat)
    PROVE  u <= posted
<1>1. CASE iphone[u] # Absent
  BY <1>1 DEF NumberedInv, FetchTypeOK, Uid
<1>2. CASE Leaving(air, i, u, cat)
  <2>1. PICK j \in DOMAIN air : air[j] = [part |-> "removed", uid |-> u, cat |-> cat]
    BY <1>2 DEF Leaving
  <2>2. air[j].uid = u
    BY <2>1
  <2> QED  BY <2>1, <2>2 DEF NumberedInv
<1> QED  BY <1>1, <1>2 DEF Known

\* A notification posted, changed or withdrawn, and announced if that is asked for.
LEMMA PhoneChanges ==
    ASSUME FetchInv, FetchTypeOK', NumberedInv', NEW e \in Change,
           air' = IF link = "ready" THEN Append(air, e) ELSE air,
           UNCHANGED <<link, session, answer, cp, core, call, since, told, spoiled>>,
           \A u \in Uid : u # e.uid => iphone'[u] = iphone[u],
           e.part = "announced" =>
             /\ iphone'[e.uid] # Absent /\ iphone'[e.uid].cat = e.cat
             /\ told[e.uid] <= iphone'[e.uid].version
             /\ \/ iphone[e.uid] = Absent /\ e.uid > posted
                \/ /\ iphone[e.uid] # Absent /\ iphone[e.uid].cat = e.cat
                   /\ iphone[e.uid].version <= iphone'[e.uid].version,
           e.part = "removed" => iphone[e.uid] # Absent /\ iphone[e.uid].cat = e.cat /\ iphone'[e.uid] = Absent
    PROVE  FetchInv'
<1> USE DEF Event
<1>1. /\ e \in Event /\ e.uid \in Uid /\ e.cat \in Cat /\ e.part \in {"announced", "removed"}
      /\ e = [part |-> e.part, uid |-> e.uid, cat |-> e.cat]
  BY DEF Change
<1>2. /\ FetchTypeOK /\ LinkInv /\ NumberedInv /\ TrackedInv /\ CallInv /\ PipeInv /\ ReportInv
      /\ air \in Seq(Event)
  BY DEF FetchInv, FetchTypeOK
<1>3. LinkInv'
  BY <1>2 DEF LinkInv, Fresh, Untold
<1>4. ASSUME link # "ready"
      PROVE  TrackedInv' /\ CallInv' /\ PipeInv' /\ ReportInv'
  <2>1. link' # "ready" /\ air' = <<>> /\ Used(core') = {}
    BY <1>2, <1>4, FreshTracksNone DEF LinkInv
  <2> QED  BY <2>1, NothingRead DEF TrackedInv, CallInv, PipeInv, ReportInv
<1>5. CASE link = "ready"
  <2>1. /\ air' = Append(air, e) /\ Len(air) \in Nat /\ DOMAIN air = 1 .. Len(air)
        /\ DOMAIN air' = 1 .. (Len(air) + 1) /\ air'[Len(air) + 1] = e
        /\ \A i \in DOMAIN air : air'[i] = air[i] /\ air[i] \in Event
    BY <1>1, <1>2, <1>5, AppendedAt, Elements
  <2>2. ASSUME NEW i \in 0 .. Len(air), NEW u \in Uid, NEW cat, Known(iphone, air, i, u, cat)
        PROVE  Known(iphone', air', i, u, cat)
    <3>1. CASE Leaving(air, i, u, cat)
      <4>1. Leaving(air', i, u, cat)
        BY <1>1, <1>2, <2>1, <3>1, LeavingAppended
      <4> QED  BY <4>1 DEF Known
    <3>2. CASE iphone[u] # Absent /\ iphone[u].cat = cat /\ ~(u = e.uid /\ e.part = "removed")
      BY <1>1, <1>2, <3>2 DEF Known, NumberedInv
    <3>3. CASE iphone[u] # Absent /\ iphone[u].cat = cat /\ u = e.uid /\ e.part = "removed"
      <4>1. e = [part |-> "removed", uid |-> u, cat |-> cat]
        BY <1>1, <3>3
      <4>2. Len(air) + 1 \in DOMAIN air' /\ Len(air) + 1 > i
        BY <2>1
      <4> QED  BY <2>1, <4>1, <4>2 DEF Known, Leaving
    <3> QED  BY <2>2, <3>1, <3>2, <3>3 DEF Known
  <2>3. TrackedInv'
    <3>1. ASSUME NEW s \in Used(core')
          PROVE  Known(iphone', air', 0, core'.tracked[s].uid, core'.tracked[s].cat)
      <4>1. s \in Used(core) /\ core.tracked[s] \in Tracked /\ core' = core
        BY <1>2, <3>1 DEF Used, FetchTypeOK, Core
      <4>2. core.tracked[s].uid \in Uid /\ 0 \in 0 .. Len(air)
        BY <2>1, <4>1 DEF Tracked
      <4> QED  BY <1>2, <2>2, <4>1, <4>2 DEF TrackedInv
    <3>2. ASSUME NEW i \in DOMAIN air', air'[i].part = "announced"
          PROVE  Known(iphone', air', i, air'[i].uid, air'[i].cat)
      <4>1. CASE i = Len(air) + 1
        BY <2>1, <3>2, <4>1 DEF Known
      <4>2. CASE i # Len(air) + 1
        <5>1. i \in DOMAIN air /\ i \in 0 .. Len(air) /\ air'[i] = air[i] /\ air[i].part = "announced"
          BY <2>1, <3>2, <4>2
        <5>2. air[i].uid \in Uid
          BY <2>1, <5>1 DEF Change, Part
        <5>3. Known(iphone, air, i, air[i].uid, air[i].cat)
          BY <1>2, <5>1 DEF TrackedInv
        <5> QED  BY <2>2, <5>1, <5>2, <5>3
      <4> QED  BY <4>1, <4>2
    <3>3. ASSUME NEW i \in DOMAIN air, air[i].part = "removed"
          PROVE  /\ iphone[air[i].uid] = Absent /\ air[i].uid \in Uid
                 /\ air[i].uid <= posted
                 /\ (e.uid = air[i].uid => e.part = "announced" /\ e.uid > posted)
      BY <1>1, <1>2, <2>1, <3>3 DEF TrackedInv, NumberedInv, Change, Part
    <3>4. ASSUME NEW i \in DOMAIN air', air'[i].part = "removed"
          PROVE  iphone'[air'[i].uid] = Absent
      <4>1. CASE i = Len(air) + 1
        BY <2>1, <3>4, <4>1
      <4>2. CASE i # Len(air) + 1
        <5>1. i \in DOMAIN air /\ air'[i] = air[i]
          BY <2>1, <4>2
        <5>2. iphone[air[i].uid] = Absent /\ air[i].uid \in Uid /\ air[i].uid # e.uid
          BY <1>1, <1>2, <3>3, <3>4, <5>1 DEF FetchTypeOK, Uid
        <5> QED  BY <5>1, <5>2
      <4> QED  BY <4>1, <4>2
    <3>5. ASSUME NEW i \in DOMAIN air', NEW j \in DOMAIN air', air'[i].part = "removed",
                 air'[j].part = "removed", air'[i].uid = air'[j].uid
          PROVE  air'[i].cat = air'[j].cat
      <4>1. CASE i # Len(air) + 1 /\ j # Len(air) + 1
        <5>1. i \in DOMAIN air /\ j \in DOMAIN air /\ air'[i] = air[i] /\ air'[j] = air[j]
          BY <2>1, <4>1
        <5> QED  BY <1>2, <3>5, <5>1 DEF TrackedInv
      <4>2. CASE i # Len(air) + 1 /\ j = Len(air) + 1
        BY <2>1, <3>3, <3>5, <4>2
      <4>3. CASE i = Len(air) + 1 /\ j # Len(air) + 1
        BY <2>1, <3>3, <3>5, <4>3
      <4> QED  BY <4>1, <4>2, <4>3
    <3> QED  BY <3>1, <3>2, <3>4, <3>5 DEF TrackedInv
  <2>4. CallInv'
    <3>1. 0 \in 0 .. Len(air)
      BY <2>1
    <3> QED  BY <1>2, <2>2, <3>1 DEF CallInv
  <2>5. PartPlaces(air') = PartPlaces(air) /\ (NoParts => NoParts')
    BY <1>1, <1>2, <2>1, PlacesAppended DEF NoParts
  <2>6. \A u \in Uid : u <= posted /\ iphone[u] = Absent => iphone'[u] = Absent
    BY <1>1, <1>2 DEF Uid, FetchTypeOK
  <2>7. ASSUME NEW u \in Uid, Asking(u)
        PROVE  Asking(u)'
    <3>1. \A i \in DOMAIN cp : cp[i] \in Uid /\ cp[i] <= posted
      BY <1>2, Elements DEF FetchTypeOK, NumberedInv
    <3> QED  BY <2>5, <2>6, <2>7, <3>1 DEF Asking
  <2>8. ASSUME NEW u \in Uid, u <= posted, NEW v \in Nat, Answering(u, v)
        PROVE  cp' = <<>> /\ OnItsWay(core'.buf, air', answer', u, v) /\ told'[u] <= v
               /\ (iphone'[u] # Absent => v <= iphone'[u].version)
    <3>1. OnItsWay(core.buf, air', answer, u, v)
      BY <1>2, <2>1, <2>8, OnItsWayAppended DEF Answering
    <3>2. iphone'[u] # Absent => v <= iphone'[u].version
      <4>1. iphone'[u] # Absent => iphone[u] # Absent /\ iphone[u].version <= iphone'[u].version
                                  /\ iphone[u].version \in Nat /\ iphone'[u].version \in Nat
        <5>1. \A w \in Uid : iphone[w] # Absent => iphone[w].version \in Nat
          BY <1>2 DEF FetchTypeOK, Posted
        <5>2. CASE u = e.uid
          BY <1>1, <1>2, <2>6, <2>8, <5>1, <5>2 DEF FetchTypeOK, Posted
        <5>3. CASE u # e.uid
          <6>1. iphone'[u] = iphone[u]
            BY <5>3
          <6> QED  BY <5>1, <6>1
        <5> QED  BY <5>2, <5>3
      <4> QED  BY <2>8, <4>1 DEF Answering
    <3> QED  BY <2>8, <3>1, <3>2 DEF Answering
  <2>9. PipeInv'
    <3> SUFFICES ASSUME ~spoiled
                 PROVE  IF core.active
                        THEN /\ core.uid \in Uid
                             /\ (\E c \in Cat : Known(iphone, air, 0, core.uid, c))'
                             /\ \/ Asking(core.uid)' \/ Unanswered(core.uid)'
                                \/ \E v \in Nat : Answering(core.uid, v)'
                        ELSE NoParts' /\ Pending(core) = {} /\ \A i \in DOMAIN cp : iphone'[cp[i]] = Absent
      BY DEF PipeInv
    <3>1. CASE core.active
      <4>1. PICK c \in Cat : Known(iphone, air, 0, core.uid, c) /\ core.uid \in Uid
        BY <1>2, <1>5, <3>1 DEF PipeInv
      <4>2. core.uid <= posted /\ (Known(iphone, air, 0, core.uid, c))'
        BY <1>2, <2>1, <2>2, <4>1, KnownPosted
      <4>3. CASE Asking(core.uid)
        BY <2>7, <3>1, <4>1, <4>2, <4>3
      <4>4. CASE Unanswered(core.uid)
        <5>1. Unanswered(core.uid)'
          BY <2>5, <2>6, <4>1, <4>2, <4>4 DEF Unanswered
        <5> QED  BY <3>1, <4>1, <4>2, <5>1
      <4>5. CASE \E v \in Nat : Answering(core.uid, v)
        <5>1. PICK v \in Nat : Answering(core.uid, v)
          BY <4>5
        <5>2. Answering(core.uid, v)'
          BY <2>8, <4>1, <4>2, <5>1 DEF Answering
        <5> QED  BY <3>1, <4>1, <4>2, <5>2
      <4> QED  BY <1>2, <1>5, <3>1, <4>3, <4>4, <4>5 DEF PipeInv
    <3>2. CASE ~core.active
      <4>1. \A i \in DOMAIN cp : cp[i] \in Uid /\ cp[i] <= posted
        BY <1>2, Elements DEF FetchTypeOK, NumberedInv
      <4> QED  BY <1>2, <1>5, <2>5, <2>6, <3>2, <4>1 DEF PipeInv
    <3> QED  BY <3>1, <3>2
  <2>10. ReportInv'
    <3> SUFFICES ASSUME ~spoiled, NEW u \in Uid, iphone'[u] # Absent
                 PROVE  told[u] <= iphone'[u].version /\ Coming(u)'
      BY DEF ReportInv, Present
    <3>1. CASE u = e.uid
      <4>1. Len(air) + 1 \in DOMAIN air' /\ e.part = "announced" /\ told[u] <= iphone'[u].version
        BY <1>1, <2>1, <3>1
      <4> QED  BY <2>1, <3>1, <4>1 DEF Coming
    <3>2. CASE u # e.uid
      <4>1. u \in Present /\ iphone'[u] = iphone[u] /\ u <= posted /\ iphone[u].version \in Nat
        <5>1. iphone'[u] = iphone[u]
          BY <3>2
        <5>2. iphone[u] # Absent /\ iphone[u] \in Posted
          BY <1>2, <5>1 DEF FetchTypeOK
        <5>3. ~(u > posted)
          BY <1>2, <5>2 DEF NumberedInv
        <5> QED  BY <1>2, <5>1, <5>2, <5>3 DEF Present, FetchTypeOK, Uid, Posted
      <4>2. told[u] <= iphone'[u].version /\ Coming(u)
        BY <1>2, <1>5, <4>1 DEF ReportInv
      <4>3. CASE \E i \in DOMAIN air : air[i].part = "announced" /\ air[i].uid = u
        <5>1. \E i \in DOMAIN air' : air'[i].part = "announced" /\ air'[i].uid = u
          BY <2>1, <4>3
        <5> QED  BY <4>2, <5>1 DEF Coming
      <4>4. CASE core.active /\ core.uid = u /\ (Asking(u) \/ Answering(u, iphone[u].version))
        <5>1. Asking(u)' \/ Answering(u, iphone[u].version)'
          BY <2>7, <2>8, <4>1, <4>4 DEF Answering
        <5> QED  BY <4>1, <4>2, <4>4, <5>1 DEF Coming
      <4>5. CASE told[u] = iphone[u].version \/ (core.active /\ \E s \in Pending(core) : core.tracked[s].uid = u)
        BY <4>1, <4>2, <4>5 DEF Coming
      <4> QED  BY <4>2, <4>3, <4>4, <4>5 DEF Coming
    <3> QED  BY <3>1, <3>2
  <2> QED  BY <1>2, <1>3, <2>3, <2>4, <2>9, <2>10 DEF FetchInv
<1> QED  BY <1>2, <1>3, <1>4, <1>5 DEF FetchInv

\* Every number in the air, in the buffer or on its way to the phone is one given out.
LEMMA StillNumbered ==
    ASSUME FetchTypeOK, NumberedInv, NEW e \in Event, posted' >= posted, posted' \in Nat, e.uid <= posted',
           air' = air \/ air' = Append(air, e),
           UNCHANGED <<answer, cp, core, told>>,
           \A u \in Uid : u > posted' => iphone'[u] = Absent
    PROVE  NumberedInv'
<1>1. /\ posted \in Nat /\ air \in Seq(Event) /\ answer \in Seq(Part) /\ cp \in Seq(Uid) /\ core.buf \in Seq(Part)
      /\ \A s \in Used(core) : core.tracked[s] \in Tracked
  <2>1. posted \in Nat /\ core \in Core
    BY AppleAssumption DEF FetchTypeOK
  <2>2. core.buf \in Seq(Part) /\ \A s \in Used(core) : core.tracked[s] \in Tracked
    BY <2>1 DEF Core, Used
  <2> QED  BY <2>1, <2>2 DEF FetchTypeOK
<1>2. \A u \in Uid : u > posted' => u > posted
  BY <1>1 DEF Uid
<1>3. \A i \in DOMAIN air' : air'[i].uid <= posted'
  <2>1. \A i \in DOMAIN air : air[i].uid \in Nat /\ air[i].uid <= posted
    BY <1>1, Elements DEF NumberedInv, Event, Change, Part, Uid
  <2>2. \A i \in DOMAIN air : air[i].uid <= posted'
    BY <1>1, <2>1
  <2>3. CASE air' = Append(air, e)
    <3>1. \A i \in DOMAIN air' : (i = Len(air) + 1 /\ air'[i] = e) \/ (i \in DOMAIN air /\ air'[i] = air[i])
      BY <1>1, <2>3, AppendedAt
    <3> QED  BY <2>2, <3>1
  <2> QED  BY <2>2, <2>3
<1>4. /\ \A i \in DOMAIN answer : answer[i].uid \in Nat
      /\ \A i \in DOMAIN core.buf : core.buf[i].uid \in Nat
      /\ \A i \in DOMAIN cp : cp[i] \in Nat
      /\ \A s \in Used(core) : core.tracked[s].uid \in Nat
  <2>1. \A i \in DOMAIN answer : answer[i] \in Part
    BY <1>1, Elements
  <2>2. \A i \in DOMAIN core.buf : core.buf[i] \in Part
    BY <1>1, Elements
  <2>3. \A i \in DOMAIN cp : cp[i] \in Uid
    BY <1>1, Elements
  <2> QED  BY <1>1, <2>1, <2>2, <2>3 DEF Part, Tracked, Uid
<1>5. /\ \A i \in DOMAIN answer : answer[i].uid <= posted'
      /\ \A i \in DOMAIN core.buf : core.buf[i].uid <= posted'
      /\ \A i \in DOMAIN cp : cp[i] <= posted'
      /\ \A s \in Used(core) : core.tracked[s].uid <= posted'
  BY <1>1, <1>4 DEF NumberedInv
<1> QED  BY <1>2, <1>3, <1>5 DEF NumberedInv

LEMMA PostKeepsFetch == FetchInv /\ Post => FetchInv'
<1> SUFFICES ASSUME FetchInv, Post
             PROVE  FetchInv'
  OBVIOUS
<1>1. FetchTypeOK /\ NumberedInv /\ posted' = posted + 1 /\ posted \in Nat /\ posted' \in Uid
  BY AppleAssumption DEF FetchInv, FetchTypeOK, Post, Uid
<1>2. PICK cat \in Cat :
        /\ iphone' = [iphone EXCEPT ![posted'] = [cat |-> cat, version |-> 1]]
        /\ Announce([part |-> "announced", uid |-> posted', cat |-> cat])
  BY DEF Post, Cat
<1> DEFINE e == [part |-> "announced", uid |-> posted', cat |-> cat]
<1>3. e \in Change /\ e \in Event /\ e.part = "announced" /\ e.uid = posted' /\ e.cat = cat
  BY <1>1 DEF Change, Event
<1>4. air' = IF link = "ready" THEN Append(air, e) ELSE air
  BY <1>2 DEF Announce
<1> HIDE DEF e
<1>5. UNCHANGED <<link, session, answer, cp, core, call, since, told, spoiled, changes>>
  BY DEF Post, callVars
<1>6. FetchTypeOK'
  <2>1. iphone' \in [Uid -> Posted \cup {Absent}]
    BY <1>1, <1>2 DEF FetchTypeOK, Posted
  <2>2. air' \in Seq(Event)
    BY <1>1, <1>3, <1>4, AppendedAt DEF FetchTypeOK
  <2>3. posted' \in 0 .. MaxUid
    BY <1>1 DEF Uid
  <2> QED  BY <1>1, <1>5, <2>1, <2>2, <2>3 DEF FetchTypeOK
<1>7. /\ \A u \in Uid : u # e.uid => iphone'[u] = iphone[u]
      /\ iphone[posted'] = Absent /\ told[posted'] = 0 /\ iphone'[posted'] = [cat |-> cat, version |-> 1]
  BY <1>1, <1>2, <1>3 DEF NumberedInv, FetchTypeOK
<1>8. iphone'[e.uid] # Absent /\ iphone'[e.uid].cat = e.cat /\ iphone'[e.uid].version = 1
  <2>1. iphone'[e.uid].cat = e.cat /\ iphone'[e.uid].version = 1
    BY <1>3, <1>7
  <2> QED  BY <2>1 DEF Absent
<1>9. \A u \in Uid : u > posted' => iphone'[u] = Absent
  BY <1>1, <1>3, <1>7 DEF NumberedInv, Uid
<1>10. NumberedInv'
  BY <1>1, <1>3, <1>4, <1>5, <1>9, StillNumbered
<1> QED  BY <1>1, <1>3, <1>4, <1>5, <1>6, <1>7, <1>8, <1>10, PhoneChanges

LEMMA ModifyKeepsFetch == ASSUME FetchInv, NEW w \in Uid, Modify(w) PROVE FetchInv'
<1>1. FetchTypeOK /\ NumberedInv /\ posted \in Nat /\ iphone[w] \in Posted /\ iphone[w] # Absent
  BY AppleAssumption DEF FetchInv, FetchTypeOK, Modify
<1> DEFINE e == [part |-> "announced", uid |-> w, cat |-> iphone[w].cat]
<1>2. e \in Change /\ e \in Event /\ e.part = "announced" /\ e.uid = w /\ e.cat = iphone[w].cat
  BY <1>1 DEF Change, Event, Posted
<1>3. air' = IF link = "ready" THEN Append(air, e) ELSE air
  BY DEF Announce, Modify
<1>4. iphone' = [iphone EXCEPT ![w].version = @ + 1]
  BY DEF Modify
<1> HIDE DEF e
<1>5. UNCHANGED <<link, posted, session, answer, cp, core, call, since, told, spoiled>> /\ changes' = changes + 1
  BY DEF Modify, callVars
<1>6. /\ \A u \in Uid : u # e.uid => iphone'[u] = iphone[u]
      /\ iphone'[w] \in Posted /\ iphone'[w].cat = iphone[w].cat /\ iphone'[w].version = iphone[w].version + 1
      /\ iphone[w].version \in Nat
  <2>1. /\ \A u \in Uid : u # w => iphone'[u] = iphone[u]
        /\ iphone'[w] = [iphone[w] EXCEPT !.version = @ + 1]
    BY <1>1, <1>4 DEF FetchTypeOK
  <2> QED  BY <1>1, <1>2, <2>1 DEF Posted
<1>7. FetchTypeOK'
  <2>1. iphone' \in [Uid -> Posted \cup {Absent}]
    BY <1>1, <1>4, <1>6 DEF FetchTypeOK
  <2>2. air' \in Seq(Event)
    BY <1>1, <1>2, <1>3, AppendedAt DEF FetchTypeOK
  <2> QED  BY <1>1, <1>5, <2>1, <2>2 DEF FetchTypeOK
<1>8. iphone'[w] # Absent /\ w <= posted
  BY <1>1, <1>6 DEF Absent, Posted, Cat, NumberedInv, Uid
<1>9. told[w] <= iphone'[w].version
  <2>1. told[w] \in Nat
    BY <1>1 DEF FetchTypeOK
  <2>2. CASE link = "ready" /\ ~spoiled
    <3>1. told[w] <= iphone[w].version
      BY <1>1, <2>2 DEF FetchInv, ReportInv, Present
    <3> QED  BY <1>6, <2>1, <3>1
  <2>3. CASE ~(link = "ready" /\ ~spoiled)
    <3>1. told[w] = 0
      BY <2>3 DEF FetchInv, LinkInv, Untold
    <3> QED  BY <1>6, <3>1
  <2> QED  BY <2>2, <2>3
<1>10. \A u \in Uid : u > posted' => iphone'[u] = Absent
  BY <1>1, <1>2, <1>5, <1>6, <1>8 DEF NumberedInv, Uid
<1>11. NumberedInv'
  BY <1>1, <1>2, <1>3, <1>5, <1>8, <1>10, StillNumbered
<1> QED  BY <1>1, <1>2, <1>3, <1>5, <1>6, <1>7, <1>8, <1>9, <1>11, PhoneChanges

LEMMA WithdrawKeepsFetch == ASSUME FetchInv, NEW w \in Uid, Withdraw(w) PROVE FetchInv'
<1>1. FetchTypeOK /\ NumberedInv /\ posted \in Nat /\ iphone[w] \in Posted /\ iphone[w] # Absent
  BY AppleAssumption DEF FetchInv, FetchTypeOK, Withdraw
<1> DEFINE e == [part |-> "removed", uid |-> w, cat |-> iphone[w].cat]
<1>2. e \in Change /\ e \in Event /\ e.part = "removed" /\ e.uid = w /\ e.cat = iphone[w].cat
  BY <1>1 DEF Change, Event, Posted
<1>3. air' = IF link = "ready" THEN Append(air, e) ELSE air
  BY DEF Announce, Withdraw
<1>4. iphone' = [iphone EXCEPT ![w] = Absent]
  BY DEF Withdraw
<1> HIDE DEF e
<1>5. UNCHANGED <<link, posted, session, answer, cp, core, call, since, told, spoiled>> /\ changes' = changes + 1
  BY DEF Withdraw, callVars
<1>6. (\A u \in Uid : u # e.uid => iphone'[u] = iphone[u]) /\ iphone'[w] = Absent
  BY <1>1, <1>2, <1>4 DEF FetchTypeOK
<1>7. FetchTypeOK'
  <2>1. iphone' \in [Uid -> Posted \cup {Absent}]
    BY <1>1, <1>4, <1>6 DEF FetchTypeOK
  <2>2. air' \in Seq(Event)
    BY <1>1, <1>2, <1>3, AppendedAt DEF FetchTypeOK
  <2> QED  BY <1>1, <1>5, <2>1, <2>2 DEF FetchTypeOK
<1>8. w <= posted
  BY <1>1 DEF NumberedInv, Uid
<1>9. \A u \in Uid : u > posted' => iphone'[u] = Absent
  BY <1>1, <1>2, <1>5, <1>6, <1>8 DEF NumberedInv, Uid
<1>10. NumberedInv'
  BY <1>1, <1>2, <1>3, <1>5, <1>8, <1>9, StillNumbered
<1> QED  BY <1>1, <1>2, <1>3, <1>5, <1>6, <1>7, <1>10, PhoneChanges

LEMMA NothingPlaced == PartPlaces(<<>>) = {}
  BY NothingRead DEF PartPlaces

LEMMA TakeRequestKeepsFetch == FetchInv /\ TakeRequest => FetchInv'
<1> SUFFICES ASSUME FetchInv, TakeRequest
             PROVE  FetchInv'
  OBVIOUS
<1> DEFINE u == Head(cp)
           v == iphone[u].version
           head == [part |-> "head", uid |-> u, version |-> v]
           rest == [part |-> "rest", uid |-> u, version |-> v]
<1>1. FetchTypeOK /\ LinkInv /\ NumberedInv /\ TrackedInv /\ CallInv /\ PipeInv /\ ReportInv
  BY DEF FetchInv
<1>2. /\ cp # <<>> /\ cp \in Seq(Uid) /\ cp' = Tail(cp) /\ answer = <<>>
      /\ answer' = IF iphone[u] = Absent THEN <<>> ELSE <<head, rest>>
      /\ UNCHANGED <<link, posted, changes, session, iphone, air, core, call, since, told, spoiled>>
  BY <1>1 DEF TakeRequest, linkVars, callVars, FetchTypeOK
<1>3. /\ Len(cp) \in Nat /\ Len(cp) >= 1 /\ DOMAIN cp = 1 .. Len(cp) /\ u = cp[1] /\ u \in Uid
      /\ cp' \in Seq(Uid) /\ Len(cp') = Len(cp) - 1 /\ DOMAIN cp' = 1 .. (Len(cp) - 1)
      /\ \A i \in DOMAIN cp' : cp'[i] = cp[i + 1]
  BY <1>2, TailAt
<1>4. link = "ready"
  BY <1>1, <1>2 DEF LinkInv
<1>5. iphone[u] # Absent => head \in Part /\ rest \in Part /\ v \in Nat
  BY <1>1, <1>3 DEF FetchTypeOK, Posted, Part
<1> HIDE DEF u, v, head, rest
<1>6. FetchTypeOK'
  <2>1. answer' \in Seq(Part)
    BY <1>2, <1>5, NothingRead
  <2> QED  BY <1>1, <1>2, <1>3, <2>1 DEF FetchTypeOK
<1>7. LinkInv'
  BY <1>1, <1>2, <1>4 DEF LinkInv
<1>8. NumberedInv'
  <2>1. u <= posted
    BY <1>1, <1>3 DEF NumberedInv
  <2>2. \A i \in DOMAIN answer' : answer'[i].uid <= posted
    BY <1>2, <2>1, NothingRead DEF head, rest
  <2>3. \A i \in DOMAIN cp' : cp'[i] <= posted
    BY <1>1, <1>3 DEF NumberedInv
  <2> QED  BY <1>1, <1>2, <2>2, <2>3 DEF NumberedInv
<1>9. TrackedInv' /\ CallInv'
  BY <1>1, <1>2 DEF TrackedInv, CallInv, Known, Leaving, Used
<1>10. iphone[u] = Absent => (NoParts => NoParts')
  BY <1>2 DEF NoParts
<1>11. ASSUME NEW w \in Uid, Asking(w)
       PROVE  /\ u = w \/ iphone[u] = Absent
              /\ iphone[w] # Absent /\ told[w] <= iphone[w].version =>
                     Asking(w)' \/ Answering(w, iphone[w].version)'
              /\ iphone[w] = Absent => Asking(w)' \/ Unanswered(w)'
  <2>1. NoParts /\ cp[Len(cp)] = w /\ \A i \in DOMAIN cp : i < Len(cp) => iphone[cp[i]] = Absent
    BY <1>11 DEF Asking
  <2>2. CASE Len(cp) = 1
    <3>1. u = w /\ cp' = <<>>
      BY <1>3, <2>1, <2>2, EmptySeq
    <3>2. iphone[w] = Absent => Unanswered(w)'
      BY <1>2, <1>10, <2>1, <3>1 DEF Unanswered
    <3>3. ASSUME iphone[w] # Absent, told[w] <= iphone[w].version
          PROVE  Answering(w, iphone[w].version)'
      <4>1. answer' = <<head, rest>> /\ core'.buf = <<>> /\ PartPlaces(air') = {}
        BY <1>2, <2>1, <3>1, <3>3 DEF NoParts
      <4>2. OnItsWay(core'.buf, air', answer', w, iphone'[w].version)
        BY <1>2, <3>1, <4>1 DEF OnItsWay, head, rest, v
      <4>3. iphone'[w].version <= iphone'[w].version
        BY <1>2, <1>5, <3>1, <3>3 DEF v
      <4> QED  BY <1>2, <3>1, <3>3, <4>2, <4>3 DEF Answering
    <3> QED  BY <3>1, <3>2, <3>3
  <2>3. CASE Len(cp) # 1
    <3>1. cp' # <<>> /\ cp'[Len(cp')] = w /\ iphone[u] = Absent
      BY <1>3, <2>1, <2>3, EmptySeq
    <3>2. \A i \in DOMAIN cp' : i < Len(cp') => iphone[cp'[i]] = Absent
      BY <1>3, <2>1, <2>3
    <3>3. Asking(w)'
      BY <1>2, <1>10, <2>1, <3>1, <3>2 DEF Asking
    <3> QED  BY <3>1, <3>3
  <2> QED  BY <2>2, <2>3
<1>12. PipeInv'
  <2> SUFFICES ASSUME ~spoiled
               PROVE  IF core.active
                      THEN /\ core.uid \in Uid
                           /\ \E c \in Cat : Known(iphone, air, 0, core.uid, c)
                           /\ (Asking(core.uid) \/ Unanswered(core.uid) \/ \E w \in Nat : Answering(core.uid, w))'
                      ELSE NoParts' /\ Pending(core) = {} /\ \A i \in DOMAIN cp' : iphone[cp'[i]] = Absent
    BY <1>2 DEF PipeInv
  <2>1. CASE core.active
    <3>1. /\ core.uid \in Uid /\ \E c \in Cat : Known(iphone, air, 0, core.uid, c)
          /\ Asking(core.uid) \/ Unanswered(core.uid) \/ \E w \in Nat : Answering(core.uid, w)
      BY <1>1, <1>4, <2>1 DEF PipeInv
    <3>2. PICK w \in Uid : w = core.uid
      BY <3>1
    <3>3. Asking(w) /\ core'.uid = w
      BY <1>2, <3>1, <3>2 DEF Unanswered, Answering
    <3>4. CASE iphone[w] = Absent
      <4>1. Asking(w)' \/ Unanswered(w)'
        BY <1>11, <3>3, <3>4
      <4> QED  BY <2>1, <3>1, <3>3, <4>1
    <3>5. CASE iphone[w] # Absent
      <4>1. told[w] <= iphone[w].version /\ iphone[w].version \in Nat
        BY <1>1, <1>4, <3>5 DEF ReportInv, Present, FetchTypeOK, Posted
      <4>2. Asking(w)' \/ Answering(w, iphone[w].version)'
        BY <1>11, <3>3, <3>5, <4>1
      <4>3. (Asking(w) \/ \E n \in Nat : Answering(w, n))'
        BY <1>2, <4>1, <4>2
      <4> QED  BY <2>1, <3>1, <3>3, <4>3
    <3> QED  BY <3>4, <3>5
  <2>2. CASE ~core.active
    BY <1>1, <1>2, <1>3, <1>4, <1>10, <2>2 DEF PipeInv
  <2> QED  BY <2>1, <2>2
<1>13. ReportInv'
  <2> SUFFICES ASSUME ~spoiled, NEW w \in Uid, iphone[w] # Absent
               PROVE  told[w] <= iphone[w].version /\ Coming(w)'
    BY <1>2 DEF ReportInv, Present
  <2>1. told[w] <= iphone[w].version /\ Coming(w)
    BY <1>1, <1>4 DEF ReportInv, Present
  <2>2. CASE core.active /\ core.uid = w /\ (Asking(w) \/ Answering(w, iphone[w].version))
    <3>1. Asking(w)
      BY <1>2, <2>2 DEF Answering
    <3>2. Asking(w)' \/ Answering(w, iphone[w].version)'
      BY <1>11, <2>1, <3>1
    <3> QED  BY <1>2, <2>1, <2>2, <3>2 DEF Coming
  <2>3. CASE ~(core.active /\ core.uid = w /\ (Asking(w) \/ Answering(w, iphone[w].version)))
    BY <1>2, <2>1, <2>3 DEF Coming
  <2> QED  BY <2>2, <2>3
<1> QED  BY <1>6, <1>7, <1>8, <1>9, <1>12, <1>13 DEF FetchInv

LEMMA SendPartKeepsFetch == FetchInv /\ SendPart => FetchInv'
<1> SUFFICES ASSUME FetchInv, SendPart
             PROVE  FetchInv'
  OBVIOUS
<1> DEFINE e == Head(answer)
<1>1. FetchTypeOK /\ LinkInv /\ NumberedInv /\ TrackedInv /\ CallInv /\ PipeInv /\ ReportInv
  BY DEF FetchInv
<1>2. /\ answer # <<>> /\ answer \in Seq(Part) /\ air \in Seq(Event)
      /\ air' = Append(air, e) /\ answer' = Tail(answer)
      /\ UNCHANGED <<link, posted, changes, session, iphone, cp, core, call, since, told, spoiled>>
  BY <1>1 DEF SendPart, linkVars, callVars, FetchTypeOK
<1>3. /\ answer' \in Seq(Part) /\ e \in Part /\ e \in Event /\ e = answer[1] /\ 1 \in DOMAIN answer
      /\ \A i \in DOMAIN answer' : i + 1 \in DOMAIN answer /\ answer'[i] = answer[i + 1]
  BY <1>2, TailAt DEF Event
<1>4. link = "ready" /\ ~NoParts /\ e.part \notin {"announced", "removed"}
  BY <1>1, <1>2, <1>3 DEF LinkInv, NoParts, Part
<1> HIDE DEF e
<1>5. /\ air' \in Seq(Event) /\ Len(air) \in Nat /\ DOMAIN air = 1 .. Len(air)
      /\ DOMAIN air' = 1 .. (Len(air) + 1) /\ air'[Len(air) + 1] = e
      /\ \A i \in DOMAIN air : air'[i] = air[i]
  BY <1>2, <1>3, AppendedAt
<1>6. FetchTypeOK' /\ LinkInv'
  BY <1>1, <1>2, <1>3, <1>4, <1>5 DEF FetchTypeOK, LinkInv
<1>7. NumberedInv'
  <2>1. \A i \in DOMAIN air' : air'[i].uid <= posted
    BY <1>1, <1>2, <1>3, <1>5 DEF NumberedInv
  <2>2. \A i \in DOMAIN answer' : answer'[i].uid <= posted
    BY <1>1, <1>3 DEF NumberedInv
  <2> QED  BY <1>1, <1>2, <2>1, <2>2 DEF NumberedInv
<1>8. \A i, u, cat : Known(iphone, air, i, u, cat) => Known(iphone, air', i, u, cat)
  BY <1>2, <1>3, LeavingAppended DEF Known
<1>9. \A i \in DOMAIN air' : air'[i].part \in {"announced", "removed"} => i \in DOMAIN air /\ air'[i] = air[i]
  BY <1>4, <1>5
<1>10. TrackedInv' /\ CallInv'
  <2>1. \A s \in Used(core) : Known(iphone, air', 0, core.tracked[s].uid, core.tracked[s].cat)
    BY <1>1, <1>8 DEF TrackedInv
  <2>2. \A i \in DOMAIN air' : air'[i].part = "announced" => Known(iphone, air', i, air'[i].uid, air'[i].cat)
    BY <1>1, <1>8, <1>9 DEF TrackedInv
  <2>3. \A i \in DOMAIN air' : air'[i].part = "removed" => iphone[air'[i].uid] = Absent
    BY <1>1, <1>9 DEF TrackedInv
  <2>4. \A i, j \in DOMAIN air' :
          air'[i].part = "removed" /\ air'[j].part = "removed" /\ air'[i].uid = air'[j].uid => air'[i].cat = air'[j].cat
    BY <1>1, <1>9 DEF TrackedInv
  <2>5. TrackedInv'
    BY <1>2, <2>1, <2>2, <2>3, <2>4 DEF TrackedInv, Used
  <2> QED  BY <1>1, <1>2, <1>8, <2>5 DEF CallInv
<1>11. ASSUME NEW u, NEW v, Answering(u, v)
       PROVE  Answering(u, v)'
  <2>1. OnItsWay(core.buf, air', answer', u, v)
    BY <1>2, <1>11, OnItsWaySent DEF Answering, e
  <2> QED  BY <1>2, <1>11, <2>1 DEF Answering
<1>12. PipeInv'
  <2> SUFFICES ASSUME ~spoiled
               PROVE  /\ core.active /\ core.uid \in Uid
                      /\ \E c \in Cat : Known(iphone, air', 0, core.uid, c)
                      /\ (\E n \in Nat : Answering(core.uid, n))'
    BY <1>2 DEF PipeInv
  <2>1. /\ core.active /\ core.uid \in Uid
        /\ \E c \in Cat : Known(iphone, air, 0, core.uid, c)
        /\ Asking(core.uid) \/ Unanswered(core.uid) \/ \E n \in Nat : Answering(core.uid, n)
    BY <1>1, <1>4 DEF PipeInv
  <2>2. PICK n \in Nat : Answering(core.uid, n)
    BY <1>4, <2>1 DEF Asking, Unanswered
  <2>3. PICK w \in Uid : w = core.uid
    BY <2>1
  <2>4. Answering(w, n)' /\ core'.uid = w
    BY <1>2, <1>11, <2>2, <2>3
  <2> QED  BY <1>8, <2>1, <2>4
<1>13. ReportInv'
  <2> SUFFICES ASSUME ~spoiled, NEW w \in Uid, iphone[w] # Absent
               PROVE  told[w] <= iphone[w].version /\ Coming(w)'
    BY <1>2 DEF ReportInv, Present
  <2>1. told[w] <= iphone[w].version /\ Coming(w) /\ ~Asking(w)
    BY <1>1, <1>4 DEF ReportInv, Present, Asking
  <2>2. CASE \E i \in DOMAIN air : air[i].part = "announced" /\ air[i].uid = w
    <3>1. \E i \in DOMAIN air' : air'[i].part = "announced" /\ air'[i].uid = w
      BY <1>5, <2>2
    <3> QED  BY <2>1, <3>1 DEF Coming
  <2>3. CASE core.active /\ core.uid = w /\ Answering(w, iphone[w].version)
    <3>1. PICK n : n = iphone[w].version
      OBVIOUS
    <3>2. Answering(w, n)' /\ iphone'[w].version = n
      BY <1>2, <1>11, <2>3, <3>1
    <3> QED  BY <1>2, <2>1, <2>3, <3>2 DEF Coming
  <2>4. CASE told[w] = iphone[w].version \/ (core.active /\ \E s \in Pending(core) : core.tracked[s].uid = w)
    BY <1>2, <2>1, <2>4 DEF Coming
  <2> QED  BY <2>1, <2>2, <2>3, <2>4 DEF Coming
<1> QED  BY <1>6, <1>7, <1>10, <1>12, <1>13 DEF FetchInv

\* A link that is not ready knows nothing.
LEMMA ForgottenKeepsFetch ==
    ASSUME FetchTypeOK, LinkInv, NumberedInv, Forget, link' \in {"down", "up"},
           UNCHANGED <<call, since, changes, session>>,
           \/ UNCHANGED <<iphone, posted>>
           \/ iphone' = [u \in Uid |-> Absent] /\ posted' = 0
    PROVE  FetchInv'
<1>1. /\ core' = Fresh /\ air' = <<>> /\ cp' = <<>> /\ answer' = <<>> /\ told' = Untold /\ spoiled' = FALSE
      /\ link' # "ready"
  BY DEF Forget
<1>2. core' \in Core /\ Used(core') = {} /\ core'.buf = <<>>
  BY <1>1, FreshTracksNone, NothingRead DEF Core, Fresh
<1>3. FetchTypeOK'
  <2>1. iphone' \in [Uid -> Posted \cup {Absent}] /\ posted' \in 0 .. MaxUid
    BY AppleAssumption DEF FetchTypeOK
  <2>2. told' \in [Uid -> Nat]
    BY <1>1 DEF Untold
  <2> QED  BY <1>1, <1>2, <2>1, <2>2, NothingRead DEF FetchTypeOK
<1>4. LinkInv'
  BY <1>1 DEF LinkInv
<1>5. \A u \in Uid : u > posted' => iphone'[u] = Absent /\ told'[u] = 0
  BY <1>1 DEF NumberedInv, Untold
<1>6. NumberedInv'
  BY <1>1, <1>2, <1>5, NothingRead DEF NumberedInv
<1>7. TrackedInv'
  BY <1>1, <1>2, NothingRead DEF TrackedInv
<1> QED  BY <1>1, <1>3, <1>4, <1>6, <1>7 DEF FetchInv, CallInv, PipeInv, ReportInv

\* Every notification of the phone has its place in what Subscribe brings.
LEMMA EveryoneAnnounced ==
    ASSUME NEW S \in SUBSET Uid, NEW order \in SetToSeqs(S)
    PROVE  /\ order \in Seq(S)
           /\ \A u \in S : \E i \in DOMAIN order : order[i] = u
<1>1. IsFiniteSet(S) /\ Cardinality(S) \in Nat
  <2>1. IsFiniteSet(Uid)
    BY AppleAssumption, FS_Interval DEF Uid
  <2> QED  BY <2>1, FS_Subset, FS_CardinalityType
<1> DEFINE n == Cardinality(S)
<1>2. order \in [1 .. n -> S] /\ \A i, j \in 1 .. n : i # j => order[i] # order[j]
  BY DEF SetToSeqs
<1>3. order \in Injection(1 .. n, S)
  BY <1>2 DEF Injection, IsInjective
<1>4. IsFiniteSet(1 .. n) /\ Cardinality(1 .. n) = n
  BY <1>1, FS_Interval
<1>5. order \in Surjection(1 .. n, S)
  BY <1>1, <1>3, <1>4, FS_Injection
<1>6. order \in Seq(S) /\ DOMAIN order = 1 .. n
  BY <1>1, <1>2
<1> QED  BY <1>5, <1>6 DEF Surjection

LEMMA SubscribeKeepsFetch == FetchInv /\ Subscribe => FetchInv'
<1> SUFFICES ASSUME FetchInv, Subscribe
             PROVE  FetchInv'
  OBVIOUS
<1>1. FetchTypeOK /\ LinkInv /\ NumberedInv
  BY DEF FetchInv
<1>2. /\ link = "up" /\ link' = "ready" /\ session' = session + 1
      /\ UNCHANGED <<iphone, answer, posted, changes, cp, core, call, since, told, spoiled>>
  BY DEF Subscribe, phoneVars, callVars
<1>3. core = Fresh /\ cp = <<>> /\ answer = <<>> /\ told = Untold /\ since <= session
  BY <1>1, <1>2 DEF LinkInv
<1>4. Present \subseteq Uid /\ \A u \in Present : iphone[u] \in Posted /\ iphone[u] # Absent
  BY <1>1 DEF Present, FetchTypeOK
<1>5. PICK order \in SetToSeqs(Present) :
        air' = [i \in DOMAIN order |-> [part |-> "announced", uid |-> order[i], cat |-> iphone[order[i]].cat]]
  BY DEF Subscribe
<1>6. order \in Seq(Present) /\ \A u \in Present : \E i \in DOMAIN order : order[i] = u
  BY <1>4, EveryoneAnnounced
<1>7. Len(order) \in Nat /\ DOMAIN order = 1 .. Len(order) /\ \A i \in DOMAIN order : order[i] \in Present
  BY <1>6, Elements
<1>8. /\ DOMAIN air' = DOMAIN order
      /\ \A i \in DOMAIN air' : /\ air'[i].part = "announced" /\ air'[i].uid = order[i]
                                /\ air'[i].cat = iphone[order[i]].cat /\ air'[i] \in Event
  BY <1>4, <1>5, <1>7 DEF Event, Change, Posted
<1>9. air' \in Seq(Event)
  <2>1. air' \in [1 .. Len(order) -> Event]
    BY <1>5, <1>7, <1>8
  <2> QED  BY <1>7, <2>1
<1>10. Used(core) = {} /\ core.buf = <<>> /\ ~core.active
  BY <1>3, FreshTracksNone DEF Fresh
<1>11. FetchTypeOK'
  BY <1>1, <1>2, <1>9 DEF FetchTypeOK
<1>12. LinkInv'
  BY <1>1, <1>2 DEF LinkInv, FetchTypeOK
<1>13. NumberedInv'
  <2>1. \A i \in DOMAIN air' : air'[i].uid <= posted
    <3>1. \A u \in Present : ~(u > posted) /\ u \in Uid
      BY <1>1, <1>4 DEF NumberedInv
    <3>2. \A u \in Present : u <= posted
      BY <1>1, <3>1 DEF Uid, FetchTypeOK
    <3> QED  BY <1>7, <1>8, <3>2
  <2> QED  BY <1>1, <1>2, <2>1 DEF NumberedInv, Used
<1>14. TrackedInv'
  <2>1. \A i \in DOMAIN air' : Known(iphone, air', i, air'[i].uid, air'[i].cat)
    BY <1>4, <1>7, <1>8 DEF Known
  <2> QED  BY <1>2, <1>8, <1>10, <2>1 DEF TrackedInv
<1>15. CallInv'
  BY <1>1, <1>2, <1>3 DEF CallInv, FetchTypeOK
<1>16. PipeInv'
  <2>1. NoParts'
    BY <1>2, <1>3, <1>8, <1>10 DEF NoParts, PartPlaces
  <2>2. Pending(core) = {}
    BY <1>10 DEF Pending
  <2> QED  BY <1>2, <1>3, <1>10, <2>1, <2>2, NothingRead DEF PipeInv
<1>17. ReportInv'
  <2> SUFFICES ASSUME NEW u \in Present
               PROVE  told[u] <= iphone[u].version /\ Coming(u)'
    BY <1>2 DEF ReportInv, Present
  <2>1. told[u] <= iphone[u].version
    BY <1>3, <1>4 DEF Untold, Posted
  <2>2. \E i \in DOMAIN air' : air'[i].part = "announced" /\ air'[i].uid = u
    BY <1>6, <1>8
  <2> QED  BY <2>1, <2>2 DEF Coming
<1> QED  BY <1>11, <1>12, <1>13, <1>14, <1>15, <1>16, <1>17 DEF FetchInv

-----------------------------------------------------------------------------
\* What hearing the next of the air leaves of what is known.
LEMMA HeardOff ==
    ASSUME FetchTypeOK, TrackedInv, air # <<>>
    PROVE  /\ \A u, cat : (Head(air).part # "removed" \/ Head(air).uid # u) =>
                 (Known(iphone, air, 0, u, cat) => Known(iphone, Tail(air), 0, u, cat))
           /\ \A i \in DOMAIN Tail(air) :
                 Tail(air)[i].part = "announced" => Known(iphone, Tail(air), i, Tail(air)[i].uid, Tail(air)[i].cat)
           /\ \A i \in DOMAIN Tail(air) : Tail(air)[i].part = "removed" => iphone[Tail(air)[i].uid] = Absent
           /\ \A i, j \in DOMAIN Tail(air) :
                 /\ Tail(air)[i].part = "removed" /\ Tail(air)[j].part = "removed"
                 /\ Tail(air)[i].uid = Tail(air)[j].uid
                 => Tail(air)[i].cat = Tail(air)[j].cat
<1>1. air \in Seq(Event)
  BY DEF FetchTypeOK
<1>2. /\ Len(air) \in Nat /\ DOMAIN air = 1 .. Len(air) /\ DOMAIN Tail(air) = 1 .. (Len(air) - 1)
      /\ \A i \in DOMAIN Tail(air) : i \in Nat /\ i + 1 \in DOMAIN air /\ i + 1 \in Nat /\ Tail(air)[i] = air[i + 1]
  BY <1>1, TailAt
<1>3. ASSUME NEW u, NEW cat, Head(air).part # "removed" \/ Head(air).uid # u, Known(iphone, air, 0, u, cat)
      PROVE  Known(iphone, Tail(air), 0, u, cat)
  <2>1. Leaving(air, 0, u, cat) => Leaving(Tail(air), 0, u, cat)
    BY <1>1, <1>3, LeavingTail
  <2> QED  BY <1>3, <2>1 DEF Known
<1>4. ASSUME NEW i \in DOMAIN Tail(air), Tail(air)[i].part = "announced"
      PROVE  Known(iphone, Tail(air), i, Tail(air)[i].uid, Tail(air)[i].cat)
  <2>1. Known(iphone, air, i + 1, Tail(air)[i].uid, Tail(air)[i].cat)
    BY <1>2, <1>4 DEF TrackedInv
  <2>2. Leaving(air, i + 1, Tail(air)[i].uid, Tail(air)[i].cat) => Leaving(Tail(air), i, Tail(air)[i].uid, Tail(air)[i].cat)
    BY <1>1, <1>2, LeavingTail
  <2> QED  BY <2>1, <2>2 DEF Known
<1>5. \A i \in DOMAIN Tail(air) : Tail(air)[i].part = "removed" => iphone[Tail(air)[i].uid] = Absent
  BY <1>2 DEF TrackedInv
<1>6. \A i, j \in DOMAIN Tail(air) :
         /\ Tail(air)[i].part = "removed" /\ Tail(air)[j].part = "removed"
         /\ Tail(air)[i].uid = Tail(air)[j].uid
         => Tail(air)[i].cat = Tail(air)[j].cat
  BY <1>2 DEF TrackedInv
<1> QED  BY <1>3, <1>4, <1>5, <1>6

\* The next part of the answer is its head, or its rest and the last of it.
LEMMA OnItsWayHeard ==
    ASSUME NEW seq \in Seq(Event), seq # <<>>, Head(seq).part \in {"head", "rest"},
           NEW buf, NEW rest_, NEW u, NEW v, OnItsWay(buf, seq, rest_, u, v)
    PROVE  LET head == [part |-> "head", uid |-> u, version |-> v]
               rest == [part |-> "rest", uid |-> u, version |-> v]
           IN  \/ buf = <<>> /\ Head(seq) = head /\ OnItsWay(<<head>>, Tail(seq), rest_, u, v)
               \/ buf = <<head>> /\ Head(seq) = rest /\ rest_ = <<>> /\ PartPlaces(Tail(seq)) = {}
<1> DEFINE head == [part |-> "head", uid |-> u, version |-> v]
           rest == [part |-> "rest", uid |-> u, version |-> v]
           left == Tail(seq)
<1>1. /\ 1 \in PartPlaces(seq) /\ seq[1] = Head(seq)
      /\ DOMAIN left = 1 .. (Len(seq) - 1) /\ Len(seq) \in Nat /\ DOMAIN seq = 1 .. Len(seq)
      /\ \A i \in DOMAIN left : left[i] = seq[i + 1]
      /\ PartPlaces(left) = {i \in DOMAIN left : i + 1 \in PartPlaces(seq)}
  BY TailAt, PlacesTail DEF PartPlaces
<1>2. ASSUME NEW i \in DOMAIN seq, PartPlaces(seq) = {i}
      PROVE  i = 1 /\ PartPlaces(left) = {}
  BY <1>1, <1>2
<1>3. ASSUME NEW i \in DOMAIN seq, NEW j \in DOMAIN seq, i < j, PartPlaces(seq) = {i, j}
      PROVE  i = 1 /\ j - 1 \in DOMAIN left /\ PartPlaces(left) = {j - 1} /\ left[j - 1] = seq[j]
  <2>1. i = 1 /\ j \in Nat /\ j - 1 \in DOMAIN left
    BY <1>1, <1>3
  <2>2. \A k \in DOMAIN left : k + 1 \in {i, j} <=> k = j - 1
    BY <1>1, <2>1
  <2> QED  BY <1>1, <1>3, <2>1, <2>2
<1> HIDE DEF left
<1>4. CASE buf = <<>> /\ rest_ = <<rest>> /\ \E i \in DOMAIN seq : PartPlaces(seq) = {i} /\ seq[i] = head
  <2>1. Head(seq) = head /\ PartPlaces(left) = {}
    BY <1>1, <1>2, <1>4
  <2> QED  BY <1>4, <2>1 DEF OnItsWay, left
<1>5. CASE buf = <<head>> /\ rest_ = <<>> /\ \E i \in DOMAIN seq : PartPlaces(seq) = {i} /\ seq[i] = rest
  BY <1>1, <1>2, <1>5 DEF left
<1>6. CASE /\ buf = <<>> /\ rest_ = <<>>
           /\ \E i, j \in DOMAIN seq : i < j /\ PartPlaces(seq) = {i, j} /\ seq[i] = head /\ seq[j] = rest
  <2>1. Head(seq) = head /\ \E k \in DOMAIN left : PartPlaces(left) = {k} /\ left[k] = rest
    BY <1>1, <1>3, <1>6
  <2> QED  BY <1>6, <2>1 DEF OnItsWay, left
<1> QED  BY <1>1, <1>4, <1>5, <1>6 DEF OnItsWay

\* Of an answer on its way some part is on its way.
LEMMA SomePart ==
    ASSUME NEW u, NEW v, OnItsWay(core.buf, air, answer, u, v)
    PROVE  \E p \in Parts(u) : p.version = v
<1> DEFINE rest == [part |-> "rest", uid |-> u, version |-> v]
           head == [part |-> "head", uid |-> u, version |-> v]
<1>1. (\E i \in DOMAIN air : air[i] = rest) \/ (\E i \in DOMAIN answer : answer[i] = rest)
  <2>1. CASE answer = <<head, rest>>
    <3>1. 2 \in DOMAIN answer /\ answer[2] = rest
      BY <2>1
    <3> QED  BY <3>1
  <2>2. CASE answer = <<rest>>
    <3>1. 1 \in DOMAIN answer /\ answer[1] = rest
      BY <2>2
    <3> QED  BY <3>1
  <2>3. CASE \E i \in DOMAIN air : air[i] = rest
    BY <2>3
  <2> QED  BY <2>1, <2>2, <2>3 DEF OnItsWay
<1>2. rest \in UNION {{seq[i] : i \in DOMAIN seq} : seq \in {core.buf, air, answer}}
  BY <1>1
<1>3. rest.part = "rest" /\ rest.uid = u /\ rest.version = v
  OBVIOUS
<1>4. rest \in Parts(u)
  BY <1>2, <1>3 DEF Parts
<1> QED  BY <1>3, <1>4

\* What the air still holds after the next of it has been heard.
LEMMA HeardNumbers ==
    ASSUME FetchTypeOK, NumberedInv, air # <<>>
    PROVE  /\ Head(air) \in Event /\ Head(air).uid \in Uid /\ Head(air).uid <= posted
           /\ Tail(air) \in Seq(Event)
           /\ \A i \in DOMAIN Tail(air) : Tail(air)[i].uid <= posted
           /\ Head(air).part \in {"announced", "removed"} => Head(air) \in Change /\ Head(air).cat \in Cat
           /\ Head(air).part \in {"head", "rest"} => Head(air) \in Part
<1>1. air \in Seq(Event)
  BY DEF FetchTypeOK
<1>2. /\ Head(air) \in Event /\ Head(air) = air[1] /\ 1 \in DOMAIN air /\ Tail(air) \in Seq(Event)
      /\ \A i \in DOMAIN Tail(air) : i + 1 \in DOMAIN air /\ Tail(air)[i] = air[i + 1]
  BY <1>1, TailAt
<1>3. Head(air) \in Change \/ Head(air) \in Part
  BY <1>2 DEF Event
<1>4. Head(air).uid \in Uid /\ (Head(air).part \in {"announced", "removed"} => Head(air) \in Change /\ Head(air).cat \in Cat)
      /\ (Head(air).part \in {"head", "rest"} => Head(air) \in Part)
  BY <1>3 DEF Change, Part
<1> QED  BY <1>2, <1>4 DEF NumberedInv

\* on_notification_source, ADDED and MODIFIED.  An announcement heard while another
\* fetch is under way leaves a slot waiting; one of the fetch under way is of the
\* text being answered, or another follows it, or the mishap has happened.
LEMMA HearAnnouncedKeepsFetch == FetchInv /\ HearAnnounced => FetchInv'
<1> SUFFICES ASSUME FetchInv, HearAnnounced
             PROVE  FetchInv'
  OBVIOUS
<1>1. FetchTypeOK /\ LinkInv /\ NumberedInv /\ TrackedInv /\ CallInv /\ PipeInv /\ ReportInv
  BY DEF FetchInv
<1>2. link = "ready" /\ air # <<>> /\ Head(air).part = "announced" /\ air' = Tail(air)
  BY DEF HearAnnounced
<1>3. PICK u \in Uid, cat \in Cat : u = Head(air).uid /\ cat = Head(air).cat /\ u <= posted
  BY <1>1, <1>2, HeardNumbers
<1>4. core \in Core /\ air \in Seq(Event) /\ changes \in Nat /\ cp \in Seq(Uid)
  BY <1>1 DEF FetchTypeOK
<1>5. /\ Len(air) \in Nat /\ DOMAIN air = 1 .. Len(air) /\ DOMAIN air' = 1 .. (Len(air) - 1)
      /\ Head(air) = air[1] /\ 1 \in DOMAIN air
      /\ \A i \in DOMAIN air' : air'[i] = air[i + 1]
      /\ air' \in Seq(Event) /\ \A i \in DOMAIN air' : air'[i].uid <= posted
  BY <1>1, <1>2, <1>4, TailAt, HeardNumbers
<1>6. PICK s \in 1 .. Slots :
          s = SlotFor(core, u) /\ (~Evicts(core, u) => (core.tracked[s] = Free \/ core.tracked[s].uid = u))
  BY <1>4, SlotForProperties
<1> DEFINE later == {i \in 2 .. Len(air) : air[i].uid = u /\ air[i].part \in {"announced", "removed"}}
           overtaken == /\ core.active /\ core.uid = u /\ later = {}
                        /\ \E p \in Parts(u) : p.version # iphone[u].version
<1>7. PICK r : /\ r = Announced(core, u, cat) /\ core' = r.core /\ Write(r.asks)
               /\ spoiled' = (spoiled \/ (Evicts(core, u) \/ overtaken) \/ changes' # changes)
               /\ told' = IF spoiled' THEN Untold ELSE told
               /\ UNCHANGED <<link, posted, session, iphone, answer, call, since>>
  BY <1>3 DEF HearAnnounced, Mishap, Tell, phoneVars, callVars
<1> HIDE DEF later, overtaken
<1>8. /\ core' \in Core
      /\ \A t \in 1 .. Slots : t # s => core'.tracked[t] = core.tracked[t]
      /\ core'.tracked[s].uid = u /\ core'.tracked[s].cat = cat /\ core'.tracked[s] \in Tracked
      /\ core.active /\ core.uid # u => ~core'.tracked[s].asked
      /\ core.active => r.asks = {} /\ core'.active /\ core'.uid = core.uid /\ core'.buf = core.buf
      /\ ~core.active => r.asks = {u} /\ core'.active /\ core'.uid = u /\ core'.buf = <<>>
  <2>1. /\ r.core \in Core
        /\ \A t \in 1 .. Slots : t # s => r.core.tracked[t] = core.tracked[t]
        /\ r.core.tracked[s].uid = u /\ r.core.tracked[s].cat = cat /\ r.core.tracked[s] \in Tracked
        /\ core.active /\ core.uid # u => ~r.core.tracked[s].asked
        /\ core.active => r.asks = {} /\ r.core.active /\ r.core.uid = core.uid /\ r.core.buf = core.buf
        /\ ~core.active => r.asks = {u} /\ r.core.active /\ r.core.uid = u /\ r.core.buf = <<>>
    BY <1>4, <1>6, <1>7, AnnouncedFacts
  <2>2. core' = r.core
    BY <1>7
  <2> QED  BY <2>1, <2>2
<1>25. /\ core.active => cp' = cp /\ changes' = changes
       /\ ~core.active => (cp' = Append(cp, u) /\ changes' = changes) \/ (cp' = cp /\ changes' = changes + 1)
  BY <1>7, <1>8, WriteFacts
<1>9. cp' \in Seq(Uid) /\ changes' \in Nat
  <2>1. Append(cp, u) \in Seq(Uid) /\ changes + 1 \in Nat
    BY <1>4, AppendedAt
  <2> QED  BY <1>4, <1>25, <2>1
<1>10. FetchTypeOK'
  <2>1. told' \in [Uid -> Nat] /\ spoiled' \in BOOLEAN
    BY <1>1, <1>7 DEF FetchTypeOK, Untold
  <2> QED  BY <1>1, <1>5, <1>7, <1>8, <1>9, <2>1 DEF FetchTypeOK
<1>11. LinkInv'
  BY <1>1, <1>2, <1>7 DEF LinkInv
<1>12. ASSUME NEW t \in Used(core')
       PROVE  \/ core'.tracked[t].uid = u /\ core'.tracked[t].cat = cat
              \/ t \in Used(core) /\ core'.tracked[t] = core.tracked[t]
  <2>1. t \in 1 .. Slots /\ core'.tracked[t] # Free
    BY DEF Used
  <2>2. CASE t = s
    BY <1>8, <2>2
  <2>3. CASE t # s
    BY <1>8, <2>1, <2>3 DEF Used
  <2> QED  BY <2>2, <2>3
<1>13. NumberedInv'
  <2>1. \A i \in DOMAIN cp' : cp'[i] <= posted
    <3>1. \A i \in DOMAIN cp' : (i \in DOMAIN cp /\ cp'[i] = cp[i]) \/ cp'[i] = u
      BY SMTT(30), <1>4, <1>25, AppendedAt
    <3> QED  BY <1>1, <1>3, <3>1 DEF NumberedInv
  <2>2. \A w \in Uid : w > posted => iphone[w] = Absent /\ told'[w] = 0
    BY <1>1, <1>7 DEF NumberedInv, Untold
  <2>3. \A i \in DOMAIN core'.buf : core'.buf[i].uid <= posted
    BY <1>1, <1>8, NothingRead DEF NumberedInv
  <2>4. \A t \in Used(core') : core'.tracked[t].uid <= posted
    BY <1>1, <1>3, <1>12 DEF NumberedInv
  <2>5. \A i \in DOMAIN answer : answer[i].uid <= posted
    BY <1>1 DEF NumberedInv
  <2> QED  BY <1>5, <1>7, <2>1, <2>2, <2>3, <2>4, <2>5 DEF NumberedInv
<1>14. \A w, c : Known(iphone, air, 0, w, c) => Known(iphone, air', 0, w, c)
  BY <1>1, <1>2, HeardOff
<1>15. Known(iphone, air', 0, u, cat)
  <2>1. Known(iphone, air, 1, u, cat)
    BY <1>1, <1>2, <1>3, <1>5 DEF TrackedInv
  <2>2. Leaving(air, 1, u, cat) => Leaving(air', 0, u, cat)
    BY <1>2, <1>4, LeavingTail
  <2> QED  BY <2>1, <2>2 DEF Known
<1>16. TrackedInv'
  <2>1. \A t \in Used(core') : Known(iphone, air', 0, core'.tracked[t].uid, core'.tracked[t].cat)
    BY <1>1, <1>12, <1>14, <1>15 DEF TrackedInv
  <2> QED  BY <1>1, <1>2, <1>7, <2>1, HeardOff DEF TrackedInv
<1>17. CallInv'
  BY <1>1, <1>2, <1>7, <1>14 DEF CallInv
<1>18. PartPlaces(air) = {} => PartPlaces(air') = {}
  BY <1>2, <1>4, PlacesTail
<1>19. ASSUME ~spoiled'
       PROVE  /\ ~spoiled /\ ~Evicts(core, u) /\ ~overtaken /\ changes' = changes /\ told' = told
              /\ ~core.active => cp' = Append(cp, u)
  <2>1. ~spoiled /\ ~Evicts(core, u) /\ ~overtaken /\ changes' = changes /\ told' = told
    BY <1>7, <1>19
  <2>2. changes + 1 # changes
    BY <1>4
  <2> QED  BY <1>25, <2>1, <2>2
<1>20. ASSUME ~spoiled', core.active, NEW w \in Uid
       PROVE  /\ Asking(w) => Asking(w)'
              /\ Unanswered(w) => Unanswered(w)'
              /\ \A v : Answering(w, v) => Answering(w, v)'
  <2>1. cp' = cp /\ core'.buf = core.buf /\ told' = told
    BY <1>8, <1>25, <1>19, <1>20
  <2>2. NoParts => NoParts'
    BY <1>7, <1>18, <2>1 DEF NoParts
  <2>3. ASSUME NEW v, Answering(w, v)
        PROVE  Answering(w, v)'
    <3>1. OnItsWay(core.buf, air', answer, w, v)
      BY <1>2, <1>4, <2>3, OnItsWayTail DEF Answering
    <3> QED  BY <1>7, <2>1, <2>3, <3>1 DEF Answering
  <2> QED  BY <1>7, <2>1, <2>2, <2>3 DEF Asking, Unanswered
<1>21. ASSUME ~spoiled', ~core.active
       PROVE  Asking(u)'
  <2>1. NoParts /\ \A i \in DOMAIN cp : iphone[cp[i]] = Absent
    BY <1>1, <1>2, <1>19, <1>21 DEF PipeInv
  <2>2. NoParts'
    BY <1>7, <1>8, <1>18, <1>21, <2>1 DEF NoParts
  <2>3. cp' = Append(cp, u)
    BY <1>19, <1>21
  <2>4. /\ Len(cp') = Len(cp) + 1 /\ Len(cp) \in Nat /\ cp'[Len(cp) + 1] = u
        /\ DOMAIN cp = 1 .. Len(cp) /\ DOMAIN cp' = 1 .. (Len(cp) + 1) /\ \A i \in DOMAIN cp : cp'[i] = cp[i]
    BY <1>4, <2>3, AppendedAt
  <2>5. cp' # <<>>
    BY <1>9, <2>4, EmptySeq
  <2>6. \A i \in DOMAIN cp' : i < Len(cp') => iphone[cp'[i]] = Absent
    BY <2>1, <2>4
  <2> QED  BY <1>7, <2>2, <2>4, <2>5, <2>6 DEF Asking
<1>22. PipeInv'
  <2> SUFFICES ASSUME ~spoiled'
               PROVE  /\ core'.active /\ core'.uid \in Uid
                      /\ \E c \in Cat : Known(iphone, air', 0, core'.uid, c)
                      /\ (Asking(core.uid) \/ Unanswered(core.uid) \/ \E n \in Nat : Answering(core.uid, n))'
    BY <1>7 DEF PipeInv
  <2>1. CASE core.active
    <3>1. /\ core.uid \in Uid /\ \E c \in Cat : Known(iphone, air, 0, core.uid, c)
          /\ Asking(core.uid) \/ Unanswered(core.uid) \/ \E n \in Nat : Answering(core.uid, n)
      BY <1>1, <1>2, <1>19, <2>1 DEF PipeInv
    <3>2. PICK w \in Uid : w = core.uid
      BY <3>1
    <3>3. Asking(w)' \/ Unanswered(w)' \/ \E n \in Nat : Answering(w, n)'
      BY <1>20, <2>1, <3>1, <3>2
    <3>4. core'.uid = w
      BY <1>8, <2>1, <3>2
    <3> QED  BY <1>8, <1>14, <2>1, <3>1, <3>3, <3>4
  <2>2. CASE ~core.active
    <3>1. Asking(u)' /\ core'.uid = u /\ core'.active
      BY <1>8, <1>21, <2>2
    <3> QED  BY <1>15, <3>1
  <2> QED  BY <2>1, <2>2
<1>23. ReportInv'
  <2> SUFFICES ASSUME ~spoiled', NEW w \in Uid, iphone[w] # Absent
               PROVE  told'[w] <= iphone[w].version /\ Coming(w)'
    BY <1>7 DEF ReportInv, Present
  <2>1. told' = told /\ told[w] <= iphone[w].version /\ Coming(w)
    BY <1>1, <1>2, <1>19 DEF ReportInv, Present
  <2>2. CASE \E i \in DOMAIN air' : air'[i].part = "announced" /\ air'[i].uid = w
    BY <2>1, <2>2 DEF Coming
  <2>3. CASE core.active /\ core.uid = w /\ (Asking(w) \/ Answering(w, iphone[w].version))
    <3>1. PICK n : n = iphone[w].version
      OBVIOUS
    <3>2. (Asking(w)' \/ Answering(w, n)') /\ core'.uid = w /\ core'.active /\ iphone'[w].version = n
      BY <1>7, <1>8, <1>20, <2>3, <3>1
    <3> QED  BY <1>7, <2>1, <3>2 DEF Coming
  <2>4. CASE w = u /\ ~core.active
    <3>1. Asking(w)' /\ core'.active /\ core'.uid = w
      BY <1>8, <1>21, <2>4
    <3> QED  BY <2>1, <3>1 DEF Coming
  <2>5. CASE w = u /\ core.active /\ core.uid # u
    <3>1. s \in Pending(core') /\ core'.tracked[s].uid = w
      <4>1. core'.tracked[s] # Free
        BY <1>8, SlotsAssumption DEF Tracked, Uid, Cat
      <4> QED  BY <1>8, <2>5, <4>1 DEF Pending, Used
    <3> QED  BY <1>8, <2>1, <2>5, <3>1 DEF Coming
  <2>6. CASE w = u /\ core.active /\ core.uid = u
    <3>1. /\ Asking(core.uid) \/ Unanswered(core.uid) \/ \E n \in Nat : Answering(core.uid, n)
          /\ ~overtaken
      BY <1>1, <1>2, <1>19, <2>6 DEF PipeInv
    <3>2. CASE later = {}
      <4>1. \A p \in Parts(u) : p.version = iphone[u].version
        BY <2>6, <3>1, <3>2 DEF overtaken
      <4>2. \A n \in Nat : Answering(u, n) => n = iphone[u].version
        BY <4>1, SomePart DEF Answering
      <4>3. Asking(w) \/ Answering(w, iphone[w].version)
        BY <2>6, <3>1, <4>2 DEF Unanswered
      <4> QED  BY <2>3, <2>6, <4>3
    <3>3. CASE later # {}
      <4>1. PICK i \in 2 .. Len(air) : air[i].uid = u /\ air[i].part \in {"announced", "removed"}
        BY <3>3 DEF later
      <4>2. i \in DOMAIN air /\ i - 1 \in DOMAIN air' /\ air'[i - 1] = air[i]
        BY <1>5, <4>1
      <4>3. air[i].part # "removed"
        BY <1>1, <2>6, <4>1, <4>2 DEF TrackedInv
      <4> QED  BY <2>2, <2>6, <4>1, <4>2, <4>3
    <3> QED  BY <3>2, <3>3
  <2>7. CASE w # u
    <3>1. CASE \E i \in DOMAIN air : air[i].part = "announced" /\ air[i].uid = w
      <4>1. PICK i \in DOMAIN air : air[i].part = "announced" /\ air[i].uid = w
        BY <3>1
      <4>2. i # 1
        BY <1>3, <1>5, <2>7, <4>1
      <4>3. i - 1 \in DOMAIN air' /\ air'[i - 1] = air[i]
        BY <1>5, <4>2
      <4> QED  BY <2>2, <4>1, <4>3
    <3>2. CASE core.active /\ \E t \in Pending(core) : core.tracked[t].uid = w
      <4>1. PICK t \in Pending(core) : core.tracked[t].uid = w
        BY <3>2
      <4>2. t \in 1 .. Slots /\ core.tracked[t] # Free
        BY <4>1 DEF Pending, Used
      <4>3. t # s
        BY <1>6, <1>19, <2>7, <4>1, <4>2
      <4>4. t \in Pending(core') /\ core'.tracked[t].uid = w
        BY <1>8, <4>1, <4>2, <4>3 DEF Pending, Used
      <4> QED  BY <1>8, <2>1, <3>2, <4>4 DEF Coming
    <3>3. CASE told[w] = iphone[w].version
      BY <1>7, <2>1, <3>3 DEF Coming
    <3> QED  BY <2>1, <2>3, <3>1, <3>2, <3>3 DEF Coming
  <2> QED  BY <2>4, <2>5, <2>6, <2>7
<1> QED  BY <1>10, <1>11, <1>13, <1>16, <1>17, <1>22, <1>23 DEF FetchInv

\* on_notification_source, REMOVED: the identity is off the phone, and all that
\* the terminal knew of it was of the category of the removal.
LEMMA HearRemovedKeepsFetch == FetchInv /\ HearRemoved => FetchInv'
<1> SUFFICES ASSUME FetchInv, HearRemoved
             PROVE  FetchInv'
  OBVIOUS
<1>1. FetchTypeOK /\ LinkInv /\ NumberedInv /\ TrackedInv /\ CallInv /\ PipeInv /\ ReportInv
  BY DEF FetchInv
<1>2. /\ link = "ready" /\ air # <<>> /\ Head(air).part = "removed" /\ air' = Tail(air)
      /\ UNCHANGED <<link, posted, changes, session, iphone, answer, cp>>
  BY DEF HearRemoved, linkVars, phoneVars
<1>3. PICK u \in Uid, cat \in Cat : u = Head(air).uid /\ cat = Head(air).cat /\ u <= posted
  BY <1>1, <1>2, HeardNumbers
<1>4. core \in Core /\ air \in Seq(Event) /\ cp \in Seq(Uid) /\ told \in [Uid -> Nat]
  BY <1>1 DEF FetchTypeOK
<1>5. /\ Len(air) \in Nat /\ DOMAIN air = 1 .. Len(air) /\ DOMAIN air' = 1 .. (Len(air) - 1)
      /\ Head(air) = air[1] /\ 1 \in DOMAIN air
      /\ \A i \in DOMAIN air' : air'[i] = air[i + 1]
      /\ air' \in Seq(Event) /\ \A i \in DOMAIN air' : air'[i].uid <= posted
  BY <1>1, <1>2, <1>4, TailAt, HeardNumbers
<1>6. iphone[u] = Absent
  BY <1>1, <1>2, <1>3, <1>5 DEF TrackedInv
<1>7. /\ core' = Withdrawn(core, u)
      /\ IF Category(core, u, cat) = "call" THEN CallRemoved(u) ELSE UNCHANGED <<call, since>>
      /\ spoiled' = (spoiled \/ (core.active /\ core.uid = u /\ (Pending(core') # {} \/ Parts(u) # {})))
      /\ told' = IF spoiled' THEN Untold ELSE [told EXCEPT ![u] = 0]
  BY <1>2, <1>3 DEF HearRemoved, Mishap, Tell
<1>8. /\ core' \in Core
      /\ \A s \in 1 .. Slots :
            core'.tracked[s] = IF core.tracked[s] # Free /\ core.tracked[s].uid = u THEN Free ELSE core.tracked[s]
      /\ core.active /\ core.uid = u => ~core'.active /\ core'.buf = <<>>
      /\ ~(core.active /\ core.uid = u) => core'.active = core.active /\ core'.uid = core.uid /\ core'.buf = core.buf
  <2>1. core' = Withdrawn(core, u)
    BY <1>7
  <2> QED  BY <1>4, <2>1, WithdrawnFacts
<1>9. (call' = NoCall /\ since' = 0) \/ (call' = call /\ since' = since)
  BY <1>7 DEF CallRemoved, callVars
<1>10. FetchTypeOK'
  <2>1. told' \in [Uid -> Nat] /\ spoiled' \in BOOLEAN
    <3>1. [told EXCEPT ![u] = 0] \in [Uid -> Nat] /\ Untold \in [Uid -> Nat]
      BY <1>4 DEF Untold
    <3> QED  BY <1>1, <1>7, <3>1 DEF FetchTypeOK
  <2>2. call' \in [live : BOOLEAN, uid : Nat] /\ since' \in Nat
    <3>1. NoCall \in [live : BOOLEAN, uid : Nat]
      BY DEF NoCall
    <3>2. call \in [live : BOOLEAN, uid : Nat] /\ since \in Nat
      BY <1>1 DEF FetchTypeOK
    <3>3. 0 \in Nat
      OBVIOUS
    <3> QED  BY <1>9, <3>1, <3>2, <3>3, Zenon
  <2> QED  BY <1>1, <1>2, <1>5, <1>8, <2>1, <2>2 DEF FetchTypeOK
<1>11. LinkInv'
  <2>1. since' <= session
    BY <1>1, <1>9 DEF LinkInv, FetchTypeOK
  <2> QED  BY <1>2, <1>7, <2>1 DEF LinkInv
<1>12. ASSUME NEW s \in Used(core')
       PROVE  s \in Used(core) /\ core'.tracked[s] = core.tracked[s] /\ core.tracked[s].uid # u
  BY <1>8 DEF Used
<1>13. ASSUME NEW s \in Used(core), core.tracked[s].uid # u
       PROVE  s \in Used(core') /\ core'.tracked[s] = core.tracked[s]
  BY <1>8, <1>13 DEF Used
<1>14. NumberedInv'
  <2>1. \A w \in Uid : w > posted => iphone[w] = Absent /\ told'[w] = 0
    BY <1>1, <1>4, <1>7 DEF NumberedInv, Untold
  <2>2. \A i \in DOMAIN core'.buf : core'.buf[i].uid <= posted
    BY <1>1, <1>8, NothingRead DEF NumberedInv
  <2>3. \A s \in Used(core') : core'.tracked[s].uid <= posted
    BY <1>1, <1>12 DEF NumberedInv
  <2>4. (\A i \in DOMAIN answer : answer[i].uid <= posted) /\ \A i \in DOMAIN cp : cp[i] <= posted
    BY <1>1 DEF NumberedInv
  <2> QED  BY <1>2, <1>5, <2>1, <2>2, <2>3, <2>4 DEF NumberedInv
<1>15. \A w, c : w # u /\ Known(iphone, air, 0, w, c) => Known(iphone, air', 0, w, c)
  BY <1>1, <1>2, <1>3, HeardOff
<1>16. TrackedInv'
  <2>1. \A s \in Used(core') : Known(iphone, air', 0, core'.tracked[s].uid, core'.tracked[s].cat)
    BY <1>1, <1>12, <1>15 DEF TrackedInv
  <2> QED  BY <1>1, <1>2, <2>1, HeardOff DEF TrackedInv
<1>17. ASSUME NEW c, Known(iphone, air, 0, u, c)
       PROVE  c = cat
  <2>1. PICK j \in DOMAIN air : air[j] = [part |-> "removed", uid |-> u, cat |-> c]
    BY <1>6, <1>17 DEF Known, Leaving
  <2>2. air[j].part = "removed" /\ air[j].uid = u /\ air[j].cat = c
    BY <2>1
  <2> QED  BY <1>1, <1>2, <1>3, <1>5, <2>2 DEF TrackedInv
<1>18. Category(core, u, cat) = cat
  <2>1. CASE \E s \in Used(core) : core.tracked[s].uid = u /\ Category(core, u, cat) = core.tracked[s].cat
    BY <1>1, <1>17, <2>1 DEF TrackedInv
  <2> QED  BY <1>4, <2>1, CategoryFacts
<1>19. CallInv'
  <2> SUFFICES ASSUME call'.live, since' = session
               PROVE  call'.uid \in Uid /\ Known(iphone, air', 0, call'.uid, "call")
    BY <1>2 DEF CallInv
  <2>1. call' = call /\ since' = since
    BY <1>9 DEF NoCall
  <2>2. call.uid \in Uid /\ Known(iphone, air, 0, call.uid, "call")
    BY <1>1, <1>2, <2>1 DEF CallInv
  <2>3. call.uid # u
    <3> SUFFICES ASSUME call.uid = u
                 PROVE  FALSE
      OBVIOUS
    <3>1. Category(core, u, cat) = "call"
      BY <1>17, <1>18, <2>2
    <3>2. call' = NoCall
      BY <1>7, <3>1 DEF CallRemoved
    <3> QED  BY <3>2 DEF NoCall
  <2> QED  BY <1>15, <2>1, <2>2, <2>3
<1>20. PartPlaces(air) = {} => PartPlaces(air') = {}
  BY <1>2, <1>4, PlacesTail
<1>21. ASSUME ~spoiled'
       PROVE  /\ ~spoiled /\ told' = [told EXCEPT ![u] = 0]
              /\ core.active /\ core.uid = u => Pending(core') = {} /\ Parts(u) = {}
  BY <1>7, <1>21
<1>22. ASSUME ~spoiled', core.active, NEW w \in Uid, core.uid = w, w # u
       PROVE  /\ Asking(w) => Asking(w)'
              /\ Unanswered(w) => Unanswered(w)'
              /\ \A v : Answering(w, v) => Answering(w, v)'
  <2>1. core'.buf = core.buf /\ told'[w] = told[w]
    BY <1>4, <1>8, <1>21, <1>22
  <2>2. NoParts => NoParts'
    BY <1>2, <1>20, <2>1 DEF NoParts
  <2>3. ASSUME NEW v, Answering(w, v)
        PROVE  Answering(w, v)'
    <3>1. OnItsWay(core.buf, air', answer, w, v)
      BY <1>2, <1>4, <2>3, OnItsWayTail DEF Answering
    <3> QED  BY <1>2, <2>1, <2>3, <3>1 DEF Answering
  <2> QED  BY <1>2, <2>1, <2>2, <2>3 DEF Asking, Unanswered
<1>23. PipeInv'
  <2> SUFFICES ASSUME ~spoiled'
               PROVE  IF core'.active
                      THEN /\ core'.uid \in Uid
                           /\ \E c \in Cat : Known(iphone, air', 0, core'.uid, c)
                           /\ (Asking(core.uid) \/ Unanswered(core.uid) \/ \E n \in Nat : Answering(core.uid, n))'
                      ELSE NoParts' /\ Pending(core') = {} /\ \A i \in DOMAIN cp : iphone[cp[i]] = Absent
    BY <1>2 DEF PipeInv
  <2>1. CASE core.active /\ core.uid = u
    <3>1. ~core'.active /\ core'.buf = <<>> /\ Pending(core') = {} /\ Parts(u) = {}
      BY <1>8, <1>21, <2>1
    <3>2. Asking(u) \/ Unanswered(u) \/ \E n \in Nat : Answering(u, n)
      BY <1>1, <1>2, <1>21, <2>1 DEF PipeInv
    <3>3. ~\E n \in Nat : Answering(u, n)
      BY <3>1, SomePart DEF Answering
    <3>4. NoParts /\ \A i \in DOMAIN cp : iphone[cp[i]] = Absent
      <4>1. CASE Asking(u)
        <5>1. \A i \in DOMAIN cp : i = Len(cp) \/ i < Len(cp)
          BY <1>4, Elements
        <5> QED  BY <1>6, <4>1, <5>1 DEF Asking
      <4>2. CASE Unanswered(u)
        BY <4>2, NothingRead DEF Unanswered
      <4> QED  BY <3>2, <3>3, <4>1, <4>2
    <3>5. NoParts'
      BY <1>2, <1>20, <3>1, <3>4 DEF NoParts
    <3> QED  BY <3>1, <3>4, <3>5
  <2>2. CASE core.active /\ core.uid # u
    <3>1. /\ core.uid \in Uid /\ \E c \in Cat : Known(iphone, air, 0, core.uid, c)
          /\ Asking(core.uid) \/ Unanswered(core.uid) \/ \E n \in Nat : Answering(core.uid, n)
      BY <1>1, <1>2, <1>21, <2>2 DEF PipeInv
    <3>2. PICK w \in Uid : w = core.uid
      BY <3>1
    <3>3. Asking(w)' \/ Unanswered(w)' \/ \E n \in Nat : Answering(w, n)'
      BY <1>22, <2>2, <3>1, <3>2
    <3>4. core'.uid = w /\ core'.active
      BY <1>8, <2>2, <3>2
    <3> QED  BY <1>15, <2>2, <3>1, <3>2, <3>3, <3>4
  <2>3. CASE ~core.active
    <3>1. NoParts /\ Pending(core) = {} /\ \A i \in DOMAIN cp : iphone[cp[i]] = Absent
      BY <1>1, <1>2, <1>21, <2>3 DEF PipeInv
    <3>2. ~core'.active /\ core'.buf = core.buf
      BY <1>8, <2>3
    <3>3. Pending(core') = {}
      BY <1>12, <3>1 DEF Pending
    <3>4. NoParts'
      BY <1>2, <1>20, <3>1, <3>2 DEF NoParts
    <3> QED  BY <3>1, <3>2, <3>3, <3>4
  <2> QED  BY <2>1, <2>2, <2>3
<1>24. ReportInv'
  <2> SUFFICES ASSUME ~spoiled', NEW w \in Uid, iphone[w] # Absent
               PROVE  told'[w] <= iphone[w].version /\ Coming(w)'
    BY <1>2 DEF ReportInv, Present
  <2>1. /\ w # u /\ told'[w] = told[w]
        /\ told[w] <= iphone[w].version /\ Coming(w)
    BY <1>1, <1>2, <1>4, <1>6, <1>21 DEF ReportInv, Present
  <2>2. CASE \E i \in DOMAIN air : air[i].part = "announced" /\ air[i].uid = w
    <3>1. PICK i \in DOMAIN air : air[i].part = "announced" /\ air[i].uid = w
      BY <2>2
    <3>2. i - 1 \in DOMAIN air' /\ air'[i - 1] = air[i]
      <4>1. i # 1
        BY <1>2, <1>5, <3>1
      <4> QED  BY <1>5, <4>1
    <3> QED  BY <2>1, <3>1, <3>2 DEF Coming
  <2>3. CASE core.active /\ \E s \in Pending(core) : core.tracked[s].uid = w
    <3>1. PICK s \in Pending(core) : core.tracked[s].uid = w
      BY <2>3
    <3>2. s \in Pending(core') /\ core'.tracked[s].uid = w
      BY <1>13, <2>1, <3>1 DEF Pending
    <3>3. core'.active
      <4>1. CASE core.uid = u
        BY <1>21, <2>3, <3>2, <4>1
      <4>2. CASE core.uid # u
        BY <1>8, <2>3, <4>2
      <4> QED  BY <4>1, <4>2
    <3>4. \E t \in Pending(core') : core'.tracked[t].uid = w
      BY <3>2
    <3> QED  BY <1>2, <2>1, <3>3, <3>4 DEF Coming
  <2>4. CASE core.active /\ core.uid = w /\ (Asking(w) \/ Answering(w, iphone[w].version))
    <3>1. PICK n : n = iphone[w].version
      OBVIOUS
    <3>2. (Asking(w)' \/ Answering(w, n)') /\ core'.uid = w /\ core'.active
      BY <1>2, <1>8, <1>22, <2>1, <2>4, <3>1
    <3>3. iphone'[w].version = n
      BY <1>2, <3>1
    <3> QED  BY <1>2, <2>1, <3>2, <3>3 DEF Coming
  <2>5. CASE told[w] = iphone[w].version
    BY <1>2, <2>1, <2>5 DEF Coming
  <2> QED  BY <2>1, <2>2, <2>3, <2>4, <2>5 DEF Coming
<1> QED  BY <1>10, <1>11, <1>14, <1>16, <1>19, <1>23, <1>24 DEF FetchInv

\* While the fetch goes well, a part heard is the next of the answer to its request:
\* its head, and the rest of it stays on the way, or its rest, and it is complete.
LEMMA PartInTurn ==
    ASSUME FetchInv, link = "ready", ~spoiled, core.active, air # <<>>, Head(air).part \in {"head", "rest"}
    PROVE  /\ core.uid \in Uid /\ \E c \in Cat : Known(iphone, air, 0, core.uid, c)
           /\ \E v \in Nat : Answering(core.uid, v)
           /\ \A v \in Nat : Answering(core.uid, v) =>
                 LET head == [part |-> "head", uid |-> core.uid, version |-> v]
                     rest == [part |-> "rest", uid |-> core.uid, version |-> v]
                 IN  \/ core.buf = <<>> /\ Head(air) = head /\ OnItsWay(<<head>>, Tail(air), answer, core.uid, v)
                     \/ core.buf = <<head>> /\ Head(air) = rest /\ answer = <<>> /\ PartPlaces(Tail(air)) = {}
<1>1. FetchTypeOK /\ PipeInv /\ air \in Seq(Event)
  BY DEF FetchInv, FetchTypeOK
<1>2. 1 \in PartPlaces(air)
  BY <1>1, TailAt DEF PartPlaces
<1>3. ~NoParts
  BY <1>2 DEF NoParts
<1>4. /\ core.uid \in Uid /\ \E c \in Cat : Known(iphone, air, 0, core.uid, c)
      /\ Asking(core.uid) \/ Unanswered(core.uid) \/ \E v \in Nat : Answering(core.uid, v)
  BY <1>1 DEF PipeInv
<1>5. \E v \in Nat : Answering(core.uid, v)
  BY <1>3, <1>4 DEF Asking, Unanswered
<1>6. ASSUME NEW v \in Nat, Answering(core.uid, v)
      PROVE  LET head == [part |-> "head", uid |-> core.uid, version |-> v]
                 rest == [part |-> "rest", uid |-> core.uid, version |-> v]
             IN  \/ core.buf = <<>> /\ Head(air) = head /\ OnItsWay(<<head>>, Tail(air), answer, core.uid, v)
                 \/ core.buf = <<head>> /\ Head(air) = rest /\ answer = <<>> /\ PartPlaces(Tail(air)) = {}
  <2>1. OnItsWay(core.buf, air, answer, core.uid, v)
    BY <1>6 DEF Answering
  <2> QED  BY <1>1, <2>1, OnItsWayHeard
<1> QED  BY <1>4, <1>5, <1>6

\* A part nobody asked for is dropped; nothing goes well any more if one comes.
LEMMA PartHeardIdle ==
    ASSUME FetchInv, HearPart, ~core.active
    PROVE  FetchInv'
<1>1. FetchTypeOK /\ LinkInv /\ NumberedInv /\ TrackedInv /\ CallInv /\ PipeInv /\ ReportInv
  BY DEF FetchInv
<1>2. /\ link = "ready" /\ air # <<>> /\ Head(air).part \in {"head", "rest"} /\ air' = Tail(air)
      /\ UNCHANGED <<link, posted, session, iphone, answer, core, cp, call, since, changes, told, spoiled>>
  BY DEF HearPart, phoneVars
<1>3. air' \in Seq(Event) /\ \A i \in DOMAIN air' : air'[i].uid <= posted
  BY <1>1, <1>2, HeardNumbers
<1>4. spoiled
  <2>1. air \in Seq(Event)
    BY <1>1 DEF FetchTypeOK
  <2>2. 1 \in PartPlaces(air)
    BY <1>2, <2>1, TailAt DEF PartPlaces
  <2> QED  BY <1>1, <1>2, <2>2 DEF PipeInv, NoParts
<1>5. \A w, c : Known(iphone, air, 0, w, c) => Known(iphone, air', 0, w, c)
  BY <1>1, <1>2, HeardOff
<1>6. FetchTypeOK'
  BY <1>1, <1>2, <1>3 DEF FetchTypeOK
<1>7. LinkInv' /\ CallInv'
  BY <1>1, <1>2, <1>5 DEF LinkInv, CallInv
<1>8. NumberedInv'
  BY <1>1, <1>2, <1>3 DEF NumberedInv, Used
<1>9. TrackedInv'
  <2>1. \A s \in Used(core) : Known(iphone, air', 0, core.tracked[s].uid, core.tracked[s].cat)
    BY <1>1, <1>5 DEF TrackedInv
  <2>2. core' = core /\ iphone' = iphone
    BY <1>2
  <2> QED  BY <1>1, <1>2, <2>1, <2>2, HeardOff DEF TrackedInv
<1>10. PipeInv' /\ ReportInv'
  BY <1>2, <1>4 DEF PipeInv, ReportInv
<1> QED  BY <1>6, <1>7, <1>8, <1>9, <1>10 DEF FetchInv

\* A part that does not complete the response is kept in the buffer.
LEMMA PartHeardIncomplete ==
    ASSUME FetchInv, core.active,
           link = "ready", air # <<>>, Head(air).part \in {"head", "rest"}, air' = Tail(air),
           "incomplete" \in Verdicts(Append(core.buf, Head(air))),
           core' = [core EXCEPT !.buf = Append(core.buf, Head(air))],
           UNCHANGED <<link, posted, session, iphone, answer, cp, call, since, changes, told, spoiled>>
    PROVE  FetchInv'
<1>1. FetchTypeOK /\ LinkInv /\ NumberedInv /\ TrackedInv /\ CallInv /\ PipeInv /\ ReportInv
  BY DEF FetchInv
<1>2. PICK p \in Part : p = Head(air) /\ p.uid <= posted
  BY <1>1, HeardNumbers
<1>3. air' \in Seq(Event) /\ \A i \in DOMAIN air' : air'[i].uid <= posted
  BY <1>1, HeardNumbers
<1>4. core \in Core /\ core.buf \in Seq(Part) /\ air \in Seq(Event)
  BY <1>1 DEF FetchTypeOK, Core
<1>5. PICK buf : buf = Append(core.buf, p)
  OBVIOUS
<1>6. /\ buf \in Seq(Part) /\ Len(buf) = Len(core.buf) + 1 /\ Len(core.buf) \in Nat
      /\ DOMAIN core.buf = 1 .. Len(core.buf) /\ DOMAIN buf = 1 .. (Len(core.buf) + 1)
      /\ \A i \in DOMAIN core.buf : buf[i] = core.buf[i]
      /\ buf[Len(core.buf) + 1] = p
  BY <1>4, <1>5, AppendedAt
<1>7. core' = [core EXCEPT !.buf = buf] /\ "incomplete" \in Verdicts(buf)
  BY <1>2, <1>5
<1>8. /\ core' \in Core /\ core'.tracked = core.tracked /\ core'.uid = core.uid /\ core'.buf = buf
      /\ core'.active
  BY <1>4, <1>6, <1>7 DEF Core
<1>9. Used(core') = Used(core) /\ Pending(core') = Pending(core)
  BY <1>8 DEF Used, Pending
<1>10. \A w, c : Known(iphone, air, 0, w, c) => Known(iphone, air', 0, w, c)
  BY <1>1, HeardOff
<1>11. FetchTypeOK'
  BY <1>1, <1>3, <1>8 DEF FetchTypeOK
<1>12. LinkInv' /\ CallInv'
  BY <1>1, <1>10 DEF LinkInv, CallInv
<1>13. NumberedInv'
  <2>1. \A i \in DOMAIN core'.buf : core'.buf[i].uid <= posted
    BY <1>1, <1>2, <1>6, <1>8 DEF NumberedInv
  <2>2. \A s \in Used(core') : core'.tracked[s].uid <= posted
    BY <1>1, <1>8, <1>9 DEF NumberedInv
  <2> QED  BY <1>1, <1>3, <2>1, <2>2 DEF NumberedInv
<1>14. TrackedInv'
  <2>1. \A s \in Used(core') : Known(iphone, air', 0, core'.tracked[s].uid, core'.tracked[s].cat)
    BY <1>1, <1>8, <1>9, <1>10 DEF TrackedInv
  <2> QED  BY <1>1, <2>1, HeardOff DEF TrackedInv
<1>15. ASSUME ~spoiled, NEW w \in Uid, w = core.uid, NEW v \in Nat, Answering(w, v)
       PROVE  Answering(w, v)'
  <2> DEFINE head == [part |-> "head", uid |-> w, version |-> v]
             rest == [part |-> "rest", uid |-> w, version |-> v]
  <2>1. \/ core.buf = <<>> /\ p = head /\ OnItsWay(<<head>>, air', answer, w, v)
        \/ core.buf = <<head>> /\ p = rest
    BY <1>2, <1>15, PartInTurn
  <2>2. CASE core.buf = <<>> /\ p = head /\ OnItsWay(<<head>>, air', answer, w, v)
    <3>1. buf = <<head>>
      BY <1>5, <2>2
    <3>2. OnItsWay(core'.buf, air', answer, w, v)
      BY <1>8, <2>2, <3>1
    <3> QED  BY <1>15, <3>2 DEF Answering
  <2>3. CASE core.buf = <<head>> /\ p = rest
    <3>1. buf[1] = head /\ Len(buf) = 2
      BY <1>6, <2>3
    <3>2. Verdicts(buf) = {"complete"}
      BY <3>1 DEF Verdicts
    <3> QED  BY <1>7, <3>2
  <2> QED  BY <2>1, <2>2, <2>3
<1>16. PipeInv'
  <2> SUFFICES ASSUME ~spoiled
               PROVE  /\ core'.active /\ core'.uid \in Uid
                      /\ \E c \in Cat : Known(iphone, air', 0, core'.uid, c)
                      /\ (\E n \in Nat : Answering(core.uid, n))'
    BY DEF PipeInv
  <2>1. /\ core.uid \in Uid /\ \E c \in Cat : Known(iphone, air, 0, core.uid, c)
        /\ \E n \in Nat : Answering(core.uid, n)
    BY PartInTurn
  <2>2. PICK w \in Uid : w = core.uid
    BY <2>1
  <2>3. \E n \in Nat : Answering(w, n)'
    BY <1>15, <2>1, <2>2
  <2> QED  BY <1>8, <1>10, <2>1, <2>2, <2>3
<1>17. ReportInv'
  <2> SUFFICES ASSUME ~spoiled, NEW w \in Uid, iphone[w] # Absent
               PROVE  told[w] <= iphone[w].version /\ Coming(w)'
    BY DEF ReportInv, Present
  <2>1. told[w] <= iphone[w].version /\ Coming(w)
    BY <1>1 DEF ReportInv, Present
  <2>2. CASE \E i \in DOMAIN air : air[i].part = "announced" /\ air[i].uid = w
    <3>1. PICK i \in DOMAIN air : air[i].part = "announced" /\ air[i].uid = w
      BY <2>2
    <3>2. i - 1 \in DOMAIN air' /\ air'[i - 1] = air[i]
      <4>1. i # 1
        BY <1>4, <3>1, TailAt
      <4> QED  BY <1>4, <4>1, TailAt
    <3> QED  BY <2>1, <3>1, <3>2 DEF Coming
  <2>3. CASE core.active /\ \E s \in Pending(core) : core.tracked[s].uid = w
    BY <1>8, <1>9, <2>1, <2>3 DEF Coming
  <2>4. CASE core.active /\ core.uid = w /\ (Asking(w) \/ Answering(w, iphone[w].version))
    <3>1. PICK n : n = iphone[w].version
      OBVIOUS
    <3>2. n \in Nat /\ ~Asking(w)
      <4>1. iphone[w] \in Posted
        BY <1>1 DEF FetchTypeOK
      <4>2. 1 \in PartPlaces(air)
        BY <1>4, TailAt DEF PartPlaces
      <4> QED  BY <3>1, <4>1, <4>2 DEF Posted, Asking, NoParts
    <3>3. Answering(w, n)' /\ core'.uid = w /\ core'.active
      BY <1>8, <1>15, <2>4, <3>1, <3>2
    <3> QED  BY <2>1, <3>1, <3>3 DEF Coming
  <2>5. CASE told[w] = iphone[w].version
    BY <2>1, <2>5 DEF Coming
  <2> QED  BY <2>1, <2>2, <2>3, <2>4, <2>5 DEF Coming
<1> QED  BY <1>11, <1>12, <1>13, <1>14, <1>16, <1>17 DEF FetchInv

\* The end of a fetch, whatever the verdict: buf is what the buffer held.
LEMMA PartHeardLast ==
    ASSUME FetchInv, core.active,
           link = "ready", air # <<>>, Head(air).part \in {"head", "rest"}, air' = Tail(air),
           NEW buf, buf = Append(core.buf, Head(air)),
           NEW verdict \in Verdicts(buf), verdict # "incomplete",
           core' = Ended(core).core, Write(Ended(core).asks),
           IF verdict = "complete" /\ Category(core, buf[1].uid, "other") = "call" THEN Ring(buf[1].uid)
              ELSE UNCHANGED <<call, since>>,
           Mishap(FALSE),
           Tell(IF verdict = "complete" THEN [told EXCEPT ![buf[1].uid] = buf[1].version] ELSE told),
           UNCHANGED <<link, posted, session, iphone, answer>>
    PROVE  FetchInv'
<1>1. FetchTypeOK /\ LinkInv /\ NumberedInv /\ TrackedInv /\ CallInv /\ PipeInv /\ ReportInv
  BY DEF FetchInv
<1>2. PICK p \in Part : p = Head(air) /\ p.uid <= posted
  BY <1>1, HeardNumbers
<1>3. air' \in Seq(Event) /\ \A i \in DOMAIN air' : air'[i].uid <= posted
  BY <1>1, HeardNumbers
<1>4. /\ core \in Core /\ core.buf \in Seq(Part) /\ air \in Seq(Event) /\ cp \in Seq(Uid) /\ changes \in Nat
      /\ told \in [Uid -> Nat] /\ session \in Nat
  BY <1>1 DEF FetchTypeOK, Core
<1>5. PICK f \in Part : /\ f = buf[1] /\ f.uid <= posted /\ f.uid \in Uid /\ f.version \in Nat
                        /\ (core.buf = <<>> => f = p /\ Len(buf) = 1)
                        /\ (core.buf # <<>> => f = core.buf[1] /\ Len(buf) = Len(core.buf) + 1)
  <2>1. /\ Len(buf) = Len(core.buf) + 1 /\ Len(core.buf) \in Nat
        /\ DOMAIN core.buf = 1 .. Len(core.buf)
        /\ \A i \in DOMAIN core.buf : buf[i] = core.buf[i] /\ core.buf[i] \in Part
        /\ buf[Len(core.buf) + 1] = p
    BY <1>2, <1>4, AppendedAt, Elements
  <2>2. CASE core.buf = <<>>
    <3>1. Len(core.buf) = 0
      BY <1>4, <2>2, EmptySeq
    <3>2. buf[1] = p /\ Len(buf) = 1
      BY <2>1, <3>1
    <3> QED  BY <1>2, <2>2, <3>2 DEF Part
  <2>3. CASE core.buf # <<>>
    <3>1. 1 \in DOMAIN core.buf
      BY <1>4, <2>1, <2>3, EmptySeq
    <3>2. buf[1] \in Part /\ buf[1] = core.buf[1] /\ core.buf[1].uid <= posted
      BY <1>1, <2>1, <3>1 DEF NumberedInv
    <3> QED  BY <2>1, <2>3, <3>2 DEF Part
  <2> QED  BY <2>2, <2>3
<1>6. PICK r : r = Ended(core)
  OBVIOUS
<1>7. /\ core' = r.core /\ Write(r.asks)
      /\ core' \in Core /\ core'.buf = <<>>
      /\ \/ Pending(core) = {} /\ r.asks = {} /\ core'.tracked = core.tracked /\ ~core'.active
         \/ \E s \in Pending(core) :
               /\ core'.tracked = [core.tracked EXCEPT ![s].asked = TRUE]
               /\ core'.active /\ core'.uid = core.tracked[s].uid /\ r.asks = {core.tracked[s].uid}
  <2>1. /\ r.core \in Core /\ r.core.buf = <<>>
        /\ \/ Pending(core) = {} /\ r.asks = {} /\ r.core.tracked = core.tracked /\ ~r.core.active
           \/ \E s \in Pending(core) :
                 /\ r.core.tracked = [core.tracked EXCEPT ![s].asked = TRUE]
                 /\ r.core.active /\ r.core.uid = core.tracked[s].uid /\ r.asks = {core.tracked[s].uid}
    BY <1>4, <1>6, EndedFacts
  <2>2. core' = r.core /\ Write(r.asks)
    BY <1>6
  <2> QED  BY <2>1, <2>2
<1>8. ASSUME NEW s \in Pending(core)
      PROVE  s \in 1 .. Slots /\ s \in Used(core) /\ core.tracked[s] \in Tracked /\ core.tracked[s].uid \in Uid
  BY <1>4 DEF Pending, Used, Core, Tracked
<1>9. \/ cp' = cp
      \/ \E s \in Pending(core) : cp' = Append(cp, core.tracked[s].uid)
  BY <1>7, WriteFacts
<1>10. changes' = changes \/ changes' = changes + 1
  BY <1>7, WriteFacts
<1>11. /\ spoiled' = (spoiled \/ changes' # changes)
       /\ told' = IF spoiled' THEN Untold
                  ELSE IF verdict = "complete" THEN [told EXCEPT ![f.uid] = f.version] ELSE told
       /\ \/ /\ verdict = "complete" /\ Category(core, f.uid, "other") = "call"
             /\ call' = [live |-> TRUE, uid |-> f.uid] /\ since' = session
          \/ call' = call /\ since' = since
  BY <1>5 DEF Mishap, Tell, Ring
<1>12. ASSUME NEW t \in 1 .. Slots
       PROVE  /\ (core'.tracked[t] = Free) = (core.tracked[t] = Free)
              /\ t \in Used(core) => core'.tracked[t].uid = core.tracked[t].uid /\ core'.tracked[t].cat = core.tracked[t].cat
              /\ t \in Pending(core') => t \in Pending(core)
              /\ t \in Pending(core) => core'.active /\ (t \in Pending(core') \/ core'.uid = core.tracked[t].uid)
  <2>1. CASE Pending(core) = {} /\ core'.tracked = core.tracked /\ ~core'.active
    BY <2>1 DEF Pending, Used
  <2>2. CASE \E s \in Pending(core) :
               /\ core'.tracked = [core.tracked EXCEPT ![s].asked = TRUE]
               /\ core'.active /\ core'.uid = core.tracked[s].uid
    <3>1. PICK s \in Pending(core) :
               /\ core'.tracked = [core.tracked EXCEPT ![s].asked = TRUE]
               /\ core'.active /\ core'.uid = core.tracked[s].uid
      BY <2>2
    <3>2. /\ core'.tracked[s].uid = core.tracked[s].uid /\ core'.tracked[s].cat = core.tracked[s].cat
          /\ core'.tracked[s].asked /\ core'.tracked[s] \in Tracked
      <4>1. PICK x \in Tracked : x = core.tracked[s]
        BY <1>8
      <4>2. core'.tracked[s] = [x EXCEPT !.asked = TRUE]
        BY <1>4, <1>8, <3>1, <4>1 DEF Core
      <4> QED  BY <4>1, <4>2 DEF Tracked
    <3>3. core'.tracked[s] # Free /\ core.tracked[s] # Free
      BY <1>8, <3>2, SlotsAssumption DEF Tracked, Uid, Cat, Used
    <3>4. t # s => core'.tracked[t] = core.tracked[t]
      BY <1>4, <1>8, <3>1 DEF Core
    <3> QED  BY <3>1, <3>2, <3>3, <3>4 DEF Pending, Used
  <2> QED  BY <1>7, <2>1, <2>2
<1>13. ASSUME NEW t \in Used(core')
       PROVE  t \in Used(core) /\ core'.tracked[t].uid = core.tracked[t].uid /\ core'.tracked[t].cat = core.tracked[t].cat
  BY <1>12 DEF Used
<1>14. \A w, c : Known(iphone, air, 0, w, c) => Known(iphone, air', 0, w, c)
  BY <1>1, HeardOff
<1>15. FetchTypeOK'
  <2>1. cp' \in Seq(Uid)
    <3>1. \A w \in Uid : Append(cp, w) \in Seq(Uid)
      BY <1>4, AppendedAt
    <3> QED  BY <1>4, <1>8, <1>9, <3>1
  <2>2. told' \in [Uid -> Nat]
    <3>1. [told EXCEPT ![f.uid] = f.version] \in [Uid -> Nat] /\ Untold \in [Uid -> Nat]
      BY <1>4, <1>5 DEF Untold
    <3> QED  BY <1>4, <1>11, <3>1
  <2>3. call' \in [live : BOOLEAN, uid : Nat] /\ since' \in Nat
    <3>1. [live |-> TRUE, uid |-> f.uid] \in [live : BOOLEAN, uid : Nat]
      BY <1>5 DEF Uid
    <3>2. call \in [live : BOOLEAN, uid : Nat] /\ since \in Nat
      BY <1>1 DEF FetchTypeOK
    <3> QED  BY <1>4, <1>11, <3>1, <3>2, Zenon
  <2>4. spoiled' \in BOOLEAN /\ changes' \in Nat
    BY <1>1, <1>4, <1>10, <1>11 DEF FetchTypeOK
  <2> QED  BY <1>1, <1>3, <1>7, <2>1, <2>2, <2>3, <2>4 DEF FetchTypeOK
<1>16. LinkInv'
  <2>1. since' <= session
    BY <1>1, <1>4, <1>11 DEF LinkInv
  <2> QED  BY <1>11, <2>1 DEF LinkInv
<1>17. NumberedInv'
  <2>1. \A w \in Uid : w > posted => iphone[w] = Absent /\ told'[w] = 0
    <3>1. posted \in Nat /\ f.uid \in Nat
      BY <1>1, <1>5, AppleAssumption DEF FetchTypeOK, Uid
    <3>2. \A w \in Uid : w > posted => w # f.uid
      BY <1>5, <3>1 DEF Uid
    <3> QED  BY <1>1, <1>4, <1>11, <3>2 DEF NumberedInv, Untold
  <2>2. \A i \in DOMAIN cp' : cp'[i] <= posted
    <3>1. \A i \in DOMAIN cp' : (i \in DOMAIN cp /\ cp'[i] = cp[i]) \/ \E s \in Pending(core) : cp'[i] = core.tracked[s].uid
      <4>1. ASSUME NEW s \in Pending(core), NEW w \in Uid, w = core.tracked[s].uid, cp' = Append(cp, w)
            PROVE  \A i \in DOMAIN cp' : (i \in DOMAIN cp /\ cp'[i] = cp[i]) \/ cp'[i] = w
        BY <1>4, <4>1, AppendedAt
      <4> QED  BY <1>8, <1>9, <4>1
    <3>2. \A s \in Pending(core) : core.tracked[s].uid <= posted
      BY <1>1, <1>8 DEF NumberedInv
    <3> QED  BY <1>1, <3>1, <3>2 DEF NumberedInv
  <2>3. \A s \in Used(core') : core'.tracked[s].uid <= posted
    BY <1>1, <1>13 DEF NumberedInv
  <2>4. (\A i \in DOMAIN answer : answer[i].uid <= posted) /\ DOMAIN core'.buf = {}
    BY <1>1, <1>7, NothingRead DEF NumberedInv
  <2> QED  BY <1>3, <2>1, <2>2, <2>3, <2>4 DEF NumberedInv
<1>18. TrackedInv'
  <2>1. \A s \in Used(core') : Known(iphone, air', 0, core'.tracked[s].uid, core'.tracked[s].cat)
    BY <1>1, <1>13, <1>14 DEF TrackedInv
  <2> QED  BY <1>1, <2>1, HeardOff DEF TrackedInv
<1>19. CallInv'
  <2>1. CASE Category(core, f.uid, "other") = "call" /\ call' = [live |-> TRUE, uid |-> f.uid]
    <3>1. PICK s \in Used(core) : core.tracked[s].uid = f.uid /\ core.tracked[s].cat = "call"
      <4>1. \/ Category(core, f.uid, "other") = "other"
            \/ \E s \in Used(core) : core.tracked[s].uid = f.uid /\ Category(core, f.uid, "other") = core.tracked[s].cat
        <5>1. PICK a, d : a = f.uid /\ d = "other"
          OBVIOUS
        <5>2. core \in Core
          BY <1>4
        <5>3. \/ Category(core, a, d) = d
              \/ \E s \in Used(core) : core.tracked[s].uid = a /\ Category(core, a, d) = core.tracked[s].cat
          BY <5>2, CategoryFacts
        <5> QED  BY <5>1, <5>3
      <4>2. Category(core, f.uid, "other") = "call"
        BY <2>1
      <4> QED  BY <4>1, <4>2
    <3>2. Known(iphone, air', 0, f.uid, "call")
      BY <1>1, <1>14, <3>1 DEF TrackedInv
    <3> QED  BY <1>5, <2>1, <3>2 DEF CallInv
  <2>2. CASE call' = call /\ since' = since
    BY <1>1, <1>14, <2>2 DEF CallInv
  <2> QED  BY <1>11, <2>1, <2>2
<1>20. ASSUME ~spoiled'
       PROVE  ~spoiled /\ changes' = changes
  BY <1>11, <1>20
<1>21. ASSUME ~spoiled
       PROVE  /\ core.uid \in Uid /\ f.uid = core.uid /\ answer = <<>> /\ PartPlaces(air') = {}
              /\ verdict = "complete" /\ cp = <<>> /\ Answering(core.uid, f.version)
              /\ \A n \in Nat : Answering(core.uid, n) => n = f.version
  <2>1. ASSUME NEW v \in Nat, Answering(core.uid, v)
        PROVE  /\ f = [part |-> "head", uid |-> core.uid, version |-> v] /\ answer = <<>>
               /\ PartPlaces(air') = {} /\ verdict = "complete"
    <3> DEFINE head == [part |-> "head", uid |-> core.uid, version |-> v]
               rest == [part |-> "rest", uid |-> core.uid, version |-> v]
    <3>1. \/ core.buf = <<>> /\ p = head
          \/ core.buf = <<head>> /\ answer = <<>> /\ PartPlaces(air') = {}
      BY <1>2, <1>21, <2>1, PartInTurn
    <3>2. CASE core.buf = <<>> /\ p = head
      <4>1. buf[1].part = "head" /\ Len(buf) = 1
        BY <1>5, <3>2
      <4>2. Verdicts(buf) = {"incomplete"}
        BY <4>1 DEF Verdicts
      <4> QED  BY <4>2
    <3>3. CASE core.buf = <<head>> /\ answer = <<>> /\ PartPlaces(air') = {}
      <4>1. f = head /\ Len(buf) = 2
        BY <1>5, <3>3
      <4>2. buf[1].part = "head" /\ Len(buf) # 1
        BY <1>5, <4>1
      <4>3. Verdicts(buf) = {"complete"}
        BY <4>2 DEF Verdicts
      <4> QED  BY <3>3, <4>1, <4>3
    <3> QED  BY <3>1, <3>2, <3>3
  <2>2. /\ core.uid \in Uid /\ \E v \in Nat : Answering(core.uid, v)
    BY <1>21, PartInTurn
  <2>3. PICK v \in Nat : Answering(core.uid, v)
    BY <2>2
  <2>4. f.uid = core.uid /\ f.version = v
    BY <2>1, <2>3
  <2>5. \A n \in Nat : Answering(core.uid, n) => n = f.version
    BY <2>1
  <2>6. cp = <<>>
    BY <2>3 DEF Answering
  <2> QED  BY <2>1, <2>2, <2>3, <2>4, <2>5, <2>6
<1>22. ASSUME ~spoiled', core'.active
       PROVE  \E s \in Pending(core), w \in Uid : w = core.tracked[s].uid /\ core'.uid = w /\ Asking(w)'
  <2>1. PICK s \in Pending(core) : core'.uid = core.tracked[s].uid /\ r.asks = {core.tracked[s].uid}
    BY <1>7, <1>22
  <2>2. PICK w \in Uid : w = core.tracked[s].uid
    BY <1>8
  <2>3. changes + 1 # changes
    BY <1>4
  <2>4. cp' = Append(<<>>, w)
    BY <1>7, <1>20, <1>21, <1>22, <2>1, <2>2, <2>3, WriteFacts
  <2>5. Len(cp') = 1 /\ cp'[1] = w /\ DOMAIN cp' = 1 .. 1 /\ cp' # <<>>
    <3>1. <<>> \in Seq(Uid) /\ Len(<<>>) = 0
      BY EmptySeq
    <3> QED  BY <2>4, <3>1, AppendedAt, EmptySeq
  <2>6. NoParts'
    BY <1>7, <1>20, <1>21, <1>22 DEF NoParts
  <2>7. Asking(w)'
    BY <2>5, <2>6 DEF Asking
  <2> QED  BY <2>1, <2>2, <2>7
<1>23. PipeInv'
  <2> SUFFICES ASSUME ~spoiled'
               PROVE  IF core'.active
                      THEN /\ core'.uid \in Uid
                           /\ \E c \in Cat : Known(iphone, air', 0, core'.uid, c)
                           /\ Asking(core.uid)'
                      ELSE NoParts' /\ Pending(core') = {} /\ DOMAIN cp' = {}
    BY DEF PipeInv
  <2>1. CASE core'.active
    <3>1. PICK s \in Pending(core), w \in Uid : w = core.tracked[s].uid /\ core'.uid = w /\ Asking(w)'
      BY <1>22, <2>1
    <3>2. core.tracked[s] \in Tracked /\ s \in Used(core)
      BY <1>8
    <3>3. Known(iphone, air', 0, w, core.tracked[s].cat)
      BY <1>1, <1>14, <3>1, <3>2 DEF TrackedInv
    <3> QED  BY <2>1, <3>1, <3>2, <3>3 DEF Tracked
  <2>2. CASE ~core'.active
    <3>1. Pending(core) = {} /\ r.asks = {}
      BY <1>7, <2>2
    <3>2. cp' = <<>>
      BY <1>7, <1>20, <1>21, <3>1, WriteFacts
    <3>3. Pending(core') = {}
      BY <1>12, <3>1 DEF Pending, Used
    <3>4. NoParts'
      BY <1>7, <1>20, <1>21 DEF NoParts
    <3> QED  BY <2>2, <3>2, <3>3, <3>4, NothingRead
  <2> QED  BY <2>1, <2>2
<1>24. ReportInv'
  <2> SUFFICES ASSUME ~spoiled', NEW w \in Uid, iphone[w] # Absent
               PROVE  told'[w] <= iphone[w].version /\ Coming(w)'
    BY DEF ReportInv, Present
  <2>1. /\ ~spoiled /\ told[w] <= iphone[w].version /\ Coming(w)
        /\ told' = [told EXCEPT ![f.uid] = f.version]
        /\ iphone[w].version \in Nat /\ told[w] \in Nat
    <3>1. iphone[w] \in Posted
      BY <1>1 DEF FetchTypeOK
    <3> QED  BY <1>1, <1>4, <1>11, <1>20, <1>21, <3>1 DEF ReportInv, Present, Posted
  <2>2. w = f.uid => told'[w] = f.version /\ told[w] <= f.version /\ f.version <= iphone[w].version
    BY <1>4, <1>21, <2>1 DEF Answering
  <2>3. w # f.uid => told'[w] = told[w]
    BY <1>4, <2>1
  <2>4. told'[w] <= iphone[w].version
    BY <2>1, <2>2, <2>3
  <2>5. CASE \E i \in DOMAIN air : air[i].part = "announced" /\ air[i].uid = w
    <3>1. PICK i \in DOMAIN air : air[i].part = "announced" /\ air[i].uid = w
      BY <2>5
    <3>2. i - 1 \in DOMAIN air' /\ air'[i - 1] = air[i]
      <4>1. i # 1
        BY <1>4, <3>1, TailAt
      <4> QED  BY SMTT(30), <1>4, <4>1, TailAt
    <3> QED  BY <2>4, <3>1, <3>2 DEF Coming
  <2>6. CASE \E s \in Pending(core) : core.tracked[s].uid = w
    <3>1. PICK s \in Pending(core) : core.tracked[s].uid = w
      BY <2>6
    <3>2. core'.active /\ core'.tracked[s].uid = w /\ (s \in Pending(core') \/ core'.uid = w)
      BY <1>8, <1>12, <3>1
    <3>3. core'.uid = w => Asking(w)'
      BY <1>22, <3>2
    <3> QED  BY <2>4, <3>2, <3>3 DEF Coming
  <2>7. CASE core.uid = w /\ (Asking(w) \/ Answering(w, iphone[w].version))
    <3>1. ~Asking(w)
      BY <1>21, <2>1 DEF Asking
    <3>2. told'[w] = iphone[w].version
      BY <1>21, <2>1, <2>2, <2>7, <3>1
    <3> QED  BY <2>4, <3>2 DEF Coming
  <2>8. CASE told[w] = iphone[w].version
    <3>1. told'[w] = iphone[w].version
      BY <1>5, <2>1, <2>2, <2>3, <2>8
    <3> QED  BY <2>4, <3>1 DEF Coming
  <2> QED  BY <2>1, <2>5, <2>6, <2>7, <2>8 DEF Coming
<1> QED  BY <1>15, <1>16, <1>17, <1>18, <1>19, <1>23, <1>24 DEF FetchInv

\* on_data_source.
LEMMA HearPartKeepsFetch == FetchInv /\ HearPart => FetchInv'
<1> SUFFICES ASSUME FetchInv, HearPart
             PROVE  FetchInv'
  OBVIOUS
<1>1. /\ link = "ready" /\ air # <<>> /\ Head(air).part \in {"head", "rest"} /\ air' = Tail(air)
      /\ UNCHANGED <<link, posted, session, iphone, answer>>
  BY DEF HearPart, phoneVars
<1>2. CASE ~core.active
  BY <1>2, PartHeardIdle
<1>3. CASE core.active
  <2>1. PICK buf : buf = Append(core.buf, Head(air))
    OBVIOUS
  <2>2. PICK verdict \in Verdicts(buf) :
           IF verdict = "incomplete"
           THEN /\ core' = [core EXCEPT !.buf = buf]
                /\ UNCHANGED <<cp, call, since, changes, told, spoiled>>
           ELSE /\ core' = Ended(core).core
                /\ Write(Ended(core).asks)
                /\ IF verdict = "complete" /\ Category(core, buf[1].uid, "other") = "call" THEN Ring(buf[1].uid)
                   ELSE UNCHANGED <<call, since>>
                /\ Mishap(FALSE)
                /\ Tell(IF verdict = "complete" THEN [told EXCEPT ![buf[1].uid] = buf[1].version] ELSE told)
    BY <1>3, <2>1 DEF HearPart
  <2>3. CASE verdict = "incomplete"
    BY <1>1, <1>3, <2>1, <2>2, <2>3, PartHeardIncomplete
  <2>4. CASE verdict # "incomplete"
    BY <1>1, <1>3, <2>1, <2>2, <2>4, PartHeardLast
  <2> QED  BY <2>3, <2>4
<1> QED  BY <1>2, <1>3

LEMMA StillFetch == FetchInv /\ UNCHANGED fetchVars => FetchInv'
<1> SUFFICES ASSUME FetchInv, UNCHANGED fetchVars
             PROVE  FetchInv'
  OBVIOUS
<1>1. UNCHANGED <<link, iphone, changes, posted, air, answer, cp, core, call, session, told, since, spoiled>>
  BY DEF fetchVars
<1>2. FetchTypeOK' /\ LinkInv' /\ NumberedInv'
  BY <1>1 DEF FetchInv, FetchTypeOK, LinkInv, NumberedInv, Used
<1>3. TrackedInv' /\ CallInv'
  <2>1. TrackedInv'
    BY <1>1 DEF FetchInv, TrackedInv, Used
  <2>2. CallInv'
    BY <1>1 DEF FetchInv, CallInv
  <2> QED  BY <2>1, <2>2
<1>4. PipeInv'
  <2>1. NoParts <=> NoParts'
    BY <1>1 DEF NoParts
  <2>2. ASSUME NEW w
        PROVE  /\ Asking(w) => Asking(w)'
               /\ Unanswered(w) => Unanswered(w)'
               /\ \A v : Answering(w, v) => Answering(w, v)'
    BY <1>1, <2>1 DEF Asking, Unanswered, Answering
  <2>3. CASE core.active
    <3>1. PICK w : w = core.uid
      OBVIOUS
    <3>2. link = "ready" /\ ~spoiled =>
            /\ w \in Uid /\ \E c \in Cat : Known(iphone, air, 0, w, c)
            /\ Asking(w)' \/ Unanswered(w)' \/ \E v \in Nat : Answering(w, v)'
      BY <2>2, <2>3, <3>1 DEF FetchInv, PipeInv
    <3> QED  BY <1>1, <2>3, <3>1, <3>2 DEF PipeInv
  <2>4. CASE ~core.active
    BY <1>1, <2>1, <2>4 DEF FetchInv, PipeInv, Pending, Used
  <2> QED  BY <2>3, <2>4
<1>5. ReportInv'
  BY <1>1 DEF FetchInv, ReportInv, Present, Coming, Asking, Answering, NoParts, PartPlaces, OnItsWay,
              Pending, Used
<1> QED  BY <1>2, <1>3, <1>4, <1>5 DEF FetchInv

\* Every step of the iPhone, the link and the terminal.
LEMMA FetchGoesOn == FetchInv /\ [FetchNext]_fetchVars => FetchInv'
<1> SUFFICES ASSUME FetchInv, [FetchNext]_fetchVars
             PROVE  FetchInv'
  OBVIOUS
<1>1. FetchTypeOK /\ LinkInv /\ NumberedInv
  BY DEF FetchInv
<1>2. CASE Phone
  <2>1. CASE \E u \in Uid : Modify(u) \/ Withdraw(u)
    BY <2>1, ModifyKeepsFetch, WithdrawKeepsFetch
  <2> QED  BY <1>2, <2>1, PostKeepsFetch, TakeRequestKeepsFetch, SendPartKeepsFetch DEF Phone
<1>3. CASE ConnectApple
  BY <1>1, <1>3, ForgottenKeepsFetch DEF ConnectApple, callVars
<1>4. CASE Republish
  BY <1>1, <1>4, ForgottenKeepsFetch DEF Republish, callVars
<1>5. CASE Lose
  BY <1>1, <1>5, ForgottenKeepsFetch DEF Lose, callVars
<1>6. CASE Hear
  BY <1>6, HearAnnouncedKeepsFetch, HearRemovedKeepsFetch, HearPartKeepsFetch DEF Hear
<1> QED  BY <1>2, <1>3, <1>4, <1>5, <1>6, SubscribeKeepsFetch, StillFetch DEF FetchNext, Link

\* FetchInv is kept by the iPhone, the link and ancs_core's handlers.
THEOREM FetchHolds == FetchInit /\ [][FetchNext]_fetchVars => []FetchInv
<1>1. FetchInit => FetchInv
  BY FetchStarts
<1>2. FetchInv /\ [FetchNext]_fetchVars => FetchInv'
  BY FetchGoesOn
<1> QED  BY <1>1, <1>2, PTL

\* Only a withdrawal on its way, or the phone itself, keeps a call known.
LEMMA KnownCallIsReal == FetchInv => CallIsReal
<1> SUFFICES ASSUME FetchInv, link = "ready", call.live, since = session
             PROVE  \/ call.uid \in Calls
                    \/ \E i \in DOMAIN air : air[i].part = "removed" /\ air[i].uid = call.uid
  BY DEF CallIsReal
<1>1. call.uid \in Uid /\ Known(iphone, air, 0, call.uid, "call")
  BY DEF FetchInv, CallInv
<1>2. CASE Leaving(air, 0, call.uid, "call")
  <2>1. PICK j \in DOMAIN air : air[j] = [part |-> "removed", uid |-> call.uid, cat |-> "call"]
    BY <1>2 DEF Leaving
  <2>2. air[j].part = "removed" /\ air[j].uid = call.uid
    BY <2>1
  <2> QED  BY <2>2
<1> QED  BY <1>1, <1>2 DEF Known, Calls, Present

\* handle_call: a call that a notification of this session started is on the
\* phone, or its removal is on the way, however late an answer comes and
\* whichever request it is taken for.
THEOREM CallsAreReal == FetchInit /\ [][FetchNext]_fetchVars => []CallIsReal
<1>1. FetchInv => CallIsReal
  BY KnownCallIsReal
<1> QED  BY <1>1, FetchHolds, PTL

\* With nothing on its way no fetch can be: its request or a part of its answer would be.
LEMMA QuietIsIdle ==
    ASSUME FetchInv, Quiet, ~spoiled
    PROVE  ~core.active
<1> SUFFICES ASSUME core.active
             PROVE  FALSE
  OBVIOUS
<1>1. /\ PipeInv /\ link = "ready" /\ air = <<>> /\ answer = <<>> /\ cp = <<>> /\ DOMAIN air = {}
  BY NothingRead DEF FetchInv, Quiet
<1>2. CASE Asking(core.uid)
  BY <1>1, <1>2 DEF Asking
<1>3. CASE Unanswered(core.uid)
  <2>1. PICK c \in Cat : core.uid \in Uid /\ Known(iphone, air, 0, core.uid, c)
    BY <1>1 DEF PipeInv
  <2> QED  BY <1>1, <1>3, <2>1 DEF Unanswered, Known, Leaving
<1>4. CASE \E v \in Nat : Answering(core.uid, v)
  <2>1. PICK v \in Nat : OnItsWay(core.buf, air, answer, core.uid, v)
    BY <1>4 DEF Answering
  <2> QED  BY <1>1, <2>1, OneOrTwo DEF OnItsWay
<1> QED  BY <1>1, <1>2, <1>3, <1>4 DEF PipeInv

\* With no fetch and nothing announced, all that is left is to have been told.
LEMMA QuietIsUpToDate == FetchInv => UpToDate
<1> SUFFICES ASSUME FetchInv, Quiet, ~spoiled, NEW u \in Present
             PROVE  told[u] = iphone[u].version
  BY DEF UpToDate
<1>1. ~core.active
  BY QuietIsIdle
<1>2. Coming(u) /\ DOMAIN air = {}
  BY NothingRead DEF FetchInv, ReportInv, Quiet
<1> QED  BY <1>1, <1>2 DEF Coming

\* ancs_core: once the link is quiet, and unless one of the mishaps has come
\* in between, what it reported of every notification on the phone is its
\* present text: claim_tracked, pump_pending and the one request in flight
\* put nobody off for good.
THEOREM ReportsAreUpToDate == FetchInit /\ [][FetchNext]_fetchVars => []UpToDate
<1>1. FetchInv => UpToDate
  BY QuietIsUpToDate
<1> QED  BY <1>1, FetchHolds, PTL
=============================================================================
