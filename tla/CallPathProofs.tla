--------------------------- MODULE CallPathProofs ---------------------------
(****************************************************************************)
(* Proofs about CallPath for any number of calls, links, notifications and  *)
(* taps, and any queue.                                                     *)
(****************************************************************************)
EXTENDS CallPath, TLAPS

Event == [type : {"ring", "active", "clear"}, id : Nat]
TapOn == [phone : {"none", "android", "iphone"}, id : Nat]
Page == [phase : {"none", "ringing", "active"}, id : Nat, age : 0 .. Timeout]
Bridge == [live : BOOLEAN, uid : Nat, alarm : 0 .. Period + 1]

\* What the variables range over; a page that is down holds nothing.
CallTypeOK ==
    /\ link \in {"none", "android", "iphone"}
    /\ loop \in {"idle", "due", "send"}
    /\ nextId \in Nat \ {0} /\ uids \in Nat /\ beat \in 0 .. Period
    /\ relay \in {None} \cup [key : Key, id : Nat, active : BOOLEAN]
    /\ out \in {None} \cup Event
    /\ queue \in Seq(Event)
    /\ bridge \in Bridge
    /\ page \in Page /\ (page.phase = "none" => page = NoPage)
    /\ taps \in Seq(TapOn) /\ accepts \subseteq TapOn
    /\ owned \in BOOLEAN

\* A tap is on the phone connected: a page goes, and its taps with it, before
\* another phone connects.
TapInv ==
    /\ link # "none" => \A i \in DOMAIN taps : taps[i].phone = link
    /\ page = NoPage /\ loop # "due" => taps = <<>>
    /\ \A tap \in accepts : tap.phone = "android"
    /\ ~wrong

\* What a phone has numbered.
NumberInv ==
    /\ iphone \subseteq 1 .. uids /\ (iphone # {} => link = "iphone")
    /\ relay # None => relay.id \in 1 .. nextId - 1
    /\ relay # None /\ out # None => out.type # "clear" /\ out.id = relay.id
    /\ owned => /\ page.phase # "none"
                /\ link = "android" => page.id < nextId
                /\ link = "iphone" => page.id <= uids

\* The refresh of a call is looked at in every round.
AlarmInv == bridge.live /\ bridge.alarm <= 1 => queue # <<>> \/ loop = "due"

\* Ticks until the call on the page is refreshed.
DueIn ==
    CASE link = "android" -> IF out # None THEN 0 ELSE beat
      [] link = "iphone" -> IF loop = "send" THEN 0
                            ELSE IF bridge.alarm = 0 THEN Period ELSE bridge.alarm - 1
      [] link = "none" -> 0

\* Events that leave the page with an age of zero.
Renews(event) == event.type = "ring" \/ (event.type = "active" /\ event.id = page.id)

\* A page that has its call is refreshed by the Period: the refresh is queued, or
\* due in time; and once the page has aged, all that is queued renews it or puts
\* up another.
RefreshInv ==
    owned /\ OnPhone(page.id) =>
        /\ (\E i \in DOMAIN queue : Renews(queue[i])) \/ page.age + DueIn <= Period
        /\ page.age = 0 \/ \A i \in DOMAIN queue : Renews(queue[i])

CallInv == CallTypeOK /\ TapInv /\ NumberInv /\ AlarmInv /\ RefreshInv

-----------------------------------------------------------------------------
(* The page and the queue.                                                  *)

LEMMA CallConstants ==
    /\ QueueLen \in Nat \ {0} /\ None \notin Event
    /\ Period = 2 /\ Timeout = 5 /\ NoPage \in Page
    /\ NoPage.phase = "none" /\ NoPage.id = 0 /\ NoPage.age = 0
  BY CallAssumption DEF Event, Period, Timeout, NoPage, Page

LEMMA ApplyFacts ==
    ASSUME NEW p \in Page, p.phase = "none" => p = NoPage, NEW event \in Event
    PROVE  /\ Apply(p, event) \in Page
           /\ Apply(p, event).phase = "none" => Apply(p, event) = NoPage
           /\ Apply(p, event) = p \/ Apply(p, event).age = 0
           /\ event.type = "ring" => Apply(p, event).age = 0
           /\ p.phase # "none" /\ event.type = "active" /\ event.id = p.id => Apply(p, event).age = 0
  <1> DEFINE Up(phase) == [phase |-> phase, id |-> event.id, age |-> 0]
             same == p.phase # "none" /\ p.id = event.id
  <1>1. /\ Up("ringing") \in Page /\ Up("active") \in Page
        /\ Up("ringing").phase # "none" /\ Up("active").phase # "none"
        /\ Up("ringing").age = 0 /\ Up("active").age = 0
    BY CallConstants DEF Page, Event
  <1>2. CASE event.type = "clear"
    <2>1. Apply(p, event) = IF same THEN NoPage ELSE p
      BY <1>2 DEF Apply
    <2>2. QED
      BY <1>2, <2>1, CallConstants
  <1>3. CASE event.type = "active"
    <2>1. Apply(p, event) = IF same THEN Up("active") ELSE p
      BY <1>3 DEF Apply
    <2>2. QED
      BY <1>1, <1>3, <2>1
  <1>4. CASE event.type = "ring"
    <2>1. Apply(p, event) = Up(IF same THEN p.phase ELSE "ringing")
      BY <1>4 DEF Apply
    <2>2. p.phase \in {"none", "ringing", "active"}
      BY DEF Page
    <2>3. Apply(p, event) = Up("ringing") \/ Apply(p, event) = Up("active")
      BY <2>1, <2>2
    <2>4. QED
      BY <1>1, <1>4, <2>3
  <1>5. QED
    BY <1>2, <1>3, <1>4 DEF Event

LEMMA OlderFacts ==
    ASSUME NEW p \in Page, p.phase = "none" => p = NoPage
    PROVE  /\ Older(p) \in Page /\ (Older(p).phase = "none" => Older(p) = NoPage)
           /\ Older(p).phase = p.phase /\ Older(p).id = p.id
           /\ Older(p).age = p.age \/ Older(p).age = p.age + 1
  <1>1. /\ p = [phase |-> p.phase, id |-> p.id, age |-> p.age]
        /\ p.phase \in {"none", "ringing", "active"} /\ p.id \in Nat /\ p.age \in 0 .. 5
    BY CallConstants DEF Page
  <1>2. CASE p.phase # "none" /\ p.age < Timeout
    <2>1. Older(p) = [phase |-> p.phase, id |-> p.id, age |-> p.age + 1]
      BY <1>1, <1>2 DEF Older
    <2>2. p.age + 1 \in 0 .. 5
      BY <1>1, <1>2, CallConstants
    <2>3. QED
      BY <1>1, <1>2, <2>1, <2>2, CallConstants DEF Page
  <1>3. CASE ~(p.phase # "none" /\ p.age < Timeout)
    BY <1>3 DEF Older
  <1>4. QED
    BY <1>2, <1>3

LEMMA SendFacts ==
    ASSUME CallTypeOK, NEW event \in Event, Send(event)
    PROVE  /\ queue' \in Seq(Event) /\ queue' # <<>>
           /\ \A i \in DOMAIN queue : i \in DOMAIN queue' /\ queue'[i] = queue[i]
           /\ \A i \in DOMAIN queue' : (i \in DOMAIN queue /\ queue'[i] = queue[i]) \/ queue'[i] = event
           /\ (\E i \in DOMAIN queue' : queue'[i] = event) \/ (queue' = queue /\ 1 \in DOMAIN queue)
  <1>1. queue \in Seq(Event)
    BY DEF CallTypeOK
  <1>2. CASE Len(queue) < QueueLen
    <2>1. queue' = Append(queue, event)
      BY <1>2 DEF Send
    <2>2. /\ queue' \in Seq(Event) /\ DOMAIN queue' = 1 .. Len(queue) + 1 /\ Len(queue) \in Nat
          /\ queue'[Len(queue) + 1] = event /\ \A i \in 1 .. Len(queue) : queue'[i] = queue[i]
      BY <1>1, <2>1
    <2>3. DOMAIN queue = 1 .. Len(queue) /\ Len(queue) + 1 \in DOMAIN queue'
      BY <1>1, <2>2
    <2>4. queue' # <<>>
      BY <2>3
    <2>5. QED
      BY <2>2, <2>3, <2>4
  <1>3. CASE ~(Len(queue) < QueueLen)
    BY <1>1, <1>3, CallConstants DEF Send
  <1>4. QED
    BY <1>2, <1>3

\* DueIn, for either phone.
DueOK ==
    /\ DueIn \in 0 .. 2
    /\ page.age \in 0 .. 5 /\ page.id \in Nat
    /\ link = "android" => DueIn = IF out # None THEN 0 ELSE beat
    /\ link = "iphone" => DueIn = IF loop = "send" THEN 0
                                  ELSE IF bridge.alarm = 0 THEN 2 ELSE bridge.alarm - 1

LEMMA DueFacts == CallTypeOK => DueOK
  BY CallConstants DEF CallTypeOK, DueIn, DueOK, Page, Bridge

LEMMA DueFactsNext == CallTypeOK' => DueOK'
  BY DueFacts, PTL

\* A page that has just been refreshed is in time.
LEMMA FreshIsInTime == CallTypeOK /\ page.age = 0 => RefreshInv
  BY DueFacts, CallConstants DEF RefreshInv, DueOK

\* A refresh of the page's call that comes in is queued, or queued already.
LEMMA SentRenews ==
    ASSUME CallTypeOK, CallTypeOK', RefreshInv, NEW event \in Event, Send(event),
           UNCHANGED <<page, owned>>,
           owned /\ OnPhone(page.id)' => OnPhone(page.id) /\ Renews(event)
    PROVE  RefreshInv'
  <1>1. SUFFICES ASSUME owned, OnPhone(page.id)', page.age # 0
                 PROVE  /\ \E i \in DOMAIN queue' : Renews(queue'[i])
                        /\ \A i \in DOMAIN queue' : Renews(queue'[i])
    <2>1. CASE page.age = 0
      <3>1. page'.age = 0
        BY <2>1
      <3>2. (CallTypeOK /\ page.age = 0 => RefreshInv)'
        BY FreshIsInTime, PTL
      <3>3. QED
        BY <3>1, <3>2
    <2>2. QED
      BY <2>1 DEF RefreshInv, Renews
  <1>2. Renews(event) /\ \A i \in DOMAIN queue : Renews(queue[i])
    BY <1>1 DEF RefreshInv
  <1>3. QED
    BY <1>2, SendFacts

-----------------------------------------------------------------------------
(* The steps.                                                               *)

\* What CallRelay's steps do to the call it follows and to what waits to be sent.
LEMMA RelayFacts ==
    ASSUME CallTypeOK, NumberInv, NEW k \in Key,
           PostIncoming(k) \/ PostOngoing(k) \/ Withdraw(k) \/ Resend
    PROVE  /\ UNCHANGED <<link, iphone, uids, bridge, queue, page, loop, taps, accepts, wrong, owned>>
           /\ nextId' \in Nat \ {0} /\ nextId <= nextId' /\ beat' \in 0 .. Period
           /\ relay' \in {None} \cup [key : Key, id : Nat, active : BOOLEAN]
           /\ out' \in {None} \cup Event
           /\ relay' # None => /\ relay'.id \in 1 .. nextId' - 1
                               /\ out' # None => out'.type # "clear" /\ out'.id = relay'.id
           /\ relay' # None => /\ relay'.id = nextId \/ (relay # None /\ relay.id = relay'.id)
                               /\ out' # None \/ UNCHANGED <<out, beat>>
  <1>1. UNCHANGED <<link, iphone, uids, bridge, queue, page, loop, taps, accepts, wrong, owned>>
    BY DEF PostIncoming, PostOngoing, Withdraw, Resend, taskVars, answerVars
  <1>2. /\ nextId \in Nat \ {0} /\ beat \in 0 .. 2
        /\ relay \in {None} \cup [key : Key, id : Nat, active : BOOLEAN] /\ out \in {None} \cup Event
        /\ relay # None => relay.id \in 1 .. nextId - 1
        /\ relay # None /\ out # None => out.type # "clear" /\ out.id = relay.id
    BY CallConstants DEF CallTypeOK, NumberInv
  <1>3. ASSUME NEW r \in [key : Key, id : Nat, active : BOOLEAN], Relay(r)
        PROVE  /\ relay' = r /\ beat' = 2 /\ out' \in Event /\ out'.type # "clear" /\ out'.id = r.id
               /\ out' # None
    <2>1. PICK type \in {"ring", "active"} : out' = [type |-> type, id |-> r.id]
      BY <1>3 DEF Relay, Offer
    <2>2. out' \in Event /\ out'.type # "clear" /\ out'.id = r.id
      BY <2>1 DEF Event
    <2>3. QED
      BY <1>3, <2>2, CallConstants DEF Relay
  <1>4. CASE PostIncoming(k)
    <2>1. PICK id \in Nat : /\ id = IF Follows(k) THEN relay.id ELSE nextId
                            /\ Relay([key |-> k, id |-> id, active |-> FALSE])
                            /\ nextId' = IF Follows(k) THEN nextId ELSE nextId + 1
      BY <1>2, <1>4 DEF PostIncoming, Follows
    <2>2. [key |-> k, id |-> id, active |-> FALSE] \in [key : Key, id : Nat, active : BOOLEAN]
      OBVIOUS
    <2>3. /\ relay' = [key |-> k, id |-> id, active |-> FALSE] /\ beat' = 2
          /\ out' \in Event /\ out'.type # "clear" /\ out'.id = id /\ out' # None
      BY <1>3, <2>1, <2>2
    <2>4. CASE Follows(k)
      BY <1>1, <1>2, <2>1, <2>2, <2>3, <2>4, CallConstants DEF Follows
    <2>5. CASE ~Follows(k)
      BY <1>1, <1>2, <2>1, <2>2, <2>3, <2>5, CallConstants
    <2>6. QED
      BY <2>4, <2>5
  <1>5. CASE PostOngoing(k)
    <2>1. CASE Follows(k)
      <3>1. /\ relay # None /\ relay \in [key : Key, id : Nat, active : BOOLEAN]
            /\ Answered(relay) \in [key : Key, id : Nat, active : BOOLEAN] /\ Answered(relay).id = relay.id
        BY <1>2, <2>1 DEF Follows, Answered
      <3>2. Relay(Answered(relay)) /\ nextId' = nextId
        BY <1>5, <2>1 DEF PostOngoing
      <3>3. /\ relay' = Answered(relay) /\ beat' = 2
            /\ out' \in Event /\ out'.type # "clear" /\ out'.id = relay.id /\ out' # None
        BY <1>3, <3>1, <3>2
      <3>4. QED
        BY <1>1, <1>2, <3>1, <3>2, <3>3, CallConstants
    <2>2. CASE ~Follows(k)
      <3>1. UNCHANGED <<relay, out, beat, nextId>>
        BY <1>5, <2>2 DEF PostOngoing
      <3>2. QED
        BY <1>1, <1>2, <3>1, CallConstants
    <2>3. QED
      BY <2>1, <2>2
  <1>6. CASE Withdraw(k)
    <2>1. CASE Follows(k)
      <3>1. /\ relay' = None /\ beat' = 0 /\ nextId' = nextId
            /\ out' = [type |-> "clear", id |-> relay.id] /\ relay # None
        BY <1>6, <2>1 DEF Withdraw, Offer, Follows
      <3>2. out' \in Event
        BY <1>2, <3>1 DEF Event
      <3>3. QED
        BY <1>1, <1>2, <3>1, <3>2, CallConstants
    <2>2. CASE ~Follows(k)
      <3>1. UNCHANGED <<relay, out, beat, nextId>>
        BY <1>6, <2>2 DEF Withdraw
      <3>2. QED
        BY <1>1, <1>2, <3>1, CallConstants
    <2>3. QED
      BY <2>1, <2>2
  <1>7. CASE Resend
    <2>1. relay # None /\ Relay(relay) /\ nextId' = nextId
      BY <1>7 DEF Resend
    <2>2. relay \in [key : Key, id : Nat, active : BOOLEAN]
      BY <1>2, <2>1
    <2>3. /\ relay' = relay /\ beat' = 2
          /\ out' \in Event /\ out'.type # "clear" /\ out'.id = relay.id /\ out' # None
      BY <1>3, <2>1, <2>2
    <2>4. QED
      BY <1>1, <1>2, <2>1, <2>2, <2>3, CallConstants
  <1>8. QED
    BY <1>4, <1>5, <1>6, <1>7

LEMMA RelayKeeps ==
    ASSUME CallInv, NEW k \in Key, PostIncoming(k) \/ PostOngoing(k) \/ Withdraw(k) \/ Resend
    PROVE  CallInv'
  <1>1. CallTypeOK /\ TapInv /\ NumberInv /\ AlarmInv /\ RefreshInv
    BY DEF CallInv
  <1>2. /\ UNCHANGED <<link, iphone, uids, bridge, queue, page, loop, taps, accepts, wrong, owned>>
        /\ nextId' \in Nat \ {0} /\ nextId <= nextId' /\ beat' \in 0 .. Period
        /\ relay' \in {None} \cup [key : Key, id : Nat, active : BOOLEAN]
        /\ out' \in {None} \cup Event
        /\ relay' # None => /\ relay'.id \in 1 .. nextId' - 1
                            /\ out' # None => out'.type # "clear" /\ out'.id = relay'.id
        /\ relay' # None => /\ relay'.id = nextId \/ (relay # None /\ relay.id = relay'.id)
                            /\ out' # None \/ UNCHANGED <<out, beat>>
    BY <1>1, RelayFacts
  <1>3. CallTypeOK'
    BY <1>1, <1>2 DEF CallTypeOK
  <1>4. TapInv' /\ AlarmInv'
    BY <1>1, <1>2 DEF TapInv, AlarmInv
  <1>5. NumberInv'
    <2>1. owned' => /\ page'.phase # "none"
                    /\ link' = "android" => page'.id < nextId'
                    /\ link' = "iphone" => page'.id <= uids'
      <3>1. page.id \in Nat /\ nextId \in Nat /\ nextId' \in Nat
        BY <1>1, <1>2 DEF CallTypeOK, Page
      <3>2. QED
        BY <1>1, <1>2, <3>1 DEF NumberInv
    <2>2. QED
      BY <1>1, <1>2, <2>1 DEF NumberInv
  <1>6. RefreshInv'
    <2>0. DueOK /\ DueOK'
      BY <1>1, <1>3, DueFacts, DueFactsNext
    <2>1. ASSUME owned, OnPhone(page.id)'
          PROVE  OnPhone(page.id) /\ DueIn' <= DueIn
      <3>1. CASE link = "iphone"
        BY <1>2, <2>0, <2>1, <3>1 DEF OnPhone, DueOK
      <3>2. CASE link = "android"
        <4>1. relay' # None /\ relay'.id = page.id
          BY <1>2, <2>1, <3>2 DEF OnPhone
        <4>2. page.id < nextId /\ page.id \in Nat /\ nextId \in Nat
          BY <1>1, <2>1, <3>2 DEF NumberInv, CallTypeOK, Page
        <4>3. relay # None /\ relay.id = page.id
          BY <1>2, <4>1, <4>2
        <4>4. /\ DueIn = (IF out # None THEN 0 ELSE beat) /\ DueIn \in 0 .. 2
              /\ DueIn' = (IF out' # None THEN 0 ELSE beat') /\ DueIn' \in 0 .. 2
          BY <1>2, <2>0, <3>2 DEF DueOK
        <4>5. DueIn' <= DueIn
          <5>1. DueIn \in Nat /\ beat' \in Nat
            BY <1>2, <4>4, CallConstants
          <5>2. CASE out' # None
            BY <4>4, <5>1, <5>2
          <5>3. CASE UNCHANGED <<out, beat>>
            BY <4>4, <5>1, <5>3
          <5>4. QED
            BY <1>2, <4>1, <5>2, <5>3
        <4>6. QED
          BY <3>2, <4>3, <4>5 DEF OnPhone
      <3>3. QED
        BY <1>2, <2>1, <3>1, <3>2 DEF OnPhone
    <2>2. ASSUME owned, OnPhone(page.id)'
          PROVE  /\ (\E i \in DOMAIN queue : Renews(queue[i])) \/ page.age + DueIn' <= Period
                 /\ page.age = 0 \/ \A i \in DOMAIN queue : Renews(queue[i])
      BY <1>1, <2>0, <2>1, <2>2, CallConstants DEF RefreshInv, DueOK
    <2>3. QED
      BY <1>2, <2>2 DEF RefreshInv, Renews
  <1>7. QED
    BY <1>3, <1>4, <1>5, <1>6 DEF CallInv

\* An event comes in from the phone's side of the link, or a removal.
LEMMA ReceiveKeeps == CallInv /\ Receive => CallInv'
  <1>1. SUFFICES ASSUME CallInv, Receive PROVE CallInv'
    OBVIOUS
  <1>2. CallTypeOK /\ TapInv /\ NumberInv /\ AlarmInv /\ RefreshInv
    BY <1>1 DEF CallInv
  <1>3. /\ UNCHANGED <<link, relay, nextId, beat, iphone, uids, bridge, page, loop, taps, accepts, wrong, owned>>
        /\ link = "android" /\ out # None /\ out' = None /\ Send(out)
    BY <1>1 DEF Receive, androidVars, taskVars, answerVars
  <1>4. out \in Event
    BY <1>2, <1>3 DEF CallTypeOK
  <1>5. queue' \in Seq(Event) /\ queue' # <<>>
    BY <1>2, <1>3, <1>4, SendFacts
  <1>6. CallTypeOK'
    BY <1>2, <1>3, <1>5 DEF CallTypeOK
  <1>7. TapInv' /\ NumberInv' /\ AlarmInv'
    BY <1>2, <1>3, <1>5 DEF TapInv, NumberInv, AlarmInv
  <1>8. OnPhone(page.id)' <=> OnPhone(page.id)
    BY <1>3 DEF OnPhone
  <1>9. owned /\ OnPhone(page.id) => Renews(out)
    BY <1>2, <1>3, <1>4 DEF NumberInv, OnPhone, Renews, Event
  <1>10. RefreshInv'
    BY <1>2, <1>3, <1>4, <1>6, <1>8, <1>9, SentRenews
  <1>11. QED
    BY <1>6, <1>7, <1>10 DEF CallInv

LEMMA RefreshKeeps == CallInv /\ Refresh => CallInv'
  <1> DEFINE event == [type |-> "ring", id |-> bridge.uid]
  <1>1. SUFFICES ASSUME CallInv, Refresh PROVE CallInv'
    OBVIOUS
  <1>2. CallTypeOK /\ TapInv /\ NumberInv /\ AlarmInv /\ RefreshInv
    BY <1>1 DEF CallInv
  <1>3. /\ UNCHANGED <<link, relay, nextId, beat, out, iphone, uids, bridge, page, taps, accepts, wrong, owned>>
        /\ loop = "send" /\ loop' = "idle" /\ Send(event)
    BY <1>1 DEF Refresh, phoneVars, androidVars, answerVars
  <1>4. event \in Event /\ event.type = "ring"
    BY <1>2 DEF CallTypeOK, Bridge, Event
  <1> HIDE DEF event
  <1>5. queue' \in Seq(Event) /\ queue' # <<>>
    BY <1>2, <1>3, <1>4, SendFacts
  <1>6. CallTypeOK'
    BY <1>2, <1>3, <1>5 DEF CallTypeOK
  <1>7. TapInv' /\ NumberInv' /\ AlarmInv'
    BY <1>2, <1>3, <1>5 DEF TapInv, NumberInv, AlarmInv
  <1>8. OnPhone(page.id)' <=> OnPhone(page.id)
    BY <1>3 DEF OnPhone
  <1>9. RefreshInv'
    BY <1>2, <1>3, <1>4, <1>6, <1>8, SentRenews DEF Renews
  <1>10. QED
    BY <1>6, <1>7, <1>9 DEF CallInv

LEMMA FetchedKeeps == CallInv /\ CallFetched => CallInv'
  <1> DEFINE u == uids + 1
             event == [type |-> "ring", id |-> u]
  <1>1. SUFFICES ASSUME CallInv, CallFetched PROVE CallInv'
    OBVIOUS
  <1>2. CallTypeOK /\ TapInv /\ NumberInv /\ AlarmInv /\ RefreshInv
    BY <1>1 DEF CallInv
  <1>3. /\ UNCHANGED <<link, relay, nextId, beat, out, page, loop, taps, accepts, wrong, owned>>
        /\ link = "iphone" /\ uids' = u /\ iphone' = iphone \cup {u}
        /\ bridge' = [live |-> TRUE, uid |-> u, alarm |-> 0] /\ Send(event)
    BY <1>1 DEF CallFetched, androidVars, taskVars, answerVars
  <1>4. uids \in Nat /\ u \in Nat /\ event \in Event /\ bridge' \in Bridge /\ u > uids
    BY <1>2, <1>3, CallConstants DEF CallTypeOK, Event, Bridge
  <1> HIDE DEF event
  <1>5. queue' \in Seq(Event) /\ queue' # <<>>
    BY <1>2, <1>3, <1>4, SendFacts
  <1>6. CallTypeOK'
    BY <1>2, <1>3, <1>4, <1>5 DEF CallTypeOK
  <1>7. page.id \in Nat /\ (owned => page.id <= uids)
    BY <1>2, <1>3 DEF CallTypeOK, Page, NumberInv
  <1>8. NumberInv'
    BY <1>2, <1>3, <1>4, <1>7 DEF NumberInv
  <1>9. TapInv' /\ AlarmInv'
    BY <1>2, <1>3, <1>5 DEF TapInv, AlarmInv
  <1>10. ~(owned /\ OnPhone(page.id)')
    BY <1>3, <1>4, <1>7 DEF OnPhone
  <1>11. RefreshInv'
    BY <1>3, <1>10 DEF RefreshInv
  <1>12. QED
    BY <1>6, <1>8, <1>9, <1>11 DEF CallInv

LEMMA RemovedKeeps ==
    ASSUME CallInv, NEW u \in Nat, CallRemoved(u)
    PROVE  CallInv'
  <1>1. CallTypeOK /\ TapInv /\ NumberInv /\ AlarmInv /\ RefreshInv
    BY DEF CallInv
  <1>2. /\ UNCHANGED <<link, relay, nextId, beat, out, uids, page, loop, taps, accepts, wrong, owned>>
        /\ u \in iphone /\ iphone' = iphone \ {u}
    BY DEF CallRemoved, androidVars, taskVars, answerVars
  <1>3. link = "iphone"
    BY <1>1, <1>2 DEF NumberInv
  <1>4. CASE bridge.live /\ bridge.uid = u
    <2>1. bridge' = [live |-> FALSE, uid |-> bridge.uid, alarm |-> 0] /\ Send([type |-> "clear", id |-> u])
      BY <1>1, <1>4 DEF CallRemoved, CallTypeOK, Bridge
    <2>2. bridge' \in Bridge /\ ~bridge'.live /\ [type |-> "clear", id |-> u] \in Event
      BY <1>1, <2>1, CallConstants DEF CallTypeOK, Bridge, Event
    <2>3. queue' \in Seq(Event)
      BY <1>1, <2>1, <2>2, SendFacts
    <2>4. CallTypeOK'
      BY <1>1, <1>2, <2>2, <2>3 DEF CallTypeOK
    <2>5. TapInv' /\ NumberInv' /\ AlarmInv'
      BY <1>1, <1>2, <2>2 DEF TapInv, NumberInv, AlarmInv
    <2>6. RefreshInv'
      BY <1>2, <1>3, <2>2 DEF RefreshInv, OnPhone
    <2>7. QED
      BY <2>4, <2>5, <2>6 DEF CallInv
  <1>5. CASE ~(bridge.live /\ bridge.uid = u)
    <2>1. UNCHANGED <<bridge, queue>>
      BY <1>5 DEF CallRemoved
    <2>2. CallTypeOK' /\ TapInv' /\ NumberInv' /\ AlarmInv'
      BY <1>1, <1>2, <2>1 DEF CallTypeOK, TapInv, NumberInv, AlarmInv
    <2>3. DueOK /\ DueOK'
      BY <1>1, <2>2, DueFacts, DueFactsNext
    <2>4. DueIn' = DueIn
      BY <1>2, <1>3, <2>1, <2>3 DEF DueOK
    <2>5. OnPhone(page.id)' => OnPhone(page.id)
      BY <1>2, <1>3, <2>1 DEF OnPhone
    <2>6. RefreshInv'
      BY <1>1, <1>2, <2>1, <2>4, <2>5 DEF RefreshInv, Renews
    <2>7. QED
      BY <2>2, <2>6 DEF CallInv
  <1>6. QED
    BY <1>4, <1>5

LEMMA LinkKeeps == CallInv /\ (Connect \/ Disconnect) => CallInv'
  <1>1. SUFFICES ASSUME CallInv, Connect \/ Disconnect PROVE CallInv'
    OBVIOUS
  <1>2. CallTypeOK /\ TapInv /\ NumberInv /\ AlarmInv /\ RefreshInv
    BY <1>1 DEF CallInv
  <1>3. UNCHANGED <<relay, nextId, beat, bridge, queue, page, loop, taps, wrong, owned>>
    BY <1>1 DEF Connect, Disconnect, phoneVars, androidVars, taskVars, answerVars
  <1>4. CASE Connect
    <2>1. /\ UNCHANGED <<out, iphone, uids, accepts>> /\ link' \in {"android", "iphone"}
          /\ link = "none" /\ page = NoPage /\ loop # "due"
      BY <1>4 DEF Connect, phoneVars, answerVars
    <2>2. taps = <<>> /\ ~owned /\ iphone = {}
      BY <1>2, <2>1, CallConstants DEF TapInv, NumberInv
    <2>3. CallTypeOK'
      BY <1>2, <1>3, <2>1 DEF CallTypeOK
    <2>4. TapInv' /\ NumberInv' /\ AlarmInv' /\ RefreshInv'
      BY <1>2, <1>3, <2>1, <2>2 DEF TapInv, NumberInv, AlarmInv, RefreshInv
    <2>5. QED
      BY <2>3, <2>4 DEF CallInv
  <1>5. CASE Disconnect
    <2>1. /\ link' = "none" /\ iphone' = {} /\ uids' = 0 /\ accepts' = {} /\ out' \in {out, None}
      BY <1>5 DEF Disconnect
    <2>2. CallTypeOK'
      BY <1>2, <1>3, <2>1 DEF CallTypeOK
    <2>3. TapInv' /\ NumberInv' /\ AlarmInv' /\ RefreshInv'
      BY <1>2, <1>3, <2>1 DEF TapInv, NumberInv, AlarmInv, RefreshInv, OnPhone
    <2>4. QED
      BY <2>2, <2>3 DEF CallInv
  <1>6. QED
    BY <1>1, <1>4, <1>5

LEMMA TapKeeps == CallInv /\ Tap => CallInv'
  <1> DEFINE tap == [phone |-> link, id |-> page.id]
  <1>1. SUFFICES ASSUME CallInv, Tap PROVE CallInv'
    OBVIOUS
  <1>2. CallTypeOK /\ TapInv /\ NumberInv /\ AlarmInv /\ RefreshInv
    BY <1>1 DEF CallInv
  <1>3. /\ UNCHANGED <<link, relay, nextId, beat, out, iphone, uids, bridge, queue, page, loop, accepts, wrong, owned>>
        /\ page.phase = "ringing" /\ taps' = Append(taps, tap)
    BY <1>1 DEF Tap, phoneVars, androidVars, answerVars
  <1>4. tap \in TapOn /\ tap.phone = link /\ taps \in Seq(TapOn)
    BY <1>2 DEF CallTypeOK, TapOn, Page
  <1> HIDE DEF tap
  <1>5. /\ taps' \in Seq(TapOn)
        /\ \A i \in DOMAIN taps' : (i \in DOMAIN taps /\ taps'[i] = taps[i]) \/ taps'[i] = tap
    BY <1>3, <1>4
  <1>6. CallTypeOK'
    BY <1>2, <1>3, <1>5 DEF CallTypeOK
  <1>7. TapInv'
    BY <1>2, <1>3, <1>4, <1>5, CallConstants DEF TapInv
  <1>8. NumberInv' /\ AlarmInv'
    BY <1>2, <1>3 DEF NumberInv, AlarmInv
  <1>9. RefreshInv'
    <2>1. DueIn' = DueIn /\ (OnPhone(page.id)' <=> OnPhone(page.id))
      BY <1>3 DEF DueIn, OnPhone
    <2>2. QED
      BY <1>2, <1>3, <2>1 DEF RefreshInv, Renews
  <1>10. QED
    BY <1>6, <1>7, <1>8, <1>9 DEF CallInv

\* CallRelay answers its own call, by the id the tap was for.
LEMMA AcceptKeeps ==
    ASSUME CallInv, NEW tap \in accepts, OnAccept(tap)
    PROVE  CallInv'
  <1>1. CallTypeOK /\ TapInv /\ NumberInv /\ AlarmInv /\ RefreshInv
    BY DEF CallInv
  <1>2. /\ UNCHANGED <<link, relay, nextId, beat, out, iphone, uids, bridge, queue, page, loop, taps, owned>>
        /\ accepts' = accepts \ {tap}
        /\ wrong' = (wrong \/ (Rings(tap.id) /\ tap # [phone |-> "android", id |-> relay.id]))
    BY DEF OnAccept, phoneVars, androidVars, taskVars
  <1>3. ~wrong'
    <2>1. tap = [phone |-> tap.phone, id |-> tap.id] /\ tap.phone = "android"
      BY <1>1 DEF CallTypeOK, TapInv, TapOn
    <2>2. QED
      BY <1>1, <1>2, <2>1 DEF TapInv, Rings
  <1>4. CallTypeOK' /\ TapInv' /\ NumberInv' /\ AlarmInv'
    BY <1>1, <1>2, <1>3 DEF CallTypeOK, TapInv, NumberInv, AlarmInv
  <1>5. RefreshInv'
    <2>1. DueIn' = DueIn /\ (OnPhone(page.id)' <=> OnPhone(page.id))
      BY <1>2 DEF DueIn, OnPhone
    <2>2. QED
      BY <1>1, <1>2, <2>1 DEF RefreshInv, Renews
  <1>6. QED
    BY <1>4, <1>5 DEF CallInv

\* An event that does not renew the page finds it just refreshed.
LEMMA DrainKeeps == CallInv /\ Drain => CallInv'
  <1>1. SUFFICES ASSUME CallInv, Drain PROVE CallInv'
    OBVIOUS
  <1>2. CallTypeOK /\ TapInv /\ NumberInv /\ AlarmInv /\ RefreshInv
    BY <1>1 DEF CallInv
  <1>3. /\ UNCHANGED <<link, relay, nextId, beat, out, iphone, uids, bridge, taps, accepts, wrong>>
        /\ queue # <<>> /\ page' = Apply(page, Head(queue)) /\ queue' = Tail(queue) /\ loop' = "due"
        /\ owned' = IF page'.age = 0 THEN OnPhone(page'.id) ELSE owned
    BY <1>1 DEF Drain, phoneVars, androidVars, answerVars
  <1>4. /\ page \in Page /\ (page.phase = "none" => page = NoPage) /\ queue \in Seq(Event)
    BY <1>2 DEF CallTypeOK
  <1>5. Head(queue) \in Event /\ queue' \in Seq(Event) /\ 1 \in DOMAIN queue /\ queue[1] = Head(queue)
    BY <1>3, <1>4
  <1>6. /\ page' \in Page /\ (page'.phase = "none" => page' = NoPage)
        /\ page' = page \/ page'.age = 0
        /\ page.phase # "none" /\ Renews(Head(queue)) => page'.age = 0
    BY <1>3, <1>4, <1>5, ApplyFacts DEF Renews
  <1>7. owned' \in BOOLEAN
    <2>1. owned \in BOOLEAN
      BY <1>2 DEF CallTypeOK
    <2>2. OnPhone(page'.id) \in BOOLEAN
      BY DEF OnPhone
    <2>3. CASE page'.age = 0
      <3>1. owned' = OnPhone(page'.id)
        BY <1>3, <2>3
      <3>2. QED
        BY <2>2, <3>1, Zenon
    <2>4. CASE page'.age # 0
      BY <1>3, <2>1, <2>4
    <2>5. QED
      BY <2>3, <2>4
  <1>8. CallTypeOK'
    BY <1>2, <1>3, <1>5, <1>6, <1>7 DEF CallTypeOK
  <1>9. TapInv' /\ AlarmInv'
    BY <1>2, <1>3 DEF TapInv, AlarmInv
  <1>10. owned' => /\ page'.phase # "none"
                   /\ link' = "android" => page'.id < nextId'
                   /\ link' = "iphone" => page'.id <= uids'
    <2>1. SUFFICES ASSUME owned'
                   PROVE  /\ page'.phase # "none"
                          /\ link = "android" => page'.id < nextId
                          /\ link = "iphone" => page'.id <= uids
      BY <1>3
    <2>2. CASE page'.age = 0
      <3>1. OnPhone(page'.id)
        BY <1>3, <2>1, <2>2
      <3>2. /\ page'.id # 0
            /\ link = "android" => page'.id \in 1 .. nextId - 1
            /\ link = "iphone" => page'.id \in 1 .. uids
        <4>1. /\ iphone \subseteq 1 .. uids /\ (relay # None => relay.id \in 1 .. nextId - 1)
              /\ nextId \in Nat /\ uids \in Nat
          BY <1>2 DEF NumberInv, CallTypeOK
        <4>2. \/ link = "iphone" /\ page'.id \in iphone
              \/ link = "android" /\ relay # None /\ relay.id = page'.id
          BY <3>1 DEF OnPhone
        <4>3. CASE link = "iphone"
          <5>1. page'.id \in 1 .. uids
            BY <4>1, <4>2, <4>3
          <5>2. QED
            BY <4>1, <4>3, <5>1
        <4>4. CASE link = "android"
          <5>1. page'.id \in 1 .. nextId - 1
            BY <4>1, <4>2, <4>4
          <5>2. QED
            BY <4>1, <4>4, <5>1
        <4>5. QED
          BY <4>2, <4>3, <4>4
      <3>3. nextId \in Nat /\ uids \in Nat
        BY <1>2 DEF CallTypeOK
      <3>4. QED
        BY <1>6, <3>2, <3>3, CallConstants
    <2>3. CASE page'.age # 0
      BY <1>2, <1>3, <1>6, <2>1, <2>3 DEF NumberInv
    <2>4. QED
      BY <2>2, <2>3
  <1>11. NumberInv'
    BY <1>2, <1>3, <1>10 DEF NumberInv
  <1>12. RefreshInv'
    <2>1. CASE page'.age = 0
      <3>1. (CallTypeOK /\ page.age = 0 => RefreshInv)'
        BY FreshIsInTime, PTL
      <3>2. QED
        BY <1>8, <2>1, <3>1
    <2>2. CASE page'.age # 0
      <3>1. page' = page /\ page.age # 0 /\ owned' = owned
        BY <1>3, <1>6, <2>2
      <3>2. OnPhone(page.id)' => OnPhone(page.id)
        BY <1>3, <3>1 DEF OnPhone
      <3>3. ~(owned' /\ OnPhone(page.id)')
        <4>1. SUFFICES ASSUME owned, OnPhone(page.id) PROVE FALSE
          BY <3>1, <3>2
        <4>2. page.phase # "none" /\ Renews(Head(queue))
          BY <1>2, <1>5, <3>1, <4>1 DEF RefreshInv, NumberInv
        <4>3. QED
          BY <1>6, <2>2, <4>2
      <3>4. QED
        BY <3>3 DEF RefreshInv
    <2>3. QED
      BY <2>1, <2>2
  <1>13. QED
    BY <1>8, <1>9, <1>11, <1>12 DEF CallInv

\* With nothing queued, a page that has its call is far from expiring.
LEMMA PageIsYoung ==
    ASSUME CallInv, owned, OnPhone(page.id), queue = <<>>
    PROVE  /\ page.age + DueIn <= 2 /\ page.age < Timeout /\ link # "none" /\ page # NoPage
           /\ Expire(page, link # "none") = page /\ Older(page) # NoPage
  <1>1. CallTypeOK /\ NumberInv /\ RefreshInv /\ DueOK
    BY DueFacts DEF CallInv
  <1>2. page.age + DueIn <= 2
    BY <1>1, CallConstants DEF RefreshInv
  <1>3. page.age < Timeout /\ page.phase # "none"
    BY <1>1, <1>2, CallConstants DEF DueOK, NumberInv
  <1>4. link # "none"
    BY DEF OnPhone
  <1>5. Older(page).phase # "none"
    BY <1>1, <1>3, OlderFacts DEF CallTypeOK
  <1>6. QED
    BY <1>2, <1>3, <1>4, <1>5, CallConstants DEF Expire

LEMMA LoopKeeps == CallInv /\ Loop => CallInv'
  <1>1. SUFFICES ASSUME CallInv, Loop PROVE CallInv'
    OBVIOUS
  <1>2. CallTypeOK /\ TapInv /\ NumberInv /\ AlarmInv /\ RefreshInv
    BY <1>1 DEF CallInv
  <1>3. /\ UNCHANGED <<link, relay, nextId, beat, out, iphone, uids, queue>>
        /\ queue = <<>> /\ loop \in {"idle", "due"} /\ taps' = <<>>
        /\ page' = Expire(page, link # "none")
        /\ accepts' = accepts \cup {tap \in Waiting : Notifies(tap)}
        /\ wrong' = (wrong \/ \E tap \in Waiting : Answers(tap) /\ tap # [phone |-> "iphone", id |-> bridge.uid])
        /\ loop' = IF bridge.live /\ bridge.alarm = 1 THEN "send" ELSE "idle"
        /\ owned' = (owned /\ page' # NoPage)
    BY <1>1 DEF Loop, phoneVars, androidVars
  <1>4. page' = page \/ page' = NoPage
    BY <1>3 DEF Expire
  <1>5. /\ bridge' \in Bridge /\ bridge'.live = bridge.live /\ bridge'.uid = bridge.uid
        /\ bridge.live => bridge'.alarm = IF bridge.alarm <= 1 THEN 3 ELSE bridge.alarm
    <2>1. /\ bridge = [live |-> bridge.live, uid |-> bridge.uid, alarm |-> bridge.alarm]
          /\ bridge.live \in BOOLEAN /\ bridge.uid \in Nat /\ bridge.alarm \in 0 .. 3
      BY <1>2, CallConstants DEF CallTypeOK, Bridge
    <2>2. Checked(bridge.alarm) = (IF bridge.alarm <= 1 THEN 3 ELSE bridge.alarm) /\ Checked(bridge.alarm) \in 0 .. 3
      BY <2>1, CallConstants DEF Checked
    <2>3. CASE bridge.live
      <3>1. bridge' = [live |-> bridge.live, uid |-> bridge.uid, alarm |-> Checked(bridge.alarm)]
        BY <1>1, <2>1, <2>3 DEF Loop
      <3>2. QED
        BY <2>1, <2>2, <3>1, CallConstants DEF Bridge
    <2>4. CASE ~bridge.live
      BY <1>1, <1>2, <2>4 DEF Loop, CallTypeOK
    <2>5. QED
      BY <2>3, <2>4
  <1>6. \A tap \in Waiting : tap \in TapOn /\ (link # "none" => tap.phone = link)
    BY <1>2 DEF Waiting, CallTypeOK, TapInv
  <1>7. /\ accepts' \subseteq TapOn /\ \A tap \in accepts' : tap.phone = "android"
    BY <1>2, <1>3, <1>6 DEF CallTypeOK, TapInv, Notifies
  <1>8. ~wrong'
    <2>1. ASSUME NEW tap \in Waiting, Answers(tap)
          PROVE  tap = [phone |-> "iphone", id |-> bridge.uid]
      <3>1. tap = [phone |-> tap.phone, id |-> tap.id]
        BY <1>6 DEF TapOn
      <3>2. tap.phone = "iphone" /\ tap.id = bridge.uid
        BY <1>6, <2>1 DEF Answers, Claims
      <3>3. QED
        BY <3>1, <3>2
    <2>2. QED
      BY <1>2, <1>3, <2>1 DEF TapInv
  <1>9. owned' \in BOOLEAN /\ (owned' => owned /\ page' = page)
    BY <1>2, <1>3, <1>4 DEF CallTypeOK
  <1>10. CallTypeOK'
    <2>1. page' \in Page /\ (page'.phase = "none" => page' = NoPage) /\ taps' \in Seq(TapOn)
      BY <1>2, <1>3, <1>4, CallConstants DEF CallTypeOK
    <2>2. loop' \in {"idle", "due", "send"}
      BY <1>3
    <2>3. QED
      BY <1>2, <1>3, <1>5, <1>7, <1>9, <2>1, <2>2 DEF CallTypeOK
  <1>11. TapInv'
    BY <1>3, <1>7, <1>8 DEF TapInv
  <1>12. NumberInv'
    BY <1>2, <1>3, <1>9 DEF NumberInv
  <1>13. AlarmInv'
    <2>1. bridge.live => bridge'.alarm > 1
      BY <1>2, <1>5, CallConstants DEF CallTypeOK, Bridge
    <2>2. bridge' \in Bridge
      BY <1>5
    <2>3. QED
      BY <1>5, <2>1, <2>2, CallConstants DEF AlarmInv, Bridge
  <1>14. RefreshInv'
    <2>1. SUFFICES ASSUME owned', OnPhone(page.id)'
                   PROVE  page'.age + DueIn' <= 2 /\ queue' = <<>>
      BY CallConstants DEF RefreshInv
    <2>2. owned /\ page' = page /\ OnPhone(page.id)
      BY <1>3, <1>5, <1>9, <2>1 DEF OnPhone
    <2>3. page.age + DueIn <= 2 /\ DueOK /\ DueOK'
      BY <1>1, <1>2, <1>3, <1>10, <2>2, PageIsYoung, DueFacts, DueFactsNext
    <2>4. CASE link = "android"
      BY <1>3, <2>2, <2>3, <2>4 DEF DueOK
    <2>5. CASE link = "iphone"
      <3>1. bridge.live /\ bridge.alarm \in 0 .. 3
        BY <1>2, <2>2, <2>5, CallConstants DEF OnPhone, CallTypeOK, Bridge
      <3>2. DueIn = IF bridge.alarm = 0 THEN 2 ELSE bridge.alarm - 1
        BY <1>3, <2>3, <2>5 DEF DueOK
      <3>3. DueIn' = IF bridge.alarm = 1 THEN 0 ELSE bridge'.alarm - 1
        BY <1>3, <1>5, <2>3, <2>5, <3>1 DEF DueOK
      <3>4. DueIn' = DueIn
        BY <1>5, <3>1, <3>2, <3>3
      <3>5. QED
        BY <1>3, <2>2, <2>3, <3>4
    <2>6. QED
      BY <2>2, <2>4, <2>5 DEF OnPhone
  <1>15. QED
    BY <1>10, <1>11, <1>12, <1>13, <1>14 DEF CallInv

LEMMA ElapseKeeps == CallInv /\ Elapse => CallInv'
  <1>1. SUFFICES ASSUME CallInv, Elapse PROVE CallInv'
    OBVIOUS
  <1>2. CallTypeOK /\ TapInv /\ NumberInv /\ AlarmInv /\ RefreshInv
    BY <1>1 DEF CallInv
  <1>3. /\ UNCHANGED <<link, relay, nextId, out, iphone, uids, queue, taps, accepts, wrong, owned>>
        /\ loop = "idle" /\ loop' = "due" /\ queue = <<>> /\ page' = Older(page)
        /\ relay # None => beat > 0
        /\ link = "android" => out = None
        /\ beat' = IF beat > 0 THEN beat - 1 ELSE beat
    BY <1>1 DEF Elapse, answerVars
  <1>4. /\ page' \in Page /\ (page'.phase = "none" => page' = NoPage)
        /\ page'.phase = page.phase /\ page'.id = page.id
        /\ page'.age = page.age \/ page'.age = page.age + 1
    BY <1>2, <1>3, OlderFacts DEF CallTypeOK
  <1>5. /\ bridge' \in Bridge /\ bridge'.live = bridge.live /\ bridge'.uid = bridge.uid
        /\ bridge.live => bridge.alarm > 1 /\ bridge'.alarm = bridge.alarm - 1
    <2>1. /\ bridge = [live |-> bridge.live, uid |-> bridge.uid, alarm |-> bridge.alarm]
          /\ bridge.live \in BOOLEAN /\ bridge.uid \in Nat /\ bridge.alarm \in 0 .. 3
      BY <1>2, CallConstants DEF CallTypeOK, Bridge
    <2>2. CASE bridge.live
      <3>1. bridge.alarm > 1
        BY <1>2, <1>3, <2>1, <2>2 DEF AlarmInv
      <3>2. bridge' = [live |-> bridge.live, uid |-> bridge.uid, alarm |-> bridge.alarm - 1]
        BY <1>1, <2>1, <2>2, <3>1 DEF Elapse
      <3>3. QED
        BY <2>1, <3>1, <3>2, CallConstants DEF Bridge
    <2>3. CASE ~bridge.live
      BY <1>1, <1>2, <2>3 DEF Elapse, CallTypeOK
    <2>4. QED
      BY <2>2, <2>3
  <1>6. beat \in 0 .. 2 /\ beat' \in 0 .. 2 /\ (beat > 0 => beat' = beat - 1)
    BY <1>2, <1>3, CallConstants DEF CallTypeOK
  <1>7. CallTypeOK'
    BY <1>2, <1>3, <1>4, <1>5, <1>6, CallConstants DEF CallTypeOK
  <1>8. TapInv' /\ NumberInv' /\ AlarmInv'
    BY <1>2, <1>3, <1>4 DEF TapInv, NumberInv, AlarmInv
  <1>9. RefreshInv'
    <2>1. SUFFICES ASSUME owned, OnPhone(page.id)'
                   PROVE  page'.age + DueIn' <= 2 /\ queue' = <<>>
      BY <1>3, CallConstants DEF RefreshInv
    <2>2. OnPhone(page.id)
      BY <1>3, <1>4, <1>5, <2>1 DEF OnPhone
    <2>3. page.age + DueIn <= 2 /\ DueOK /\ DueOK'
      BY <1>1, <1>2, <1>3, <1>7, <2>1, <2>2, PageIsYoung, DueFacts, DueFactsNext
    <2>4. DueIn' = DueIn - 1
      <3>1. CASE link = "android"
        <4>1. beat > 0 /\ out = None
          BY <1>3, <2>2, <3>1 DEF OnPhone
        <4>2. DueIn = beat /\ DueIn' = beat'
          BY <1>3, <2>3, <3>1, <4>1 DEF DueOK
        <4>3. QED
          BY <1>6, <4>1, <4>2
      <3>2. CASE link = "iphone"
        <4>1. bridge.live /\ bridge.alarm \in 0 .. 3 /\ bridge.alarm > 1 /\ bridge'.alarm = bridge.alarm - 1
          BY <1>2, <1>5, <2>2, <3>2, CallConstants DEF OnPhone, CallTypeOK, Bridge
        <4>2. DueIn = bridge.alarm - 1 /\ DueIn' = bridge'.alarm - 1
          BY <1>3, <2>3, <3>2, <4>1 DEF DueOK
        <4>3. QED
          BY <4>1, <4>2
      <3>3. QED
        BY <2>2, <3>1, <3>2 DEF OnPhone
    <2>5. QED
      BY <1>3, <1>4, <2>3, <2>4 DEF DueOK
  <1>10. QED
    BY <1>7, <1>8, <1>9 DEF CallInv

-----------------------------------------------------------------------------
(* The theorems.                                                            *)

LEMMA CallStarts == Init => CallInv
  <1>1. SUFFICES ASSUME Init PROVE CallInv
    OBVIOUS
  <1>2. /\ link = "none" /\ relay = None /\ nextId = 1 /\ beat = 0 /\ out = None
        /\ iphone = {} /\ uids = 0 /\ bridge = [live |-> FALSE, uid |-> 0, alarm |-> 0]
        /\ queue = <<>> /\ page = NoPage /\ loop = "idle"
        /\ taps = <<>> /\ accepts = {} /\ wrong = FALSE /\ owned = FALSE
    BY <1>1 DEF Init
  <1>3. CallTypeOK
    <2>1. bridge \in Bridge /\ beat \in 0 .. Period
      BY <1>2, CallConstants DEF Bridge
    <2>2. queue \in Seq(Event) /\ taps \in Seq(TapOn)
      BY <1>2
    <2>3. page \in Page /\ owned \in BOOLEAN /\ nextId \in Nat \ {0} /\ uids \in Nat
      <3>1. owned \in BOOLEAN
        BY <1>2, Zenon
      <3>2. page \in Page
        BY <1>2, CallConstants, Zenon
      <3>3. QED
        BY <1>2, <3>1, <3>2
    <2>4. page.phase = "none" => page = NoPage
      BY <1>2
    <2>5. /\ link \in {"none", "android", "iphone"} /\ loop \in {"idle", "due", "send"}
          /\ relay \in {None} /\ out \in {None} /\ accepts \subseteq TapOn
      BY <1>2
    <2>6. QED
      BY <2>1, <2>2, <2>3, <2>4, <2>5 DEF CallTypeOK
  <1>4. TapInv /\ NumberInv /\ AlarmInv /\ RefreshInv
    BY <1>2 DEF TapInv, NumberInv, AlarmInv, RefreshInv
  <1>5. QED
    BY <1>3, <1>4 DEF CallInv

LEMMA CallKeeps == CallInv /\ [Next]_vars => CallInv'
  <1>1. SUFFICES ASSUME CallInv, [Next]_vars PROVE CallInv'
    OBVIOUS
  <1>2. ASSUME NEW k \in Key, PostIncoming(k) \/ PostOngoing(k) \/ Withdraw(k)
        PROVE  CallInv'
    BY <1>1, <1>2, RelayKeeps
  <1>3. CASE Resend
    <2>1. CASE Key = {}
      <3>1. CallTypeOK /\ relay # None
        BY <1>1, <1>3 DEF CallInv, Resend
      <3>2. relay \in [key : Key, id : Nat, active : BOOLEAN]
        BY <3>1 DEF CallTypeOK
      <3>3. QED
        BY <2>1, <3>2
    <2>2. CASE Key # {}
      <3>1. PICK k \in Key : TRUE
        BY <2>2
      <3>2. QED
        BY <1>1, <1>3, <3>1, RelayKeeps
    <2>3. QED
      BY <2>1, <2>2
  <1>4. ASSUME NEW u \in Id, CallRemoved(u) PROVE CallInv'
    <2>1. u \in Nat
      BY CallAssumption DEF Id
    <2>2. QED
      BY <1>1, <1>4, <2>1, RemovedKeeps
  <1>5. ASSUME NEW tap \in accepts, OnAccept(tap) PROVE CallInv'
    BY <1>1, <1>5, AcceptKeeps
  <1>6. CASE UNCHANGED vars
    <2>1. UNCHANGED <<link, relay, nextId, beat, out, iphone, uids, bridge, queue, page, loop, taps, accepts, wrong, owned>>
      BY <1>6 DEF vars, phoneVars, androidVars, taskVars, answerVars
    <2>2. CallTypeOK' /\ TapInv' /\ NumberInv' /\ AlarmInv'
      BY <1>1, <2>1 DEF CallInv, CallTypeOK, TapInv, NumberInv, AlarmInv
    <2>3. DueIn' = DueIn /\ (OnPhone(page.id)' <=> OnPhone(page.id))
      BY <2>1 DEF DueIn, OnPhone
    <2>4. RefreshInv'
      BY <1>1, <2>1, <2>3 DEF CallInv, RefreshInv, Renews
    <2>5. QED
      BY <2>2, <2>4 DEF CallInv
  <1>7. QED
    BY <1>1, <1>2, <1>3, <1>4, <1>5, <1>6, ReceiveKeeps, FetchedKeeps, LinkKeeps, TapKeeps, DrainKeeps,
       LoopKeeps, RefreshKeeps, ElapseKeeps DEF Next, CountdownTask

\* Types, taps, numbers, alarms and the page's age hold in every state.
THEOREM CallInvariant == Spec => []CallInv
  BY CallStarts, CallKeeps, PTL DEF Spec

\* Neither ancs_bridge nor CallRelay answers a call the rider did not hold Accept
\* on, with taps queued across any calls and links.
THEOREM OnlyTappedAnswered == Spec => []AnswersTapped
  <1>1. CallInv => AnswersTapped
    BY DEF CallInv, TapInv, AnswersTapped
  <1>2. QED
    BY <1>1, CallInvariant, PTL

LEMMA OnlyTheTaskMovesPages ==
    Next /\ page' # page => Drain \/ Loop \/ Elapse
  BY DEF Next, CountdownTask, PostIncoming, PostOngoing, Withdraw, Resend, Receive, CallFetched,
         CallRemoved, Connect, Disconnect, Tap, OnAccept, Refresh, taskVars

LEMMA PageStays ==
    CallInv /\ [Next]_vars => ~(owned /\ OnPhone(page.id) /\ queue = <<>> /\ page' = NoPage)
  <1>1. SUFFICES ASSUME CallInv, [Next]_vars, owned, OnPhone(page.id), queue = <<>>, page' = NoPage
                 PROVE  FALSE
    OBVIOUS
  <1>2. /\ page # NoPage /\ Expire(page, link # "none") = page /\ Older(page) # NoPage
    BY <1>1, PageIsYoung
  <1>3. Drain \/ Loop \/ Elapse
    BY <1>1, <1>2, OnlyTheTaskMovesPages DEF vars, taskVars
  <1>4. QED
    BY <1>1, <1>2, <1>3 DEF Drain, Loop, Elapse

\* A page whose call is on the phone connected does not expire: countdown_task and
\* CallRelay refresh it in time, whatever call_event_queue drops.
THEOREM PagesAreKept == Spec => PageKept
  <1>1. CallInv /\ [Next]_vars =>
           [~(owned /\ OnPhone(page.id) /\ queue = <<>> /\ page' = NoPage)]_vars
    BY PageStays
  <1>2. QED
    BY <1>1, CallInvariant, PTL DEF Spec, PageKept
=============================================================================
