------------------------------ MODULE CallPath ------------------------------
(***************************************************************************)
(* An incoming call's way to the terminal's call page, from either kind of  *)
(* phone, and the rider's Accept back to it.                                *)
(*                                                                          *)
(* Android: CallRelay follows one call's notification and re-sends it every *)
(* 5 s; FragmentQueue keeps the newest event only; ble_link puts it on      *)
(* call_event_queue.  iPhone: ancs_bridge, told by ancs_core of calls and   *)
(* of their removal (AppleFetch), does the refreshing itself, from          *)
(* countdown_task, sharing its variables with the host task without a lock. *)
(* countdown_task keeps the page and routes the Accept.                     *)
(*                                                                          *)
(* A call event is its type and its id: the fragments of one are sent in a  *)
(* run (FragmentQueue), so an event arrives whole or, when the link goes or *)
(* a newer one supersedes it, not at all.                                   *)
(***************************************************************************)
EXTENDS Integers, Sequences, FiniteSets

CONSTANTS
    Key,         \* the Android call notifications
    MaxCalls,    \* bound: calls an Android phone numbers, and an iPhone on a link
    MaxLinks,    \* bound: connections
    QueueLen,    \* CALL_EVENT_QUEUE_LEN
    MaxTaps,     \* bound: holds on Accept not yet dealt with, at most CALL_ACCEPT_QUEUE_LEN
    None         \* no call, no event

ASSUME CallAssumption ==
    /\ MaxCalls \in Nat /\ MaxLinks \in Nat /\ MaxTaps \in Nat /\ QueueLen \in Nat \ {0}
    /\ None \notin [type : {"ring", "active", "clear"}, id : Nat]

Id == 1 .. MaxCalls
Events == [type : {"ring", "active", "clear"}, id : Id]

-----------------------------------------------------------------------------
(* call_state.c, as functions of the call page: its phase, the id of the    *)
(* call, and the age of its last refresh.  Time comes in ticks of 2.5 s: a   *)
(* refresh is due every second one (CALL_RING_REFRESH_MS, 5 s) and the page  *)
(* has expired (CALL_RING_TIMEOUT_MS, 12 s) by the fifth.  Caller, number    *)
(* and duration are left out, and so is what a page that is down still       *)
(* holds: nothing reads it.                                                  *)

Period  == 2
Timeout == 5

NoPage == [phase |-> "none", id |-> 0, age |-> 0]

\* call_state_apply: a CLEAR or an ACTIVE is for the call on the page or for
\* nothing, and a RING for that call leaves it answered if it was.
Apply(page, event) ==
    LET same == page.phase # "none" /\ page.id = event.id
        Up(phase) == [phase |-> phase, id |-> event.id, age |-> 0]
    IN  CASE event.type = "clear"  -> IF same THEN NoPage ELSE page
          [] event.type = "active" -> IF same THEN Up("active") ELSE page
          [] event.type = "ring"   -> Up(IF same THEN page.phase ELSE "ringing")

ExpireRefreshing(page, connected) == IF connected THEN [page EXCEPT !.age = 0] ELSE NoPage
ExpireSoon(page, connected) == IF connected /\ page.age < Period THEN page ELSE NoPage
\* call_state_tick.
Expire(page, connected) == IF connected /\ page.age < Timeout THEN page ELSE NoPage

\* One tick goes by.
Older(page) == IF page.phase # "none" /\ page.age < Timeout THEN [page EXCEPT !.age = @ + 1] ELSE page

-----------------------------------------------------------------------------
VARIABLES
    link,        \* the phone connected: "none", "android" or "iphone"
    links,       \* connections made so far
    android,     \* the state of each call notification: "gone", "incoming", "ongoing"
    relay,       \* CallRelay.ringing: [key, id, active]
    nextId,      \* CallRelay.nextCallId
    beat,        \* ticks until CallRelay's refresh runs
    out,         \* the call event FragmentQueue still has to send
    iphone,      \* the calls ringing on the iPhone, by uid
    uids,        \* uids the iPhone has given out on this link
    bridge,      \* s_call_live, s_call_uid, and s_call_refresh_at_ms as an alarm:
                 \* unset (0), due (1), or due in so many ticks; unread while not live
    queue,       \* call_event_queue
    page,        \* call_state.c
    loop,        \* countdown_task: "idle", "due" to run or running, or about to "send" a refresh
    taps,        \* call_accept_queue: the ids; history: the phone each was tapped on
    accepts,     \* CALL_ACTION notifications on their way to an Android phone, likewise
    wrong,       \* history: a call was answered that the rider had not held Accept on
    owned        \* history: the page's call was on the phone connected when last refreshed

androidVars == <<android, relay, nextId, beat>>
phoneVars   == <<androidVars, out, iphone, uids>>
taskVars    == <<page, loop, taps>>
answerVars  == <<accepts, wrong>>
vars == <<link, links, phoneVars, bridge, queue, taskVars, answerVars, owned>>

Init ==
    /\ link = "none" /\ links = 0
    /\ android = [k \in Key |-> "gone"] /\ relay = None /\ nextId = 1 /\ beat = 0 /\ out = None
    /\ iphone = {} /\ uids = 0
    /\ bridge = [live |-> FALSE, uid |-> 0, alarm |-> 0]
    /\ queue = <<>> /\ page = NoPage /\ loop = "idle"
    /\ taps = <<>> /\ accepts = {} /\ wrong = FALSE /\ owned = FALSE

-----------------------------------------------------------------------------
(* Android: CallRelay and FragmentQueue.                                    *)

\* offerCall, by way of send(): the newest event supersedes one still waiting.
Offer(type, r) == out' = [type |-> type, id |-> r.id]
\* refresh.run(): send at once, and again in 5 s.
Relay(r) ==
    /\ relay' = r
    /\ Offer(IF r.active THEN "active" ELSE "ring", r)
    /\ beat' = Period

Follows(k) == relay # None /\ relay.key = k

\* onPosted, ringing: a call under the notification that the relay follows keeps
\* its id, any other gets the next one and the relay's attention.  (Posted again
\* with another text it is sent again, which Resend does.  One that rings under
\* the notification of an answered call waits a tick: else it could be answered
\* and ring again for ever in no time.)
PostIncoming(k) ==
    /\ android[k] # "incoming" /\ (Follows(k) => beat < Period)
    /\ LET id == IF Follows(k) THEN relay.id ELSE nextId IN
       /\ id <= MaxCalls
       /\ Relay([key |-> k, id |-> id, active |-> FALSE])
    /\ nextId' = IF Follows(k) THEN nextId ELSE nextId + 1
    /\ android' = [android EXCEPT ![k] = "incoming"]
    /\ UNCHANGED <<link, links, iphone, uids, bridge, queue, taskVars, answerVars, owned>>

Answered(r) == [r EXCEPT !.active = TRUE]
\* onPosted, ongoing: answered, here or on the phone.
PostOngoing(k) ==
    /\ android[k] = "incoming"
    /\ android' = [android EXCEPT ![k] = "ongoing"]
    /\ IF Follows(k) THEN Relay(Answered(relay))
       ELSE UNCHANGED <<relay, out, beat>>
    /\ UNCHANGED <<link, links, nextId, iphone, uids, bridge, queue, taskVars, answerVars, owned>>

\* onRemoved.
Withdraw(k) ==
    /\ android[k] # "gone"
    /\ android' = [android EXCEPT ![k] = "gone"]
    /\ IF Follows(k)
       THEN relay' = None /\ Offer("clear", relay) /\ beat' = 0
       ELSE UNCHANGED <<relay, out, beat>>
    /\ UNCHANGED <<link, links, nextId, iphone, uids, bridge, queue, taskVars, answerVars, owned>>

\* The refresh runs.
Resend ==
    /\ relay # None /\ beat = 0
    /\ Relay(relay)
    /\ UNCHANGED <<link, links, android, nextId, iphone, uids, bridge, queue, taskVars, answerVars, owned>>

-----------------------------------------------------------------------------
(* The NimBLE host task.                                                    *)

\* xQueueSend: a full queue drops the event.
Send(event) == queue' = IF Len(queue) < QueueLen THEN Append(queue, event) ELSE queue

\* call_event_access_cb: the last fragment is in.
Receive ==
    /\ link = "android" /\ out # None
    /\ Send(out)
    /\ out' = None
    /\ UNCHANGED <<link, links, androidVars, iphone, uids, bridge, taskVars, answerVars, owned>>

\* handle_call: a call's attributes have been fetched ...
CallFetched ==
    /\ link = "iphone" /\ uids < MaxCalls
    /\ uids' = uids + 1 /\ iphone' = iphone \cup {uids'}
    /\ bridge' = [live |-> TRUE, uid |-> uids', alarm |-> 0]
    /\ Send([type |-> "ring", id |-> uids'])
    /\ UNCHANGED <<link, links, androidVars, out, taskVars, answerVars, owned>>

\* ... or it has been removed: answered, declined or rung out.
CallRemoved(u) ==
    /\ u \in iphone
    /\ iphone' = iphone \ {u}
    /\ IF bridge.live /\ bridge.uid = u
       THEN bridge' = [bridge EXCEPT !.live = FALSE, !.alarm = 0] /\ Send([type |-> "clear", id |-> u])
       ELSE UNCHANGED <<bridge, queue>>
    /\ UNCHANGED <<link, links, androidVars, out, uids, taskVars, answerVars, owned>>

\* The terminal's loop is faster than a phone at connecting again.
Connect ==
    /\ link = "none" /\ links < MaxLinks /\ page = NoPage /\ queue = <<>> /\ loop # "due"
    /\ link' \in {"android", "iphone"} /\ links' = links + 1
    /\ UNCHANGED <<phoneVars, bridge, queue, taskVars, answerVars, owned>>

\* apple_client_on_disconnect clears its own state; ancs_bridge has no part in it.
\* A call event already started is lost with the link.
Disconnect ==
    /\ link # "none"
    /\ link' = "none"
    /\ iphone' = {} /\ uids' = 0
    /\ out' \in {out, None}
    /\ accepts' = {}
    /\ UNCHANGED <<links, androidVars, bridge, queue, taskVars, wrong, owned>>

-----------------------------------------------------------------------------
(* countdown_task and gui_task.                                             *)

\* CallScreen's hold on Accept: the id on the page.  (What is drawn lags by a
\* frame, no more than a tap may wait in its queue.)
Tap ==
    /\ page.phase = "ringing" /\ Len(taps) + Cardinality(accepts) < MaxTaps
    /\ taps' = Append(taps, [phone |-> link, id |-> page.id])
    /\ UNCHANGED <<link, links, phoneVars, bridge, queue, page, loop, answerVars, owned>>

\* ancs_bridge_accept_call: its own call it has the iPhone answer.
ClaimsAny(id) == bridge.live
Claims(id) == bridge.live /\ bridge.uid = id
Answers(tap) == Claims(tap.id) /\ link = "iphone" /\ bridge.uid \in iphone
\* ble_link_send_call_accept: any other goes to the Android phone.
Notifies(tap) == ~Claims(tap.id) /\ link = "android"

\* The refresh's alarm once ancs_bridge_tick has looked at it.
PutOff(alarm)  == Period + 1
Checked(alarm) == IF alarm <= 1 THEN Period + 1 ELSE alarm

\* A call of the phone connected.
OnPhone(id) == \/ link = "iphone" /\ bridge.live /\ bridge.uid = id /\ id \in iphone
               \/ link = "android" /\ relay # None /\ relay.id = id

\* A round of the loop begins with the events, one by one, ...
Drain ==
    /\ loop \in {"idle", "due"} /\ queue # <<>>
    /\ page' = Apply(page, Head(queue))
    /\ queue' = Tail(queue)
    /\ loop' = "due"
    /\ owned' = IF page'.age = 0 THEN OnPhone(page'.id) ELSE owned
    /\ UNCHANGED <<link, links, phoneVars, bridge, taps, answerVars>>

Waiting == {taps[i] : i \in DOMAIN taps}

\* ... and goes on with call_state_tick, the taps, and the test of ancs_bridge_tick.
Loop ==
    /\ loop \in {"idle", "due"} /\ queue = <<>>
    /\ page' = Expire(page, link # "none")
    /\ taps' = <<>>
    /\ accepts' = accepts \cup {tap \in Waiting : Notifies(tap)}
    /\ wrong' = (wrong \/ \E tap \in Waiting : Answers(tap) /\ tap # [phone |-> "iphone", id |-> bridge.uid])
    /\ loop' = IF bridge.live /\ bridge.alarm = 1 THEN "send" ELSE "idle"
    /\ bridge' = IF bridge.live THEN [bridge EXCEPT !.alarm = Checked(@)] ELSE bridge
    /\ owned' = (owned /\ page' # NoPage)
    /\ UNCHANGED <<link, links, phoneVars, queue>>

\* ... and its send, of s_call_event as it is by now.
Refresh ==
    /\ loop = "send"
    /\ Send([type |-> "ring", id |-> bridge.uid])
    /\ loop' = "idle"
    /\ UNCHANGED <<link, links, phoneVars, bridge, page, taps, answerVars, owned>>

\* CallRelay.onAccept: the call it follows, if it still rings.
StillRings(id) == relay # None /\ ~relay.active
Rings(id) == relay # None /\ relay.id = id /\ ~relay.active
OnAccept(tap) ==
    /\ accepts' = accepts \ {tap}
    /\ wrong' = (wrong \/ (Rings(tap.id) /\ tap # [phone |-> "android", id |-> relay.id]))
    /\ UNCHANGED <<link, links, phoneVars, bridge, queue, taskVars, owned>>

\* A tick goes by.  The loop runs ten times a second, and CallRelay's refresh
\* and the fragments of an event take no tick either.
Elapse ==
    /\ loop = "idle" /\ queue = <<>>
    /\ relay # None => beat > 0
    /\ link = "android" => out = None
    /\ loop' = "due"
    /\ page' = Older(page)
    /\ beat' = IF beat > 0 THEN beat - 1 ELSE beat
    /\ bridge' = IF bridge.live /\ bridge.alarm > 1 THEN [bridge EXCEPT !.alarm = @ - 1] ELSE bridge
    /\ UNCHANGED <<link, links, android, relay, nextId, out, iphone, uids, queue, taps, answerVars, owned>>

CountdownTask == Drain \/ Loop \/ Refresh

Next ==
    \/ \E k \in Key : PostIncoming(k) \/ PostOngoing(k) \/ Withdraw(k)
    \/ Resend \/ Receive
    \/ CallFetched \/ (\E u \in Id : CallRemoved(u))
    \/ Connect \/ Disconnect
    \/ Tap \/ (\E tap \in accepts : OnAccept(tap))
    \/ CountdownTask \/ Elapse

\* The handlers and loops run, what is sent on a link arrives, and time passes.
Fairness ==
    /\ WF_vars(Resend) /\ WF_vars(Receive)
    /\ WF_vars(CountdownTask) /\ SF_vars(Elapse)

Spec == Init /\ [][Next]_vars /\ Fairness

-----------------------------------------------------------------------------
\* A call that the terminal takes for one.
Held(id) == \/ bridge.live /\ bridge.uid = id
            \/ relay # None /\ relay.id = id /\ link = "android"

\* The rider's Accept answers only a call whose page the rider held it on: not
\* the next call, nor one of another phone, that came while the tap was queued.
\* (An iPhone numbers afresh on every link; equal numbers pass for one call.)
AnswersTapped == ~wrong

\* While a call and its link last, the page it has does not expire: a full queue
\* drops no refresh of it but behind another, or ahead of another call's page.  (A
\* page of an equal number that an earlier link has left behind is not its page.)
PageKept ==
    [][~(owned /\ OnPhone(page.id) /\ queue = <<>> /\ page' = NoPage)]_vars

\* "A lost CLEAR can never leave a stale call page": a page whose call nobody
\* stands for any more goes, although its CLEAR may be dropped and a refresh
\* already under way may put it back.
PageFollows == (page.phase # "none" /\ ~Held(page.id)) ~> (page.phase = "none" \/ Held(page.id))

\* What NoStaleCall below is about: ancs_bridge holds a call of a link that is gone.
Outlived == bridge.live /\ ~(link = "iphone" /\ bridge.uid \in iphone)

\* A call that rings, and goes on ringing, gets its page from either phone,
\* although a full queue may drop the event that announces it; unless a call
\* that has outlived its link rings over it.
CallGetsPage ==
    /\ (bridge.live /\ link = "iphone") ~>
          (~bridge.live \/ link # "iphone" \/ (page.phase # "none" /\ page.id = bridge.uid))
    /\ (relay # None /\ link = "android") ~>
          \/ relay = None \/ relay.active \/ link # "android" \/ Outlived
          \/ page.phase # "none" /\ page.id = relay.id

\* call_state.h: "a call not refreshed ... or any link drop clears, so a lost
\* CLEAR can never leave a stale call page over the nav page".  A page does not
\* stay when no phone has a call.
NoStaleCall ==
    (page.phase # "none" /\ iphone = {} /\ relay = None) ~>
        (page.phase = "none" \/ iphone # {} \/ relay # None)
=============================================================================
