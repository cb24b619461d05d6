----------------------------- MODULE AppleFetch -----------------------------
(***************************************************************************)
(* The iPhone path up to ancs_bridge: notifications on the phone, ANCS on    *)
(* the link, and ancs_core behind it on the NimBLE host task, which keeps   *)
(* at most one Get Notification Attributes request in flight and reports    *)
(* what it fetched; of ancs_bridge, the one call it remembers (CallPath has *)
(* what it does with it).                                                   *)
(*                                                                          *)
(* The iPhone is external, modelled from what the terminal and its host     *)
(* tests take it to do: it numbers notifications afresh on every link,      *)
(* announces changes in order, answers one request at a time with the text  *)
(* of that moment, in parts that announcements may come between, and has no *)
(* answer for a notification withdrawn.  Discovery, from encryption to both *)
(* subscriptions, is the one step Subscribe; what navigation makes of its   *)
(* text is left out.                                                        *)
(***************************************************************************)
EXTENDS Integers, SequencesExt

CONSTANTS
    Slots,       \* ANCS_MAX_TRACKED
    Free,        \* an unused slot
    MaxUid,      \* bound: notifications posted on one link
    MaxChanges,  \* bound: texts changed, notifications withdrawn and writes failed
    MaxVersion,  \* bound: texts of one notification
    MaxSessions  \* bound: times ANCS is subscribed to

ASSUME SlotsAssumption ==
    Slots \in Nat \ {0} /\ Free \notin [uid : Nat, cat : {"call", "other"}, asked : BOOLEAN]
ASSUME AppleAssumption ==
    /\ MaxUid \in Nat /\ MaxChanges \in Nat /\ MaxVersion \in Nat \ {0}
    /\ MaxSessions \in Nat

Uid == 1 .. MaxUid
Absent == [cat |-> "none", version |-> 0]

-----------------------------------------------------------------------------
(* ancs_core.c, as functions of its state: the notifications the iPhone has *)
(* announced, the one Get Notification Attributes request in flight, and    *)
(* the response being reassembled from Data Source notifications.           *)
(*                                                                          *)
(* A notification is its uid, its category and the version of its text.  A  *)
(* response travels in parts, cut by the phone wherever it likes; two are   *)
(* enough: the one with the response's header, and the rest.  ds_overflow   *)
(* needs a response longer than the buffer and ends as a malformed one does;*)
(* request_uid, read only while a request is active, is 0 when none is.     *)
(*                                                                          *)
(* A handler that may write the Control Point returns [core, asks]: the new *)
(* state, and the uid it asked for as a set of at most one.                 *)

\* ancs_core_reset.
Fresh == [tracked |-> [s \in 1 .. Slots |-> Free], buf |-> <<>>, active |-> FALSE, uid |-> 0]

Used(c)       == {s \in 1 .. Slots : c.tracked[s] # Free}
Holding(c, u) == {s \in Used(c) : c.tracked[s].uid = u}
Category(c, u, default) ==
    IF Holding(c, u) = {} THEN default ELSE c.tracked[CHOOSE s \in Holding(c, u) : TRUE].cat
\* Tracked, and their attributes still to be asked for.
Pending(c) == {s \in Used(c) : ~c.tracked[s].asked}

\* claim_tracked: the slot of u, else the first free one, else slot 0.
SlotFor(c, u) ==
    LET free == (1 .. Slots) \ Used(c) IN
    IF Holding(c, u) # {} THEN Min(Holding(c, u)) ELSE IF free # {} THEN Min(free) ELSE 1
Evicts(c, u) == Holding(c, u) = {} /\ Used(c) = 1 .. Slots

Request(c, u) ==
    [core |-> [c EXCEPT !.buf = <<>>, !.active = TRUE, !.uid = u], asks |-> {u}]

\* on_notification_source, ADDED and MODIFIED.
Announced(c, u, cat) ==
    LET s == SlotFor(c, u)
        Claim(asked) == [c EXCEPT !.tracked[s] = [uid |-> u, cat |-> cat, asked |-> asked]]
    IN  IF ~c.active THEN Request(Claim(TRUE), u)
        ELSE [core |-> Claim(c.uid = u), asks |-> {}]

\* on_notification_source, REMOVED: a fetch of u ends, and nothing is asked for.
WithdrawnStillTracked(c, u) ==
    IF c.active /\ c.uid = u THEN [c EXCEPT !.active = FALSE, !.uid = 0, !.buf = <<>>] ELSE c
Withdrawn(c, u) ==
    LET gone == [c EXCEPT !.tracked = [s \in 1 .. Slots |-> IF s \in Holding(c, u) THEN Free ELSE @[s]]]
    IN  IF c.active /\ c.uid = u THEN [gone EXCEPT !.active = FALSE, !.uid = 0, !.buf = <<>>] ELSE gone

NoPump(c) == [core |-> c, asks |-> {}]
\* pump_pending: the first one waiting.
PumpPending(c) ==
    IF c.active \/ Pending(c) = {} THEN [core |-> c, asks |-> {}]
    ELSE LET s == Min(Pending(c)) IN Request([c EXCEPT !.tracked[s].asked = TRUE], c.tracked[s].uid)

\* parse_attributes: the verdicts on what the buffer holds.  The rest of a
\* response is no header; fewer than five bytes of it are not looked at yet.
Verdicts(buf) ==
    IF buf[1].part = "head" THEN {IF Len(buf) = 1 THEN "incomplete" ELSE "complete"}
    ELSE IF Len(buf) = 1 THEN {"malformed", "incomplete"} ELSE {"malformed"}

\* on_data_source while a request is active, ended by a verdict other than
\* "incomplete": whatever was being fetched is over, and the next is asked for.
Ended(c) == PumpPending([c EXCEPT !.buf = <<>>, !.active = FALSE, !.uid = 0])

-----------------------------------------------------------------------------
VARIABLES
    link,        \* "down", "up" (connected), "ready" (both subscriptions made)
    iphone,      \* the notifications on the phone
    changes,     \* changes on the phone and writes failed so far
    posted,      \* the last uid given out on this link
    air,         \* Notification and Data Source notifications on their way, in order
    answer,      \* the parts of the answer the phone has still to send
    cp,          \* Control Point writes on their way
    core,        \* s_ancs
    call,        \* ancs_bridge's s_call_live and s_call_uid
    session,     \* subscriptions made so far
    told,        \* history: the version ancs_core last reported, by uid, until spoiled
    since,       \* history: the session whose notification set s_call_live
    spoiled      \* history: this session had one of the four mishaps (see Mishap)

fetchVars == <<link, iphone, changes, posted, air, answer, cp, core, call, session,
               told, since, spoiled>>

linkVars  == <<link, posted, changes, session>>
phoneVars == <<iphone, answer>>
callVars  == <<call, since>>

Present == {u \in Uid : iphone[u] # Absent}
Calls   == {u \in Present : iphone[u].cat = "call"}

NoCall == [live |-> FALSE, uid |-> 0]      \* s_call_uid is read only while a call is live
Untold == [u \in Uid |-> 0]

FetchInit ==
    /\ link = "down" /\ iphone = [u \in Uid |-> Absent] /\ posted = 0 /\ changes = 0
    /\ air = <<>> /\ answer = <<>> /\ cp = <<>>
    /\ core = Fresh
    /\ call = NoCall
    /\ session = 0
    /\ told = Untold /\ since = 0 /\ spoiled = FALSE

-----------------------------------------------------------------------------
(* The iPhone.  It announces to a terminal that has subscribed.             *)

Announce(event) == air' = IF link = "ready" THEN Append(air, event) ELSE air

Post ==
    /\ link # "down" /\ posted < MaxUid
    /\ posted' = posted + 1
    /\ \E cat \in {"call", "other"} :
          /\ iphone' = [iphone EXCEPT ![posted'] = [cat |-> cat, version |-> 1]]
          /\ Announce([part |-> "announced", uid |-> posted', cat |-> cat])
    /\ UNCHANGED <<link, changes, session, answer, cp, core, callVars, told, spoiled>>

Modify(u) ==
    /\ iphone[u] # Absent /\ iphone[u].version < MaxVersion
    /\ changes < MaxChanges /\ changes' = changes + 1
    /\ iphone' = [iphone EXCEPT ![u].version = @ + 1]
    /\ Announce([part |-> "announced", uid |-> u, cat |-> iphone[u].cat])
    /\ UNCHANGED <<link, posted, session, answer, cp, core, callVars, told, spoiled>>

Withdraw(u) ==
    /\ iphone[u] # Absent
    /\ changes < MaxChanges /\ changes' = changes + 1
    /\ iphone' = [iphone EXCEPT ![u] = Absent]
    /\ Announce([part |-> "removed", uid |-> u, cat |-> iphone[u].cat])
    /\ UNCHANGED <<link, posted, session, answer, cp, core, callVars, told, spoiled>>

\* A request is answered with the text of this moment; one for a notification
\* withdrawn only with an ATT error, which write_control_point has no callback for.
TakeRequest ==
    /\ cp # <<>> /\ answer = <<>>
    /\ cp' = Tail(cp)
    /\ LET u == Head(cp) IN
       answer' = IF iphone[u] = Absent THEN <<>>
                 ELSE <<[part |-> "head", uid |-> u, version |-> iphone[u].version],
                        [part |-> "rest", uid |-> u, version |-> iphone[u].version]>>
    /\ UNCHANGED <<linkVars, iphone, air, core, callVars, told, spoiled>>

SendPart ==
    /\ answer # <<>>
    /\ air' = Append(air, Head(answer)) /\ answer' = Tail(answer)
    /\ UNCHANGED <<linkVars, iphone, cp, core, callVars, told, spoiled>>

-----------------------------------------------------------------------------
(* The link.                                                                *)

\* ancs_core_reset, and nothing on the air means anything any more.
Forget ==
    /\ core' = Fresh /\ air' = <<>> /\ cp' = <<>> /\ answer' = <<>>
    /\ told' = Untold /\ spoiled' = FALSE

\* apple_client_on_connect: a phone that has numbered nothing yet.
ConnectApple ==
    /\ link = "down" /\ session < MaxSessions
    /\ link' = "up" /\ iphone' = [u \in Uid |-> Absent] /\ posted' = 0 /\ UNCHANGED changes
    /\ Forget
    /\ UNCHANGED <<callVars, session>>

\* on_ns_subscribed: the phone announces again what is there.
Subscribe ==
    /\ link = "up" /\ session < MaxSessions
    /\ link' = "ready" /\ session' = session + 1
    /\ \E order \in SetToSeqs(Present) :
          air' = [i \in DOMAIN order |->
                     [part |-> "announced", uid |-> order[i], cat |-> iphone[order[i]].cat]]
    /\ UNCHANGED <<phoneVars, posted, changes, cp, core, callVars, told, spoiled>>

\* Service Changed: the handles are dropped and discovery starts again.
Republish ==
    /\ link = "ready" /\ session < MaxSessions
    /\ link' = "up"
    /\ Forget
    /\ UNCHANGED <<iphone, posted, changes, callVars, session>>

\* apple_client_on_disconnect.
Lose ==
    /\ link # "down" /\ session < MaxSessions
    /\ link' = "down" /\ iphone' = [u \in Uid |-> Absent] /\ posted' = 0 /\ UNCHANGED changes
    /\ Forget
    /\ UNCHANGED <<callVars, session>>

-----------------------------------------------------------------------------
(* The NimBLE host task.                                                    *)

\* handle_call, for attributes fetched and for a notification removed.
Ring(u) ==
    /\ call' = [live |-> TRUE, uid |-> u]
    /\ since' = session
CallRemoved(u) ==
    IF call.uid = u THEN call' = NoCall /\ since' = 0 ELSE UNCHANGED callVars

\* What a handler asked for goes to the Control Point, or fails and is logged.
Write(asks) ==
    \/ /\ cp' = IF asks = {} THEN cp ELSE Append(cp, CHOOSE u \in asks : TRUE)
       /\ UNCHANGED changes
    \/ /\ asks # {} /\ changes < MaxChanges
       /\ changes' = changes + 1 /\ UNCHANGED cp
Mishap(happened) == spoiled' = (spoiled \/ happened \/ changes' # changes)
Tell(now) == told' = IF spoiled' THEN Untold ELSE now

\* Parts of an answer about u that are on their way or in the buffer.
Parts(u) ==
    {p \in UNION {{seq[i] : i \in DOMAIN seq} : seq \in {core.buf, air, answer}} :
        p.part \in {"head", "rest"} /\ p.uid = u}

\* apple_client_on_notify_rx for the Notification Source.  The mishaps: a slot
\* is taken from a live notification; the text changes after the phone has
\* composed the answer under way.
HearAnnounced ==
    /\ link = "ready" /\ air # <<>> /\ Head(air).part = "announced"
    /\ LET u == Head(air).uid
           r == Announced(core, u, Head(air).cat)
           later == {i \in 2 .. Len(air) : air[i].uid = u /\ air[i].part \in {"announced", "removed"}}
           overtaken == /\ core.active /\ core.uid = u /\ later = {}
                        /\ \E p \in Parts(u) : p.version # iphone[u].version
       IN /\ core' = r.core
          /\ Write(r.asks)
          /\ Mishap(Evicts(core, u) \/ overtaken)
    /\ air' = Tail(air)
    /\ Tell(told)
    /\ UNCHANGED <<link, posted, session, phoneVars, callVars>>

\* ... and when it is withdrawn.  The mishap: its fetch ends while others wait
\* to be asked for, or while parts of its answer are still to come.
HearRemoved ==
    /\ link = "ready" /\ air # <<>> /\ Head(air).part = "removed"
    /\ UNCHANGED <<linkVars, phoneVars, cp>>
    /\ LET u == Head(air).uid IN
       /\ core' = Withdrawn(core, u)
       /\ IF Category(core, u, Head(air).cat) = "call" THEN CallRemoved(u)
          ELSE UNCHANGED <<call, since>>
       /\ Mishap(core.active /\ core.uid = u /\ (Pending(core') # {} \/ Parts(u) # {}))
       /\ Tell([told EXCEPT ![u] = 0])
    /\ air' = Tail(air)

\* ... and for the Data Source.  A complete response is reported under the uid
\* in its own bytes, with the category of what is tracked under that uid.
HearPart ==
    /\ link = "ready" /\ air # <<>> /\ Head(air).part \in {"head", "rest"}
    /\ air' = Tail(air)
    /\ IF ~core.active THEN UNCHANGED <<core, cp, call, since, changes, told, spoiled>>
       ELSE LET buf == Append(core.buf, Head(air)) IN
            \E verdict \in Verdicts(buf) :
               LET r == Ended(core)
                   u == buf[1].uid
                   complete == verdict = "complete"
               IN IF verdict = "incomplete"
                  THEN /\ core' = [core EXCEPT !.buf = buf]
                       /\ UNCHANGED <<cp, call, since, changes, told, spoiled>>
                  ELSE /\ core' = r.core
                       /\ Write(r.asks)
                       /\ IF complete /\ Category(core, u, "other") = "call" THEN Ring(u)
                          ELSE UNCHANGED <<call, since>>
                       /\ Mishap(FALSE)
                       /\ Tell(IF complete THEN [told EXCEPT ![u] = buf[1].version] ELSE told)
    /\ UNCHANGED <<link, posted, session, phoneVars>>

-----------------------------------------------------------------------------
Hear  == HearAnnounced \/ HearRemoved \/ HearPart
Phone == Post \/ (\E u \in Uid : Modify(u) \/ Withdraw(u)) \/ TakeRequest \/ SendPart
Link  == ConnectApple \/ Subscribe \/ Republish \/ Lose

FetchNext == Phone \/ Link \/ Hear

-----------------------------------------------------------------------------
Quiet == link = "ready" /\ air = <<>> /\ answer = <<>> /\ cp = <<>>

\* When nothing is on its way and none of the mishaps has happened, every
\* notification on the phone has been reported with the text it has now:
\* what one fetch puts off, the next ones make up for.
UpToDate == (Quiet /\ ~spoiled) => \A u \in Present : told[u] = iphone[u].version

\* A call that this session's notifications started is on the phone, or its
\* removal is on the way: an answer that arrives after the removal, or that a
\* later request takes for its own, does not ring again.
CallIsReal ==
    (link = "ready" /\ call.live /\ since = session) =>
        \/ call.uid \in Calls
        \/ \E i \in DOMAIN air : air[i].part = "removed" /\ air[i].uid = call.uid
=============================================================================
