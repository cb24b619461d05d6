------------------------------ MODULE NavPath -------------------------------
(***************************************************************************)
(* From Maps' notification to the page the rider sees.                      *)
(*                                                                          *)
(* Android: NavNotificationRelayService hands the notification to           *)
(* RelayService by way of RelayStateHolder; RelayService keeps it and       *)
(* publishes it with the telemetry at every event and every fix.  iPhone:   *)
(* the notification comes to the terminal by itself (AppleFetch,            *)
(* ancs_bridge), the telemetry from the app.  Either way packets wait in    *)
(* raw_packet_queue for countdown_task, which merges them, draws a view and *)
(* ticks it (NavView).                                                      *)
(*                                                                          *)
(* A packet arrives whole or not at all: its fragments carry its id, and a  *)
(* newer packet supersedes one still waiting (FragmentQueue).               *)
(***************************************************************************)
EXTENDS NavView, Sequences

CONSTANTS
    Kinds,       \* the kinds of phone: of "android" and "iphone"
    Routes,      \* what Maps' navigation notification may say
    Notice,      \* what another notification of Maps, with a title, is taken to say
    QueueLen,    \* RAW_PACKET_QUEUE_LEN
    MaxMishaps,  \* bound: what goes wrong
    None         \* no packet

ASSUME NavPathAssumption ==
    /\ Kinds \subseteq {"android", "iphone"} /\ QueueLen \in Nat \ {0} /\ MaxMishaps \in Nat
    /\ \A r \in Routes \cup {Notice} : r.says \in {"turn", "pin", "arrived"}

VARIABLES
    kind,        \* the phone's
    maps,        \* Maps' navigation notification; NoRoute: there is none
    listening,   \* NavNotificationRelayService is connected
    serving,     \* RelayService is attached to RelayStateHolder
    nav,         \* TelemetryAggregator.nav
    connected,   \* the link, and RelayService.connected
    made,        \* a packet built by publish() on the Bluetooth thread, not yet offered
    out,         \* the packet FragmentQueue still has to send
    queue,       \* raw_packet_queue
    faulted,     \* ble_link_is_faulted()
    loop,        \* countdown_task: "idle", "drain"ing the queue, or about to "tick"
    pipe,        \* packet_merge.c, countdown.c and pipeline.c
    view,        \* shared_view
    mishaps,     \* how much has gone wrong
    heard,       \* history: what the last packet that speaks for the route said
    earned,      \* history: the last route heard ends the trip, and its arrival is not over
    unstored,    \* history: the last view drawn was not stored
    marked       \* history: a fault has been shown on the view since it was drawn

phoneVars   == <<maps, listening, serving, nav>>
linkVars    == <<connected, made, out>>
taskVars    == <<loop, pipe, view, heard, earned, unstored, marked>>
vars == <<kind, phoneVars, linkVars, queue, faulted, taskVars, mishaps>>

Init ==
    /\ kind \in Kinds
    /\ maps = NoRoute /\ listening = (kind = "android") /\ serving = listening /\ nav = NoRoute
    /\ connected = FALSE /\ made = None /\ out = None
    /\ queue = <<>> /\ faulted = FALSE
    /\ loop = "idle" /\ pipe = Fresh /\ view = IdleView
    /\ mishaps = 0 /\ heard = NoRoute /\ earned = FALSE /\ unstored = FALSE /\ marked = FALSE

Mishap == mishaps < MaxMishaps /\ mishaps' = mishaps + 1

-----------------------------------------------------------------------------
(* Android: the listener and RelayService.                                  *)

PublishChanges == out' = IF connected /\ nav' # nav THEN Both(nav') ELSE out
\* publish(): one packet of everything, if there is a terminal to write it to.
Publish == out' = IF connected THEN Both(nav') ELSE out

\* emit() of NavUpdated: lost on no observer.
Emit(route) ==
    IF listening /\ serving THEN nav' = route /\ Publish ELSE UNCHANGED <<nav, out>>

\* Maps posts its notification; on an iPhone, Announce takes it from there.
Post(route) ==
    /\ maps' = route
    /\ kind = "iphone" => route # maps
    /\ Emit(route)
    /\ UNCHANGED <<kind, listening, serving, connected, made, queue, faulted, taskVars, mishaps>>

\* Maps withdraws it: the trip is over, or called off.  On an iPhone a removal
\* is nothing to do (ancs_bridge_on_notification).
Remove ==
    /\ maps # NoRoute /\ maps' = NoRoute
    /\ Emit(NoRoute)
    /\ UNCHANGED <<kind, listening, serving, connected, made, queue, faulted, taskVars, mishaps>>

\* Another notification of Maps is posted, or removed: the listener tells neither
\* from navigation.
PostNotice ==
    /\ Mishap /\ listening /\ serving
    /\ Emit(Notice)
    /\ UNCHANGED <<kind, maps, listening, serving, connected, made, queue, faulted, taskVars>>
RemoveNotice ==
    /\ Mishap /\ listening /\ serving
    /\ Emit(NoRoute)
    /\ UNCHANGED <<kind, maps, listening, serving, connected, made, queue, faulted, taskVars>>

\* onLocationResult: a fix a second.
Fix ==
    /\ kind = "android" /\ serving /\ connected
    /\ nav' = nav /\ Publish
    /\ UNCHANGED <<kind, maps, listening, serving, connected, made, queue, faulted, taskVars, mishaps>>

\* onListenerConnected: whatever notification is up by then is told first, and
\* RelayService started after.
Listen ==
    /\ kind = "android" /\ ~listening /\ listening' = TRUE
    /\ IF serving THEN nav' = (IF maps # NoRoute THEN maps ELSE nav) /\ Publish
       ELSE UNCHANGED <<nav, out>>
    /\ UNCHANGED <<kind, maps, serving, connected, made, queue, faulted, taskVars, mishaps>>

\* onListenerDisconnected: the system unbinds the listener.
Unlisten ==
    /\ Mishap /\ listening /\ listening' = FALSE
    /\ IF serving THEN nav' = nav /\ Publish ELSE UNCHANGED <<nav, out>>
    /\ UNCHANGED <<kind, maps, serving, connected, made, queue, faulted, taskVars>>

\* RelayService is started: by onListenerConnected, at boot, or as a sticky
\* service again.
Serve ==
    /\ kind = "android" /\ ~serving /\ serving' = TRUE
    /\ UNCHANGED <<kind, maps, listening, nav, linkVars, queue, faulted, taskVars, mishaps>>

\* The app's process dies, and the link with it.
Kill ==
    /\ Mishap /\ kind = "android" /\ serving
    /\ listening' = FALSE /\ serving' = FALSE /\ nav' = NoRoute
    /\ connected' = FALSE /\ made' = None /\ out' = None
    /\ UNCHANGED <<kind, maps, queue, faulted, taskVars>>

-----------------------------------------------------------------------------
(* The link.                                                                *)

\* A link comes up; GAP's CONNECT forgets the failures of the last one.  On
\* Android BleConnected publishes, on the Bluetooth thread.
Connect ==
    /\ ~connected /\ made = None /\ connected' = TRUE
    /\ kind = "android" => serving
    /\ made' = IF kind = "android" THEN Both(nav) ELSE None
    /\ faulted' = FALSE
    /\ UNCHANGED <<kind, phoneVars, out, queue, taskVars, mishaps>>

\* ... and there offers what it built, whatever has been published meanwhile.
Offer ==
    /\ made # None /\ made' = None
    /\ out' = IF connected THEN made ELSE out
    /\ UNCHANGED <<kind, phoneVars, connected, queue, faulted, taskVars, mishaps>>

\* The link drops: a packet not sent is superseded by the next link's first.
Disconnect ==
    /\ Mishap /\ connected /\ connected' = FALSE
    /\ out' = None
    /\ UNCHANGED <<kind, phoneVars, made, queue, faulted, taskVars>>

\* The iPhone's app writes its telemetry.
AppWrites ==
    /\ kind = "iphone" /\ connected /\ out = None
    /\ out' = TelOnly
    /\ UNCHANGED <<kind, phoneVars, connected, made, queue, faulted, taskVars, mishaps>>

\* xQueueSend: a full queue drops the packet.
Send(p) == queue' = IF Len(queue) < QueueLen THEN Append(queue, p) ELSE queue

\* deliver_reassembled: a packet is in.
Receive ==
    /\ connected /\ out # None
    /\ Send(out) /\ out' = None
    /\ faulted' = FALSE
    /\ UNCHANGED <<kind, phoneVars, connected, made, taskVars, mishaps>>

\* A packet is lost, or its writes cannot be decoded, maybe often enough for a
\* fault (note_decode_failure).
Garble ==
    /\ Mishap /\ connected /\ out # None /\ out' = None
    /\ faulted' \in {faulted, TRUE}
    /\ UNCHANGED <<kind, phoneVars, connected, made, queue, taskVars>>

\* handle_nav: the iPhone's notification has been fetched: it is new, it has
\* changed, or the link is.
Announce ==
    /\ kind = "iphone" /\ connected /\ maps # NoRoute
    /\ Send(NavOnly(maps))
    /\ UNCHANGED <<kind, phoneVars, linkVars, faulted, taskVars, mishaps>>

-----------------------------------------------------------------------------
(* countdown_task.                                                          *)

\* One packet of the queue.  The view drawn is stored if view_mutex is to be
\* had within 10 ms.
Take ==
    /\ loop \in {"idle", "drain"} /\ loop' = "drain"
    /\ queue # <<>> /\ queue' = Tail(queue)
    /\ \E p \in {Head(queue)}, pipe1 \in {Accept(pipe, Head(queue))} :
           /\ pipe' = Ticked(pipe1)
           /\ \/ view' = Drawn(pipe1) /\ unstored' = FALSE /\ marked' = FALSE /\ UNCHANGED mishaps
              \/ UNCHANGED <<view, marked>> /\ unstored' = TRUE /\ Mishap
           /\ heard' = IF p.nav THEN p.route ELSE heard
           /\ earned' = IF p.nav /\ p.route # NoRoute THEN p.route.says # "turn"
                        ELSE earned /\ ~ArrivalOver(pipe1)
    /\ UNCHANGED <<kind, phoneVars, linkVars, faulted>>

\* The queue is found empty ...
Drained ==
    /\ loop \in {"idle", "drain"} /\ queue = <<>>
    /\ loop' = "tick"
    /\ UNCHANGED <<kind, phoneVars, linkVars, queue, faulted, pipe, view, mishaps, heard, earned, unstored, marked>>

\* A link that delivers nothing readable is shown as stale.
Fault(v) == IF faulted THEN [v EXCEPT !.stale = TRUE, !.state = IF @ = "active" THEN "stale" ELSE @] ELSE v

\* ... and the view is ticked.
TickView ==
    /\ loop = "tick" /\ loop' = "idle"
    /\ pipe' = Ticked(pipe)
    /\ view' = Fault(Refresh(pipe, view))
    /\ earned' = (earned /\ ~ArrivalOver(pipe))
    /\ marked' = (marked \/ faulted)
    /\ UNCHANGED <<kind, phoneVars, linkVars, queue, faulted, mishaps, heard, unstored>>

\* view_mutex is not to be had within 10 ms: the next round ticks.
SkipTick ==
    /\ Mishap /\ loop = "tick" /\ loop' = "drain"
    /\ UNCHANGED <<kind, phoneVars, linkVars, queue, faulted, pipe, view, heard, earned, unstored, marked>>

\* A tick of the model goes by: the task's rounds, ten a second, take none.
Elapse ==
    /\ loop = "idle" /\ loop' = "drain"
    /\ pipe' = Later(pipe)
    /\ UNCHANGED <<kind, phoneVars, linkVars, queue, faulted, view, mishaps, heard, earned, unstored, marked>>

\* The terminal restarts.
Restart ==
    /\ Mishap
    /\ connected' = FALSE /\ out' = None
    /\ queue' = <<>> /\ faulted' = FALSE
    /\ loop' = "idle" /\ pipe' = Fresh /\ view' = IdleView
    /\ heard' = NoRoute /\ earned' = FALSE /\ unstored' = FALSE /\ marked' = FALSE
    /\ UNCHANGED <<kind, phoneVars, made>>

Next ==
    \/ (\E route \in Routes : Post(route)) \/ Remove \/ PostNotice \/ RemoveNotice
    \/ Fix \/ Listen \/ Unlisten \/ Serve \/ Kill
    \/ Connect \/ Offer \/ Disconnect \/ AppWrites \/ Receive \/ Garble \/ Announce
    \/ Take \/ Drained \/ TickView \/ SkipTick \/ Elapse \/ Restart

\* Fixes come, what is published is sent, the task runs, packets do not come
\* faster than it takes them, and time passes.
Fairness ==
    /\ WF_vars(Fix) /\ WF_vars(Receive)
    /\ WF_vars(Take \/ TickView) /\ SF_vars(Drained) /\ SF_vars(Elapse)

Spec == Init /\ [][Next]_vars /\ Fairness

-----------------------------------------------------------------------------
\* countdown_task has dealt with all it has been given.
AtRest == loop = "idle" /\ queue = <<>> /\ ~unstored

\* "Applying either one alone to the pipeline would blank the other": while the
\* last route heard is within its hold, the page shows it, live unless a fault has
\* been shown on it, whatever other packets came since; while the telemetry is,
\* the speed.
HalvesKept ==
    AtRest =>
        /\ (heard # NoRoute /\ pipe.held.navAge <= NavHold /\ ~marked) =>
              /\ view.turn = heard.turn
              /\ heard.says # "arrived" => view.state = "active"
        /\ (pipe.held.speed /\ pipe.held.telAge <= TelHold) => view.speed

\* The arrived page comes of a route's final leg, once, or of Maps saying so; a
\* route called off on the way never brings it up.
ArrivalEarned == (view.state = "arrived" /\ ~unstored) => earned \/ heard.says = "arrived"

\* "A killed iOS app must show an unknown speed": a packet that finds the
\* telemetry past its hold blanks it.
SpeedRunsOut ==
    [][(Len(queue') < Len(queue) /\ pipe'.held.telAge > TelHold /\ ~unstored') => ~view'.speed]_vars

\* "The display already calls a route stale after this long without a packet":
\* a route shown live is no older than the last packet of either half may be, and
\* on Android, where each speaks for the route, no older than the hold.
LiveMeansHeard ==
    (AtRest /\ view.state = "active") =>
        \/ pipe.held.navAge <= NavHold
        \/ kind = "iphone" /\ pipe.held.telAge <= NavHold

Shows(route) ==
    IF route = NoRoute THEN view.state = "idle"
    ELSE view.turn = route.turn /\ view.state = (IF route.says = "arrived" THEN "arrived" ELSE "active")

\* What RelayService holds gets to the page, once it and the link stay as they
\* are, although a full queue drops packets, a write is lost and two threads
\* publish.
RelayShown ==
    \/ []<>(kind = "iphone" \/ ~connected)
    \/ []<><<nav' # nav>>_nav
    \/ []<>Shows(nav)

-----------------------------------------------------------------------------
(* The run's routes, a turn and the destination's pin; what else Maps        *)
(* notifies of is that the rider has arrived, without a distance.            *)

MCRoutes == {[turn |-> "left", metres |-> TRUE, says |-> "turn"],
             [turn |-> "home", metres |-> TRUE, says |-> "pin"]}
MCNotice == [turn |-> "there", metres |-> FALSE, says |-> "arrived"]
=============================================================================
