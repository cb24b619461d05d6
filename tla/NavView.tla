------------------------------ MODULE NavView -------------------------------
(***************************************************************************)
(* What the terminal makes of a packet: packet_merge.c, countdown.c and     *)
(* pipeline.c, as functions of their state (`pipe`) and of the view.        *)
(*                                                                          *)
(* A route's text is the turn it names, whether it states a distance, and   *)
(* what it says of the trip: a "turn", the final leg's "pin" (or a trip no  *)
(* longer than the way to its next turn), "arrived", or "none", no route.   *)
(* A distance is told apart only by the turn it was given for, a speed by   *)
(* being known.  With interpolation off, as built, speed plays no part in   *)
(* the distance.  Heading, odometer, clock and ETA are left out.            *)
(***************************************************************************)
EXTENDS Integers

CONSTANTS
    TelHold,     \* PACKET_MERGE_TELEMETRY_HOLD_MS (5 s), in ticks
    ArrivedHold, \* ARRIVED_HOLD_MS (8 s)
    NavHold      \* PACKET_MERGE_NAV_HOLD_MS and countdown.c's MAX_HOLD_MS (10 s)

ASSUME HoldAssumption ==
    TelHold \in Nat /\ ArrivedHold \in Nat /\ NavHold \in Nat /\ TelHold < ArrivedHold /\ ArrivedHold < NavHold

NoRoute == [turn |-> "none", metres |-> FALSE, says |-> "none"]

\* A packet speaks for the route, for the telemetry, or for both: v5 for both, a
\* telemetry-only v6 and what ancs_nav_to_raw makes of a notification for one.
Both(route) == [nav |-> TRUE, tel |-> TRUE, route |-> route]
NavOnly(route) == [nav |-> TRUE, tel |-> FALSE, route |-> route]
TelOnly == [nav |-> FALSE, tel |-> TRUE, route |-> NoRoute]

-----------------------------------------------------------------------------
(* packet_merge.c: the halves held and how long ago each was stamped.  (The  *)
(* age of a half that holds nothing decides nothing, and does not grow.)     *)

Nothing == [route |-> NoRoute, navAge |-> 0, speed |-> FALSE, telAge |-> 0]

MergeBlanking(held, p) ==
    LET telKept == ~p.tel /\ held.telAge <= TelHold
    IN  [route  |-> p.route,
         navAge |-> IF p.nav THEN 0 ELSE held.navAge,
         speed  |-> IF telKept THEN held.speed ELSE p.tel,
         telAge |-> IF p.tel THEN 0 ELSE held.telAge]
MergeKeepingSpeed(held, p) ==
    LET navKept == ~p.nav /\ held.navAge <= NavHold
    IN  [route  |-> IF navKept THEN held.route ELSE p.route,
         navAge |-> IF p.nav THEN 0 ELSE held.navAge,
         speed  |-> p.tel \/ held.speed,
         telAge |-> IF p.tel THEN 0 ELSE held.telAge]
\* packet_merge_accept: a half the packet does not speak for is kept while it is
\* fresh.
Merge(held, p) ==
    LET navKept == ~p.nav /\ held.navAge <= NavHold
        telKept == ~p.tel /\ held.telAge <= TelHold
    IN  [route  |-> IF navKept THEN held.route ELSE p.route,
         navAge |-> IF p.nav THEN 0 ELSE held.navAge,
         speed  |-> IF telKept THEN held.speed ELSE p.tel,
         telAge |-> IF p.tel THEN 0 ELSE held.telAge]

-----------------------------------------------------------------------------
(* countdown.c: whether it has a baseline, the turn its distance is for      *)
(* ("none" is 0 m), and the age of the last packet.                          *)

NoCountdown == [base |-> FALSE, anchor |-> "none", age |-> 0]

\* countdown_accept: only a distance moves the anchor.
CountdownAccept(count, route) ==
    [base |-> TRUE, anchor |-> IF route.metres THEN route.turn ELSE count.anchor, age |-> 0]

CountdownIsStale(count) == ~count.base \/ count.age > NavHold

-----------------------------------------------------------------------------
(* pipeline.c.                                                              *)

\* pipeline_reset, and the latches as they are at boot.
Fresh == [held |-> Nothing, count |-> NoCountdown, final |-> FALSE, arrived |-> FALSE, arrivedAge |-> 0]

IdleView == [state |-> "idle", turn |-> "none", distance |-> "none", speed |-> FALSE, stale |-> FALSE]

FinalEver(pipe, route) == route.says = "pin" \/ (pipe.final /\ route.says = "turn")
\* s_final_leg after a packet: latched by each route anew.
Final(pipe, route) == route.says = "pin"

\* view_state_apply_packet, on the pipeline's own state.  No route after the
\* final leg is the arrival.
Accept(pipe, p) ==
    LET held    == Merge(pipe.held, p)
        route   == held.route
        arrives == route.says = "arrived" \/ (route = NoRoute /\ pipe.final)
    IN  [held       |-> held,
         count      |-> IF route # NoRoute THEN CountdownAccept(pipe.count, route) ELSE NoCountdown,
         final      |-> Final(pipe, route),
         arrived    |-> arrives \/ (route = NoRoute /\ pipe.arrived),
         arrivedAge |-> IF route = NoRoute /\ ~arrives THEN pipe.arrivedAge ELSE 0]

ArrivalOver(pipe) == pipe.arrived /\ pipe.arrivedAge >= ArrivedHold
\* view_state_tick, on the pipeline's own state: the arrived page's time is up.
Ticked(pipe) == IF ArrivalOver(pipe) THEN [pipe EXCEPT !.arrived = FALSE, !.arrivedAge = 0] ELSE pipe

RefreshUnmarked(pipe, view) ==
    LET state == IF ArrivalOver(pipe) /\ view.state = "arrived" THEN "idle" ELSE view.state IN
    IF state \notin {"active", "stale"} THEN [view EXCEPT !.state = state]
    ELSE [view EXCEPT !.state = state, !.distance = pipe.count.anchor, !.stale = CountdownIsStale(pipe.count)]
\* view_state_tick, on a view.  Nothing but a packet brings a stale route back.
Refresh(pipe, view) ==
    LET state == IF ArrivalOver(pipe) /\ view.state = "arrived" THEN "idle" ELSE view.state
        stale == CountdownIsStale(pipe.count)
    IN  IF state \notin {"active", "stale"} THEN [view EXCEPT !.state = state]
        ELSE [view EXCEPT !.state = IF stale THEN "stale" ELSE state,
                          !.distance = pipe.count.anchor, !.stale = stale]

\* view_state_apply_packet, on the zeroed view it fills, once Accept has made
\* `pipe`.  (The baseline asked for without a distance has just been set.)
Drawn(pipe) ==
    LET route == pipe.held.route
        state == CASE pipe.arrived -> "arrived"
                   [] ~pipe.arrived /\ route = NoRoute -> "idle"
                   [] ~pipe.arrived /\ route # NoRoute ->
                        IF route.metres \/ pipe.count.base THEN "active" ELSE "idle"
    IN  Refresh(pipe, [IdleView EXCEPT !.state = state, !.turn = route.turn, !.speed = pipe.held.speed])

\* One tick goes by.
Aged(age, limit, counts) == IF counts /\ age < limit THEN age + 1 ELSE age
Later(pipe) ==
    [pipe EXCEPT !.held.navAge = Aged(@, NavHold + 1, pipe.held.route # NoRoute),
                 !.held.telAge = Aged(@, NavHold + 1, pipe.held.speed),
                 !.count.age   = Aged(@, NavHold + 1, pipe.count.base),
                 !.arrivedAge  = Aged(@, ArrivedHold, pipe.arrived)]
=============================================================================
