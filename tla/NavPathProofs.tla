--------------------------- MODULE NavPathProofs ----------------------------
(****************************************************************************)
(* Proofs about NavPath, for any routes, holds, queue and number of mishaps.*)
(*                                                                          *)
(* What the rider sees is drawn from what packet_merge.c holds, which is    *)
(* made of what came in the packets.  The invariant follows that chain: a   *)
(* phone's packets speak for what such a phone knows (PathInv), what is     *)
(* held is the last route heard or nothing, with the latches and ages that  *)
(* go with it (PipeInv), and the view is the one of what is held (ViewInv). *)
(*                                                                          *)
(* And about ArrowRoute, what the rider sees of it on the page: for any     *)
(* maneuvers, in any number and at any time.                                *)
(****************************************************************************)
EXTENDS NavPath, ArrowRoute, TLAPS

\* What an Android phone, and an iPhone, may write or announce.
Route == Routes \cup {Notice, NoRoute}
Turns == {r.turn : r \in Route}
PacketsOf(k) ==
    IF k = "android" THEN {Both(r) : r \in Route}
    ELSE {NavOnly(r) : r \in Routes} \cup {TelOnly}

Ages == 0 .. NavHold + 1
Pipes ==
    [held : [route : Route, navAge : Ages, speed : BOOLEAN, telAge : Ages],
     count : [base : BOOLEAN, anchor : Turns, age : Ages],
     final : BOOLEAN, arrived : BOOLEAN, arrivedAge : 0 .. ArrivedHold]
Views ==
    [state : {"idle", "active", "stale", "arrived"}, turn : Turns, distance : Turns,
     speed : BOOLEAN, stale : BOOLEAN]

TaskOK ==
    /\ pipe \in Pipes /\ view \in Views
    /\ loop \in {"idle", "drain", "tick"}
    /\ heard \in Route
    /\ {earned, unstored, marked} \subseteq BOOLEAN

\* The phone writes what such a phone knows; no iPhone runs the Android services.
PathInv ==
    /\ kind \in {"android", "iphone"}
    /\ kind = "iphone" => ~listening /\ ~serving
    /\ nav \in Route /\ maps \in Routes \cup {NoRoute}
    /\ {made, out} \subseteq PacketsOf(kind) \cup {None}
    /\ queue \in Seq(PacketsOf(kind))

\* A route ends the trip only by saying so, a route held is the last one heard,
\* and the ages are those of the packets they count from.
PipeInv ==
    LET held == pipe.held
        counter == pipe.count
    IN  /\ held.route \in {heard, NoRoute}
        /\ heard # NoRoute /\ held.navAge <= NavHold => held.route = heard
        /\ pipe.final <=> held.route.says = "pin"
        /\ pipe.final => earned
        /\ counter.base <=> held.route # NoRoute
        /\ held.route # NoRoute => counter.age <= held.navAge
        /\ held.route # NoRoute /\ held.route.says # "arrived" => ~pipe.arrived
        /\ pipe.arrived => earned \/ (kind = "iphone" /\ heard.says = "arrived")
        /\ counter.base => held.navAge <= counter.age \/ (kind = "iphone" /\ held.telAge <= counter.age)

\* The view stored last shows what is held.
ViewInv ==
    LET held == pipe.held
        counter == pipe.count
    IN  /\ ~unstored => view.turn = held.route.turn /\ view.speed = held.speed
        /\ ~unstored /\ view.state = "arrived" => pipe.arrived
        /\ (/\ ~unstored /\ ~marked
            /\ held.route # NoRoute /\ held.route.says # "arrived" /\ counter.age <= NavHold)
               => view.state = "active"
        /\ loop = "idle" /\ view.state = "active" => ~CountdownIsStale(counter)

NavInv == PathInv /\ TaskOK /\ PipeInv /\ ViewInv

-----------------------------------------------------------------------------
(* What the functions of NavView return.                                    *)

\* A route says one of four things, and no route is none of Maps' own.
LEMMA RouteFacts ==
    /\ \A r \in Route : r.turn \in Turns /\ r.says \in {"turn", "pin", "arrived", "none"}
    /\ NoRoute \in Route /\ NoRoute.says = "none" /\ NoRoute.turn = "none" /\ "none" \in Turns
    /\ \A r \in Routes \cup {Notice} : r \in Route /\ r # NoRoute
  <1>1. NoRoute.says = "none" /\ NoRoute.turn = "none"
    BY DEF NoRoute
  <1>2. \A r \in Routes \cup {Notice} : r.says \in {"turn", "pin", "arrived"} /\ r # NoRoute
    BY <1>1, NavPathAssumption
  <1>3. NoRoute \in Route /\ \A r \in Routes \cup {Notice} : r \in Route
    BY DEF Route
  <1>4. \A r \in Route : r.turn \in Turns
    BY DEF Turns
  <1>5. QED
    BY <1>1, <1>2, <1>3, <1>4 DEF Route

\* The holds are as they are ordered.
LEMMA HoldFacts == TelHold \in Nat /\ ArrivedHold \in Nat \ {0} /\ NavHold \in Nat /\ TelHold < NavHold
  BY HoldAssumption

\* A phone's packet speaks for the route with a route there can be.
LEMMA PacketFacts ==
    ASSUME NEW k \in {"android", "iphone"}, NEW p \in PacketsOf(k)
    PROVE  /\ p.nav \in BOOLEAN /\ p.tel \in BOOLEAN /\ p.route \in Route
           /\ ~p.nav => k = "iphone" /\ p.tel /\ p.route = NoRoute
           /\ k = "iphone" /\ p.nav => p.route # NoRoute
  <1>1. CASE k = "android"
    <2>1. PICK r \in Route : p = Both(r)
      BY <1>1 DEF PacketsOf
    <2>2. QED
      BY <1>1, <2>1 DEF Both
  <1>2. CASE k = "iphone" /\ p # TelOnly
    <2>1. PICK r \in Routes : p = NavOnly(r)
      BY <1>2 DEF PacketsOf
    <2>2. r \in Route /\ r # NoRoute
      BY RouteFacts
    <2>3. QED
      BY <1>2, <2>1, <2>2 DEF NavOnly
  <1>3. CASE k = "iphone" /\ p = TelOnly
    BY <1>3, RouteFacts DEF TelOnly
  <1>4. QED
    BY <1>1, <1>2, <1>3

\* The time of the arrived page ends the arrival and touches nothing else.
LEMMA TickedFacts ==
    ASSUME NEW p \in Pipes
    PROVE  /\ Ticked(p) \in Pipes
           /\ Ticked(p).held = p.held /\ Ticked(p).count = p.count /\ Ticked(p).final = p.final
           /\ Ticked(p).arrived <=> p.arrived /\ ~ArrivalOver(p)
  <1>1. CASE ~ArrivalOver(p)
    BY <1>1 DEF Ticked
  <1>2. CASE ArrivalOver(p)
    <2>1. Ticked(p) = [p EXCEPT !.arrived = FALSE, !.arrivedAge = 0]
      BY <1>2 DEF Ticked
    <2>2. FALSE \in BOOLEAN /\ 0 \in 0 .. ArrivedHold
      BY HoldFacts
    <2>3. QED
      BY <1>2, <2>1, <2>2 DEF Pipes
  <1>3. QED
    BY <1>1, <1>2

\* Accept gives a pipe, whose parts are read off Merge.
LEMMA AcceptFits ==
    ASSUME NEW p \in Pipes, NEW k \in {"android", "iphone"}, NEW q \in PacketsOf(k)
    PROVE  Accept(p, q) \in Pipes
  <1>1. Merge(p.held, q) \in [route : Route, navAge : Ages, speed : BOOLEAN, telAge : Ages]
    BY PacketFacts, HoldFacts DEF Merge, Pipes, Ages
  <1>2. \A r \in Route : CountdownAccept(p.count, r) \in [base : BOOLEAN, anchor : Turns, age : Ages]
    BY RouteFacts, HoldFacts DEF CountdownAccept, Pipes, Ages
  <1>3. NoCountdown \in [base : BOOLEAN, anchor : Turns, age : Ages]
    BY RouteFacts, HoldFacts DEF NoCountdown, Ages
  <1>4. QED
    BY <1>1, <1>2, <1>3, HoldFacts DEF Accept, Final, Pipes

\* A tick marks a route stale when its time has come, and ends an arrival.
LEMMA RefreshFacts ==
    ASSUME NEW p \in Pipes, NEW v \in Views
    PROVE  /\ Refresh(p, v) \in Views
           /\ Refresh(p, v).turn = v.turn /\ Refresh(p, v).speed = v.speed
           /\ Refresh(p, v).state = "arrived" => v.state = "arrived" /\ ~ArrivalOver(p)
           /\ Refresh(p, v).state = "active" <=> v.state = "active" /\ ~CountdownIsStale(p.count)
  BY DEF Refresh, Pipes, Views, CountdownIsStale

\* The view drawn is that of what is held.
LEMMA DrawnFacts ==
    ASSUME NEW p \in Pipes
    PROVE  /\ Drawn(p) \in Views
           /\ Drawn(p).turn = p.held.route.turn /\ Drawn(p).speed = p.held.speed
           /\ Drawn(p).state = "arrived" => p.arrived /\ ~ArrivalOver(p)
           /\ p.held.route # NoRoute /\ ~p.arrived /\ ~CountdownIsStale(p.count) => Drawn(p).state = "active"
  <1> DEFINE route == p.held.route
             state == CASE p.arrived -> "arrived"
                        [] ~p.arrived /\ route = NoRoute -> "idle"
                        [] ~p.arrived /\ route # NoRoute ->
                             IF route.metres \/ p.count.base THEN "active" ELSE "idle"
             drawn == [IdleView EXCEPT !.state = state, !.turn = route.turn, !.speed = p.held.speed]
  <1>1. route.turn \in Turns /\ p.held.speed \in BOOLEAN
    BY RouteFacts DEF Pipes
  <1>2. /\ state \in {"idle", "active", "stale", "arrived"}
        /\ state = "arrived" => p.arrived
        /\ route # NoRoute /\ ~p.arrived /\ p.count.base => state = "active"
    BY DEF Pipes
  <1>3. /\ drawn \in Views /\ drawn.state = state
        /\ drawn.turn = route.turn /\ drawn.speed = p.held.speed
    <2> HIDE DEF state
    <2> QED
      BY <1>1, <1>2, RouteFacts DEF IdleView, Views
  <1>4. Drawn(p) = Refresh(p, drawn)
    BY DEF Drawn
  <1> HIDE DEF state, drawn
  <1>5. QED
    BY <1>2, <1>3, <1>4, RefreshFacts DEF CountdownIsStale

-----------------------------------------------------------------------------
(* The invariant.                                                           *)

TaskInv == TaskOK /\ PipeInv /\ ViewInv

LEMMA NavInvInit == Init => NavInv
  <1> SUFFICES ASSUME Init PROVE NavInv
    OBVIOUS
  <1>1. PathInv
    <2>1. kind \in {"android", "iphone"}
      BY NavPathAssumption DEF Init
    <2>2. kind = "iphone" => ~listening /\ ~serving
      BY DEF Init
    <2>3. queue \in Seq(PacketsOf(kind))
      BY DEF Init
    <2>4. QED
      BY <2>1, <2>2, <2>3, RouteFacts DEF Init, PathInv
  <1>2. TaskOK
    <2>1. pipe \in Pipes
      BY HoldFacts, RouteFacts DEF Init, Fresh, Nothing, NoCountdown, Pipes, Ages
    <2>2. view \in Views
      BY RouteFacts DEF Init, IdleView, Views
    <2>3. QED
      BY <2>1, <2>2, RouteFacts DEF Init, TaskOK
  <1>3. PipeInv
    BY RouteFacts DEF Init, PipeInv, Fresh, Nothing, NoCountdown
  <1>4. ViewInv
    BY RouteFacts DEF Init, ViewInv, Fresh, Nothing, NoCountdown, IdleView
  <1>5. QED
    BY <1>1, <1>2, <1>3, <1>4 DEF NavInv

\* A packet the phone may write joins the queue, or is dropped.
LEMMA SendFits ==
    ASSUME NEW p \in PacketsOf(kind), PathInv, Send(p)
    PROVE  queue' \in Seq(PacketsOf(kind)) /\ Len(queue') >= Len(queue)
  BY DEF PathInv, Send

\* Whatever route is kept on an Android phone, the packet of it may be written.
LEMMA WriteFits ==
    /\ kind = "android" => \A r \in Route : Both(r) \in PacketsOf(kind)
    /\ kind = "iphone" => TelOnly \in PacketsOf(kind) /\ \A r \in Routes : NavOnly(r) \in PacketsOf(kind)
  BY DEF PacketsOf

LEMMA EmitFits ==
    ASSUME PathInv, NEW r \in Route, Emit(r)
    PROVE  nav' \in Route /\ out' \in PacketsOf(kind) \cup {None}
  BY WriteFits DEF Emit, Publish, PathInv

LEMMA PathInvStep == PathInv /\ [Next]_vars => PathInv'
  <1> SUFFICES ASSUME PathInv, [Next]_vars PROVE PathInv'
    OBVIOUS
  <1>1. ASSUME NEW route \in Routes, Post(route) PROVE PathInv'
    BY <1>1, RouteFacts, EmitFits DEF Post, PathInv
  <1>2. CASE Remove
    BY <1>2, RouteFacts, EmitFits DEF Remove, PathInv
  <1>3. CASE PostNotice
    BY <1>3, RouteFacts, EmitFits DEF PostNotice, PathInv
  <1>4. CASE RemoveNotice
    BY <1>4, RouteFacts, EmitFits DEF RemoveNotice, PathInv
  <1>5. CASE Fix
    BY <1>5, WriteFits DEF Fix, Publish, PathInv
  <1>6. CASE Listen
    BY <1>6, WriteFits, RouteFacts DEF Listen, Publish, PathInv, Route
  <1>7. CASE Unlisten
    BY <1>7, WriteFits DEF Unlisten, Publish, PathInv
  <1>8. CASE Serve
    BY <1>8 DEF Serve, PathInv, linkVars, taskVars
  <1>9. CASE Kill
    BY <1>9, RouteFacts DEF Kill, PathInv
  <1>10. CASE Connect
    BY <1>10, WriteFits DEF Connect, PathInv, phoneVars
  <1>11. CASE Offer
    BY <1>11 DEF Offer, PathInv, phoneVars
  <1>12. CASE Disconnect
    BY <1>12 DEF Disconnect, PathInv, phoneVars
  <1>13. CASE AppWrites
    BY <1>13, WriteFits DEF AppWrites, PathInv, phoneVars
  <1>14. CASE Receive
    BY <1>14, SendFits DEF Receive, PathInv, phoneVars
  <1>15. CASE Garble
    BY <1>15 DEF Garble, PathInv, phoneVars
  <1>16. CASE Announce
    BY <1>16, SendFits, WriteFits DEF Announce, PathInv, phoneVars, linkVars
  <1>17. CASE Take
    BY <1>17 DEF Take, PathInv, phoneVars, linkVars
  <1>18. CASE Drained \/ TickView \/ SkipTick \/ Elapse
    BY <1>18 DEF Drained, TickView, SkipTick, Elapse, PathInv, phoneVars, linkVars
  <1>19. CASE Restart
    BY <1>19 DEF Restart, PathInv, phoneVars
  <1>20. CASE UNCHANGED vars
    BY <1>20 DEF vars, PathInv, phoneVars, linkVars
  <1>21. QED
    BY <1>1, <1>2, <1>3, <1>4, <1>5, <1>6, <1>7, <1>8, <1>9, <1>10, <1>11, <1>12, <1>13, <1>14,
       <1>15, <1>16, <1>17, <1>18, <1>19, <1>20 DEF Next

\* The phone and the link leave the task's own state alone.
LEMMA PhoneSteps ==
    ASSUME \/ \E route \in Routes : Post(route)
           \/ Remove \/ PostNotice \/ RemoveNotice \/ Fix \/ Listen \/ Unlisten \/ Serve \/ Kill
           \/ Connect \/ Offer \/ Disconnect \/ AppWrites \/ Receive \/ Garble \/ Announce
    PROVE  UNCHANGED <<kind, taskVars>>
  BY DEF Post, Remove, PostNotice, RemoveNotice, Fix, Listen, Unlisten, Serve, Kill,
         Connect, Offer, Disconnect, AppWrites, Receive, Garble, Announce

LEMMA TaskInvQuiet == TaskInv /\ UNCHANGED <<kind, taskVars>> => TaskInv'
  BY DEF TaskInv, TaskOK, PipeInv, ViewInv, taskVars

\* A packet is merged, and the view drawn of what is held then.
LEMMA TaskInvTake == NavInv /\ Take => TaskInv'
  <1> SUFFICES ASSUME NavInv, Take PROVE TaskInv'
    OBVIOUS
  <1> DEFINE p     == Head(queue)
             pipe1 == Accept(pipe, p)
             held1 == Merge(pipe.held, p)
  <1>1. /\ loop' = "drain" /\ kind' = kind
        /\ pipe' = Ticked(pipe1)
        /\ \/ view' = Drawn(pipe1) /\ unstored' = FALSE /\ marked' = FALSE
           \/ UNCHANGED <<view, marked>> /\ unstored' = TRUE
        /\ heard' = IF p.nav THEN p.route ELSE heard
        /\ earned' = IF p.nav /\ p.route # NoRoute THEN p.route.says # "turn"
                     ELSE earned /\ ~ArrivalOver(pipe1)
    BY DEF Take
  <1>2. kind \in {"android", "iphone"} /\ p \in PacketsOf(kind)
    BY DEF Take, NavInv, PathInv
  <1>3. /\ p.nav \in BOOLEAN /\ p.tel \in BOOLEAN /\ p.route \in Route
        /\ ~p.nav => kind = "iphone" /\ p.tel /\ p.route = NoRoute
        /\ kind = "iphone" /\ p.nav => p.route # NoRoute
    BY <1>2, PacketFacts
  <1>4. /\ pipe \in Pipes /\ view \in Views /\ heard \in Route
        /\ {earned, unstored, marked} \subseteq BOOLEAN
        /\ PipeInv
    BY DEF NavInv, TaskOK
  <1>5. pipe1 \in Pipes
    BY <1>2, <1>4, AcceptFits
  <1>6. /\ pipe1.held = held1
        /\ pipe1.final <=> held1.route.says = "pin"
        /\ held1.route # NoRoute => pipe1.count.base /\ pipe1.count.age = 0
        /\ held1.route = NoRoute => ~pipe1.count.base
        /\ held1.route # NoRoute => (pipe1.arrived <=> held1.route.says = "arrived")
        /\ held1.route = NoRoute => (pipe1.arrived <=> pipe.final \/ pipe.arrived)
    BY <1>4, RouteFacts DEF Accept, Final, CountdownAccept, NoCountdown, Pipes
  <1>7. /\ held1.route = IF p.nav \/ pipe.held.navAge > NavHold THEN p.route ELSE pipe.held.route
        /\ held1.navAge = IF p.nav THEN 0 ELSE pipe.held.navAge
        /\ ~p.nav => held1.telAge = 0
        /\ held1.route \in Route
    BY <1>3, <1>4, HoldFacts DEF Merge, Pipes, Ages
  <1>8. /\ pipe' \in Pipes /\ pipe'.held = held1 /\ pipe'.count = pipe1.count /\ pipe'.final = pipe1.final
        /\ pipe'.arrived <=> pipe1.arrived /\ ~ArrivalOver(pipe1)
    BY <1>1, <1>5, <1>6, TickedFacts
  <1>9. ArrivalOver(pipe1) => pipe1.arrived
    BY DEF ArrivalOver
  <1>10. ArrivalOver(pipe1) \in BOOLEAN
    BY <1>5 DEF ArrivalOver, Pipes
  <1>11. /\ Drawn(pipe1) \in Views
         /\ Drawn(pipe1).turn = held1.route.turn /\ Drawn(pipe1).speed = held1.speed
         /\ Drawn(pipe1).state = "arrived" => pipe1.arrived /\ ~ArrivalOver(pipe1)
         /\ held1.route # NoRoute /\ ~pipe1.arrived /\ ~CountdownIsStale(pipe1.count)
               => Drawn(pipe1).state = "active"
    BY <1>5, <1>6, DrawnFacts
  <1>12. p.route # NoRoute => p.route.says \in {"turn", "pin", "arrived"}
    BY <1>3, NavPathAssumption DEF Route
  <1> HIDE DEF p, pipe1, held1
  <1>13. TaskOK'
    <2>1. pipe' \in Pipes /\ view' \in Views
      BY <1>1, <1>4, <1>8, <1>11
    <2>2. heard' \in Route
      BY <1>1, <1>3, <1>4
    <2>3. earned' \in BOOLEAN /\ unstored' \in BOOLEAN /\ marked' \in BOOLEAN
      BY <1>1, <1>4, <1>10
    <2>4. QED
      BY <1>1, <2>1, <2>2, <2>3 DEF TaskOK
  <1>14. PipeInv'
    <2>1. held1.route \in {heard', NoRoute}
      BY <1>1, <1>3, <1>4, <1>7 DEF PipeInv
    <2>2. heard' # NoRoute /\ held1.navAge <= NavHold => held1.route = heard'
      BY <1>1, <1>3, <1>4, <1>7, HoldFacts DEF PipeInv, Pipes, Ages
    <2>3. pipe1.final => earned'
      BY <1>1, <1>3, <1>4, <1>6, <1>7, <1>9, RouteFacts DEF PipeInv
    <2>4. pipe1.count.base <=> held1.route # NoRoute
      BY <1>5, <1>6 DEF Pipes
    <2>5. held1.route # NoRoute => pipe1.count.age <= held1.navAge
      BY <1>4, <1>6, <1>7, HoldFacts DEF Pipes, Ages
    <2>6. pipe'.arrived => earned' \/ (kind = "iphone" /\ heard'.says = "arrived")
      <3>1. CASE p.nav /\ p.route # NoRoute
        BY <3>1, <1>1, <1>6, <1>7, <1>8
      <3>2. CASE p.nav /\ p.route = NoRoute
        BY <3>2, <1>1, <1>2, <1>3, <1>4, <1>6, <1>7, <1>8 DEF PipeInv
      <3>3. CASE ~p.nav
        BY <3>3, <1>1, <1>3, <1>4, <1>6, <1>7, <1>8, RouteFacts DEF PipeInv
      <3>4. QED
        BY <1>3, <3>1, <3>2, <3>3
    <2>7. pipe1.count.base => held1.navAge <= pipe1.count.age \/ (kind = "iphone" /\ held1.telAge <= pipe1.count.age)
      BY <1>3, <1>6, <1>7, <2>4
    <2>8. held1.route # NoRoute /\ held1.route.says # "arrived" => ~pipe'.arrived
      BY <1>6, <1>8
    <2>9. QED
      BY <1>1, <1>6, <1>8, <2>1, <2>2, <2>3, <2>4, <2>5, <2>6, <2>7, <2>8 DEF PipeInv
  <1>15. ViewInv'
    <2>1. ~unstored' => view' = Drawn(pipe1)
      BY <1>1
    <2>2. held1.route # NoRoute => ~CountdownIsStale(pipe1.count)
      BY <1>6, HoldFacts DEF CountdownIsStale
    <2>3. QED
      BY <1>1, <1>6, <1>8, <1>11, <2>1, <2>2 DEF ViewInv
  <1>16. QED
    BY <1>13, <1>14, <1>15 DEF TaskInv

\* The queue is drained between two ticks; nothing but the loop moves.
LEMMA TaskInvTurn == TaskInv /\ (Drained \/ SkipTick) => TaskInv'
  BY DEF TaskInv, TaskOK, PipeInv, ViewInv, Drained, SkipTick

\* A tick ends an arrival in the pipe and on the view at once, and leaves what is
\* held as it is.
LEMMA TaskInvTick == TaskInv /\ TickView => TaskInv'
  <1> SUFFICES ASSUME TaskInv, TickView PROVE TaskInv'
    OBVIOUS
  <1> DEFINE drawn == Refresh(pipe, view)
  <1>1. /\ loop' = "idle" /\ UNCHANGED <<kind, heard, unstored>>
        /\ pipe' = Ticked(pipe) /\ view' = Fault(drawn)
        /\ earned' = (earned /\ ~ArrivalOver(pipe))
        /\ marked' = (marked \/ faulted)
    BY DEF TickView
  <1>2. /\ pipe \in Pipes /\ view \in Views /\ PipeInv /\ ViewInv
        /\ heard \in Route /\ {earned, unstored, marked} \subseteq BOOLEAN
    BY DEF TaskInv, TaskOK
  <1>3. /\ pipe' \in Pipes
        /\ pipe'.held = pipe.held /\ pipe'.count = pipe.count /\ pipe'.final = pipe.final
        /\ pipe'.arrived <=> pipe.arrived /\ ~ArrivalOver(pipe)
    BY <1>1, <1>2, TickedFacts
  <1>4. /\ drawn \in Views /\ drawn.turn = view.turn /\ drawn.speed = view.speed
        /\ drawn.state = "arrived" => view.state = "arrived" /\ ~ArrivalOver(pipe)
        /\ drawn.state = "active" <=> view.state = "active" /\ ~CountdownIsStale(pipe.count)
    BY <1>2, RefreshFacts
  <1>5. ArrivalOver(pipe) => pipe.arrived
    BY DEF ArrivalOver
  <1> HIDE DEF drawn
  <1>6. /\ view' \in Views /\ view'.turn = drawn.turn /\ view'.speed = drawn.speed
        /\ view'.state = "arrived" => drawn.state = "arrived"
        /\ view'.state = "active" => drawn.state = "active"
        /\ ~faulted => view'.state = drawn.state
    <2>1. CASE faulted
      <3>1. view' = [drawn EXCEPT !.stale = TRUE, !.state = IF @ = "active" THEN "stale" ELSE @]
        BY <1>1, <2>1 DEF Fault
      <3>2. QED
        BY <1>4, <2>1, <3>1 DEF Views
    <2>2. CASE ~faulted
      BY <1>1, <1>4, <2>2 DEF Fault
    <2>3. QED
      BY <2>1, <2>2
  <1>7. TaskOK'
    <2>1. earned' \in BOOLEAN /\ marked' \in BOOLEAN
      BY <1>1
    <2>2. QED
      BY <1>1, <1>2, <1>3, <1>6, <2>1 DEF TaskOK
  <1>8. PipeInv'
    <2>1. pipe.final => ~pipe.arrived
      BY <1>2, RouteFacts DEF PipeInv
    <2>2. pipe'.final => earned'
      BY <1>1, <1>2, <1>3, <1>5, <2>1 DEF PipeInv
    <2>3. pipe'.arrived => earned' \/ (kind' = "iphone" /\ heard'.says = "arrived")
      BY <1>1, <1>2, <1>3 DEF PipeInv
    <2>4. QED
      BY <1>1, <1>2, <1>3, <2>2, <2>3 DEF PipeInv
  <1>9. ViewInv'
    <2>1. ~unstored' => view'.turn = pipe'.held.route.turn /\ view'.speed = pipe'.held.speed
      BY <1>1, <1>2, <1>3, <1>4, <1>6 DEF ViewInv
    <2>2. ~unstored' /\ view'.state = "arrived" => pipe'.arrived
      BY <1>1, <1>2, <1>3, <1>4, <1>6 DEF ViewInv
    <2>3. ASSUME ~unstored', ~marked', pipe'.held.route # NoRoute, pipe'.held.route.says # "arrived",
                 pipe'.count.age <= NavHold
          PROVE  view'.state = "active"
      <3>1. ~faulted /\ ~marked /\ ~unstored
        BY <1>1, <1>2, <2>3
      <3>2. pipe.count.base
        BY <1>2, <1>3, <2>3 DEF PipeInv
      <3>3. ~CountdownIsStale(pipe.count)
        BY <1>2, <1>3, <2>3, <3>2, HoldFacts DEF CountdownIsStale, Pipes, Ages
      <3>4. view.state = "active"
        BY <1>2, <1>3, <2>3, <3>1 DEF ViewInv
      <3>5. QED
        BY <1>4, <1>6, <3>1, <3>3, <3>4
    <2>4. view'.state = "active" => ~CountdownIsStale(pipe'.count)
      BY <1>3, <1>4, <1>6
    <2>5. QED
      BY <2>1, <2>2, <2>3, <2>4 DEF ViewInv
  <1>10. QED
    BY <1>7, <1>8, <1>9 DEF TaskInv

\* Ages grow together up to their limits.
LEMMA AgedFacts ==
    ASSUME NEW limit \in Nat, NEW age \in 0 .. limit, NEW counts \in BOOLEAN
    PROVE  /\ Aged(age, limit, counts) \in 0 .. limit
           /\ Aged(age, limit, counts) = IF counts /\ age < limit THEN age + 1 ELSE age
  BY DEF Aged

LEMMA TaskInvElapse == TaskInv /\ Elapse => TaskInv'
  <1> SUFFICES ASSUME TaskInv, Elapse PROVE TaskInv'
    OBVIOUS
  <1> DEFINE held == pipe.held
             counter == pipe.count
             navAge == Aged(held.navAge, NavHold + 1, held.route # NoRoute)
             telAge == Aged(held.telAge, NavHold + 1, held.speed)
             age == Aged(counter.age, NavHold + 1, counter.base)
             arrivedAge == Aged(pipe.arrivedAge, ArrivedHold, pipe.arrived)
  <1>1. loop' = "drain" /\ pipe' = Later(pipe) /\ UNCHANGED <<kind, view, heard, earned, unstored, marked>>
    BY DEF Elapse
  <1>2. pipe \in Pipes /\ TaskOK /\ PipeInv /\ ViewInv
    BY DEF TaskInv, TaskOK
  <1>3. /\ navAge \in Ages /\ telAge \in Ages /\ age \in Ages /\ arrivedAge \in 0 .. ArrivedHold
        /\ navAge = IF held.route # NoRoute /\ held.navAge < NavHold + 1 THEN held.navAge + 1 ELSE held.navAge
        /\ telAge = IF held.speed /\ held.telAge < NavHold + 1 THEN held.telAge + 1 ELSE held.telAge
        /\ age = IF counter.base /\ counter.age < NavHold + 1 THEN counter.age + 1 ELSE counter.age
    <2>1. /\ held.navAge \in Ages /\ held.telAge \in Ages /\ held.speed \in BOOLEAN
          /\ counter.age \in Ages /\ counter.base \in BOOLEAN
          /\ pipe.arrivedAge \in 0 .. ArrivedHold /\ pipe.arrived \in BOOLEAN
      BY <1>2 DEF Pipes
    <2> HIDE DEF held, counter
    <2>2. Ages = 0 .. NavHold + 1 /\ NavHold + 1 \in Nat /\ ArrivedHold \in Nat
      BY HoldFacts DEF Ages
    <2>3. navAge \in Ages /\ navAge = IF held.route # NoRoute /\ held.navAge < NavHold + 1 THEN held.navAge + 1 ELSE held.navAge
      BY <2>1, <2>2, AgedFacts
    <2>4. telAge \in Ages /\ telAge = IF held.speed /\ held.telAge < NavHold + 1 THEN held.telAge + 1 ELSE held.telAge
      BY <2>1, <2>2, AgedFacts
    <2>5. age \in Ages /\ age = IF counter.base /\ counter.age < NavHold + 1 THEN counter.age + 1 ELSE counter.age
      BY <2>1, <2>2, AgedFacts
    <2>6. arrivedAge \in 0 .. ArrivedHold
      BY <2>1, <2>2, AgedFacts
    <2>7. QED
      BY <2>3, <2>4, <2>5, <2>6
  <1> HIDE DEF navAge, telAge, age, arrivedAge
  <1>4. /\ pipe' \in Pipes
        /\ pipe'.held.route = held.route /\ pipe'.held.speed = held.speed
        /\ pipe'.held.navAge = navAge /\ pipe'.held.telAge = telAge
        /\ pipe'.count.base = counter.base /\ pipe'.count.age = age
        /\ pipe'.final = pipe.final /\ pipe'.arrived = pipe.arrived
    <2>1. pipe' = [pipe EXCEPT !.held.navAge = navAge, !.held.telAge = telAge,
                               !.count.age = age, !.arrivedAge = arrivedAge]
      BY <1>1 DEF Later, navAge, telAge, age, arrivedAge
    <2>2. QED
      BY <1>2, <1>3, <2>1 DEF Pipes
  <1>5. held.navAge \in Ages /\ held.telAge \in Ages /\ counter.age \in Ages
    BY <1>2 DEF Pipes
  <1>6. TaskOK'
    BY <1>1, <1>2, <1>4 DEF TaskOK
  <1>7. PipeInv'
    <2>1. heard # NoRoute /\ navAge <= NavHold => held.route = heard
      BY <1>2, <1>3, <1>5, HoldFacts DEF PipeInv, Ages
    <2>2. held.route # NoRoute => age <= navAge
      BY <1>2, <1>3, <1>5, HoldFacts DEF PipeInv, Ages
    <2>3. counter.base => navAge <= age \/ (kind = "iphone" /\ telAge <= age)
      BY <1>2, <1>3, <1>5, HoldFacts DEF PipeInv, Ages
    <2>4. QED
      BY <1>1, <1>2, <1>4, <2>1, <2>2, <2>3 DEF PipeInv
  <1>8. ViewInv'
    <2>1. age <= NavHold => counter.age <= NavHold
      BY <1>3, <1>5, HoldFacts DEF Ages
    <2>2. QED
      BY <1>1, <1>2, <1>4, <2>1 DEF ViewInv
  <1>9. QED
    BY <1>6, <1>7, <1>8 DEF TaskInv

LEMMA TaskInvRestart == NavInv /\ Restart => TaskInv'
  <1> SUFFICES ASSUME NavInv, Restart PROVE TaskInv'
    OBVIOUS
  <1>1. pipe' = Fresh /\ view' = IdleView /\ heard' = NoRoute /\ loop' = "idle" /\ kind' = kind
        /\ earned' = FALSE /\ unstored' = FALSE /\ marked' = FALSE
    BY DEF Restart
  <1>2. Fresh \in Pipes /\ IdleView \in Views
    BY HoldFacts, RouteFacts DEF Fresh, Nothing, NoCountdown, Pipes, Ages, IdleView, Views
  <1>3. TaskOK'
    BY <1>1, <1>2, RouteFacts DEF TaskOK
  <1>4. PipeInv'
    BY <1>1, RouteFacts DEF PipeInv, Fresh, Nothing, NoCountdown
  <1>5. ViewInv'
    BY <1>1, RouteFacts DEF ViewInv, Fresh, Nothing, NoCountdown, IdleView
  <1>6. QED
    BY <1>3, <1>4, <1>5 DEF TaskInv

LEMMA NavInvStep == NavInv /\ [Next]_vars => NavInv'
  <1> SUFFICES ASSUME NavInv, [Next]_vars PROVE NavInv'
    OBVIOUS
  <1>1. PathInv'
    BY PathInvStep DEF NavInv
  <1>2. TaskInv
    BY DEF NavInv, TaskInv
  <1>3. TaskInv'
    <2>1. CASE Take
      BY <2>1, TaskInvTake
    <2>2. CASE Drained \/ SkipTick
      BY <1>2, <2>2, TaskInvTurn
    <2>3. CASE TickView
      BY <1>2, <2>3, TaskInvTick
    <2>4. CASE Elapse
      BY <1>2, <2>4, TaskInvElapse
    <2>5. CASE Restart
      BY <2>5, TaskInvRestart
    <2>6. CASE UNCHANGED vars
      BY <1>2, <2>6, TaskInvQuiet DEF vars
    <2>7. ASSUME ~Take, ~Drained, ~SkipTick, ~TickView, ~Elapse, ~Restart, ~UNCHANGED vars
          PROVE  TaskInv'
      <3>1. UNCHANGED <<kind, taskVars>>
        BY <2>7, PhoneSteps DEF Next
      <3>2. QED
        BY <1>2, <3>1, TaskInvQuiet
    <2>8. QED
      BY <2>1, <2>2, <2>3, <2>4, <2>5, <2>6, <2>7
  <1>4. QED
    BY <1>1, <1>3 DEF NavInv, TaskInv

THEOREM NavPathInvariant == Spec => []NavInv
  BY NavInvInit, NavInvStep, PTL DEF Spec

-----------------------------------------------------------------------------
(* What the rider sees.                                                     *)

\* While the last route heard is within its hold the page shows it, and while the
\* telemetry is, the speed (packet_merge_accept, view_state_apply_packet).
THEOREM HalvesAreKept == Spec => []HalvesKept
  <1>1. NavInv => HalvesKept
    <2> SUFFICES ASSUME NavInv, AtRest PROVE
            /\ (heard # NoRoute /\ pipe.held.navAge <= NavHold /\ ~marked) =>
                  /\ view.turn = heard.turn
                  /\ heard.says # "arrived" => view.state = "active"
            /\ (pipe.held.speed /\ pipe.held.telAge <= TelHold) => view.speed
      BY DEF HalvesKept
    <2>1. /\ pipe \in Pipes /\ PipeInv /\ ViewInv /\ ~unstored
      BY DEF NavInv, TaskOK, AtRest
    <2>2. pipe.held.navAge \in Ages /\ pipe.count.age \in Ages
      BY <2>1 DEF Pipes
    <2>3. pipe.held.route # NoRoute /\ pipe.held.navAge <= NavHold => pipe.count.age <= NavHold
      BY <2>1, <2>2, HoldFacts DEF PipeInv, Ages
    <2>4. QED
      BY <2>1, <2>3 DEF PipeInv, ViewInv
  <1>2. QED
    BY <1>1, NavPathInvariant, PTL

\* The arrived page comes of a final leg, or of Maps saying so
\* (view_state_apply_packet, view_state_tick).
THEOREM ArrivalIsEarned == Spec => []ArrivalEarned
  <1>1. NavInv => ArrivalEarned
    BY DEF NavInv, PipeInv, ViewInv, ArrivalEarned
  <1>2. QED
    BY <1>1, NavPathInvariant, PTL

\* A route shown live was heard of within its hold (countdown_is_stale).
THEOREM LiveIsHeard == Spec => []LiveMeansHeard
  <1>1. NavInv => LiveMeansHeard
    <2> SUFFICES ASSUME NavInv, AtRest, view.state = "active" PROVE
            pipe.held.navAge <= NavHold \/ (kind = "iphone" /\ pipe.held.telAge <= NavHold)
      BY DEF LiveMeansHeard
    <2>1. /\ pipe \in Pipes /\ PipeInv /\ ViewInv /\ loop = "idle"
      BY DEF NavInv, TaskOK, AtRest
    <2>2. pipe.held.navAge \in Ages /\ pipe.held.telAge \in Ages /\ pipe.count.age \in Ages
      BY <2>1 DEF Pipes
    <2>3. pipe.count.base /\ ~(pipe.count.age > NavHold)
      BY <2>1 DEF ViewInv, CountdownIsStale
    <2>4. QED
      BY <2>1, <2>2, <2>3, HoldFacts DEF PipeInv, Ages
  <1>2. QED
    BY <1>1, NavPathInvariant, PTL

\* Only the task takes packets out of the queue, or a restart.
LEMMA QueueShrinks ==
    ASSUME NavInv, [Next]_vars, Len(queue') < Len(queue)
    PROVE  Take \/ Restart
  <1>1. Len(queue) \in Nat
    BY DEF NavInv, PathInv
  <1>2. ASSUME UNCHANGED queue PROVE FALSE
    BY <1>1, <1>2
  <1>3. CASE Receive
    BY <1>1, <1>3 DEF Receive, Send, NavInv, PathInv
  <1>4. CASE Announce
    BY <1>1, <1>4 DEF Announce, Send, NavInv, PathInv
  <1>5. CASE \/ \E route \in Routes : Post(route)
             \/ Remove \/ PostNotice \/ RemoveNotice \/ Fix \/ Listen \/ Unlisten \/ Serve \/ Kill
    BY <1>2, <1>5 DEF Post, Remove, PostNotice, RemoveNotice, Fix, Listen, Unlisten, Serve, Kill
  <1>6. CASE Connect \/ Offer \/ Disconnect \/ AppWrites \/ Garble
    BY <1>2, <1>6 DEF Connect, Offer, Disconnect, AppWrites, Garble
  <1>7. CASE Drained \/ TickView \/ SkipTick \/ Elapse
    BY <1>2, <1>7 DEF Drained, TickView, SkipTick, Elapse
  <1>8. CASE UNCHANGED vars
    BY <1>2, <1>8 DEF vars
  <1>9. QED
    BY <1>3, <1>4, <1>5, <1>6, <1>7, <1>8 DEF Next

\* A packet that finds the telemetry past its hold blanks the speed.
THEOREM SpeedRunsOutHolds == Spec => SpeedRunsOut
  <1>1. ASSUME NavInv, [Next]_vars, Len(queue') < Len(queue), pipe'.held.telAge > TelHold, ~unstored'
        PROVE  ~view'.speed
    <2>1. CASE Restart
      BY <2>1 DEF Restart, IdleView
    <2>2. CASE Take
      <3> DEFINE p     == Head(queue)
                 pipe1 == Accept(pipe, p)
      <3>1. view' = Drawn(pipe1) /\ pipe' = Ticked(pipe1)
        BY <1>1, <2>2 DEF Take
      <3>2. pipe \in Pipes /\ p \in PacketsOf(kind) /\ kind \in {"android", "iphone"}
        BY <1>1, <2>2 DEF Take, NavInv, TaskOK, PathInv
      <3>3. pipe1 \in Pipes
        BY <3>2, AcceptFits
      <3>4. pipe'.held = pipe1.held /\ view'.speed = pipe1.held.speed
        BY <3>1, <3>3, TickedFacts, DrawnFacts
      <3>5. pipe1.held = Merge(pipe.held, p)
        BY DEF Accept
      <3>6. p.tel \in BOOLEAN /\ pipe.held.telAge \in Nat
        BY <3>2, PacketFacts, HoldFacts DEF Pipes, Ages
      <3> HIDE DEF p, pipe1
      <3>7. QED
        BY <1>1, <3>4, <3>5, <3>6, HoldFacts DEF Merge
    <2>3. QED
      BY <1>1, <2>1, <2>2, QueueShrinks
  <1>2. QED
    BY <1>1, NavPathInvariant, PTL DEF Spec, SpeedRunsOut

-----------------------------------------------------------------------------
(* The arrow's route. *)

Headings == 0 .. 35999
Points == UNION {[D -> Int \ {0}] : D \in SUBSET Headings}
Segments == [at : Points, dir : Int, bend : Int, turn : Int, from : Int, till : Int]

LEMMA HeadingInTurn == ASSUME NEW a \in Int PROVE a % FullTurn \in Headings
BY DEF FullTurn, Headings

LEMMA TurnsAdd ==
    ASSUME NEW a \in Int, NEW b \in Int
    PROVE  ((a % FullTurn) + b) % FullTurn = (a + b) % FullTurn
BY DEF FullTurn

LEMMA TurnsTake ==
    ASSUME NEW a \in Int, NEW b \in Int
    PROVE  ((a % FullTurn) - b) % FullTurn = (a - b) % FullTurn
<1>1. -b \in Int /\ (a % FullTurn) \in Int
  BY DEF FullTurn
<1>2. ((a % FullTurn) + (-b)) % FullTurn = (a + (-b)) % FullTurn
  BY <1>1, TurnsAdd
<1>3. (a % FullTurn) + (-b) = (a % FullTurn) - b /\ a + (-b) = a - b
  BY <1>1
<1> QED  BY <1>2, <1>3

LEMMA HeadingIsInt == ASSUME NEW h \in Headings PROVE h \in Int
BY DEF Headings

LEMMA HeadingIsItself == ASSUME NEW h \in Headings PROVE h % FullTurn = h
<1>1. h \in Int /\ 0 <= h /\ h < 36000
  BY DEF Headings
<1>2. h % 36000 = h
  BY <1>1
<1> QED  BY <1>2 DEF FullTurn

LEMMA TurnedBack ==
    ASSUME NEW h \in Headings, NEW q \in Int
    PROVE  /\ (h - q) % FullTurn \in Headings /\ (h + q) % FullTurn \in Headings
           /\ (((h - q) % FullTurn) + q) % FullTurn = h /\ (((h + q) % FullTurn) - q) % FullTurn = h
<1>1. h \in Int
  BY HeadingIsInt
<1>2. h - q \in Int /\ h + q \in Int /\ (h - q) + q = h /\ (h + q) - q = h
  BY <1>1
<1>3. (h - q) % FullTurn \in Headings /\ (h + q) % FullTurn \in Headings
  BY <1>2, HeadingInTurn
<1>4. (((h - q) % FullTurn) + q) % FullTurn = ((h - q) + q) % FullTurn
  BY <1>2, TurnsAdd
<1>5. (((h + q) % FullTurn) - q) % FullTurn = ((h + q) - q) % FullTurn
  BY <1>2, TurnsTake
<1>6. h % FullTurn = h
  BY HeadingIsItself
<1> QED  BY <1>2, <1>3, <1>4, <1>5, <1>6

(* A point is no more than how far it lies along each heading. *)

LEMMA PointIs ==
    ASSUME NEW v \in Points
    PROVE  /\ DOMAIN v \subseteq Headings /\ v = [h \in DOMAIN v |-> v[h]]
           /\ \A h \in DOMAIN v : v[h] \in Int /\ v[h] # 0
           /\ \A h \in Headings : Along(v, h) \in Int /\ (h \in DOMAIN v <=> Along(v, h) # 0)
<1>1. PICK D \in SUBSET Headings : v \in [D -> Int \ {0}]
  BY DEF Points
<1>2. DOMAIN v = D /\ v = [h \in D |-> v[h]] /\ \A h \in D : v[h] \in Int /\ v[h] # 0
  BY <1>1
<1>3. \A h \in Headings : Along(v, h) \in Int /\ (h \in DOMAIN v <=> Along(v, h) # 0)
  BY <1>2 DEF Along
<1> QED  BY <1>1, <1>2, <1>3

LEMMA PointsMeet ==
    ASSUME NEW v \in Points, NEW w \in Points, \A h \in Headings : Along(v, h) = Along(w, h)
    PROVE  v = w
<1>1. DOMAIN v = DOMAIN w
  BY PointIs
<1>2. \A h \in DOMAIN v : v[h] = w[h]
  BY <1>1, PointIs DEF Along
<1> QED  BY <1>1, <1>2, PointIs

LEMMA KeptIsPoint ==
    ASSUME NEW D \in SUBSET Headings, NEW f, DOMAIN f = D, f = [h \in D |-> f[h]], \A h \in D : f[h] \in Int /\ f[h] # 0
    PROVE  f \in Points
<1>1. f \in [D -> Int \ {0}]
  OBVIOUS
<1> QED  BY <1>1 DEF Points

LEMMA PlusIs ==
    ASSUME NEW v \in Points, NEW w \in Points
    PROVE  Plus(v, w) \in Points /\ \A h \in Headings : Along(Plus(v, w), h) = Along(v, h) + Along(w, h)
<1> DEFINE D == {h \in DOMAIN v \cup DOMAIN w : Along(v, h) + Along(w, h) # 0}
           p == Plus(v, w)
<1>1. p = [h \in D |-> Along(v, h) + Along(w, h)]
  BY DEF Plus
<1>2. D \in SUBSET Headings /\ DOMAIN v \subseteq Headings /\ DOMAIN w \subseteq Headings
      /\ \A h \in Headings : Along(v, h) \in Int /\ Along(w, h) \in Int
  BY PointIs
<1>3. \A h \in Headings : h \in D \/ Along(v, h) + Along(w, h) = 0
  <2>1. \A h \in Headings : h \in DOMAIN v \/ h \in DOMAIN w \/ (Along(v, h) = 0 /\ Along(w, h) = 0)
    BY PointIs
  <2> QED  BY <2>1
<1>4. \A h \in D : Along(v, h) + Along(w, h) # 0
  OBVIOUS
<1> HIDE DEF D, p
<1>5. DOMAIN p = D /\ p = [h \in D |-> p[h]] /\ \A h \in D : p[h] = Along(v, h) + Along(w, h)
  BY <1>1
<1>6. p \in Points
  <2>1. \A h \in D : p[h] \in Int /\ p[h] # 0
    BY <1>2, <1>4, <1>5
  <2> QED  BY <1>2, <1>5, <2>1, KeptIsPoint
<1>7. \A h \in Headings : Along(p, h) = Along(v, h) + Along(w, h)
  BY <1>3, <1>5 DEF Along
<1> QED  BY <1>6, <1>7 DEF p

LEMMA MinusIs ==
    ASSUME NEW v \in Points, NEW w \in Points
    PROVE  Minus(v, w) \in Points /\ \A h \in Headings : Along(Minus(v, w), h) = Along(v, h) - Along(w, h)
<1> DEFINE n == [h \in DOMAIN w |-> -w[h]]
<1>1. DOMAIN w \in SUBSET Headings /\ \A h \in DOMAIN w : w[h] \in Int /\ w[h] # 0
  BY PointIs
<1>2. DOMAIN n = DOMAIN w /\ n = [h \in DOMAIN w |-> n[h]] /\ \A h \in DOMAIN w : n[h] = -w[h]
  OBVIOUS
<1>3. Minus(v, w) = Plus(v, n)
  BY DEF Minus
<1> HIDE DEF n
<1>4. \A h \in DOMAIN w : n[h] \in Int /\ n[h] # 0
  BY <1>1, <1>2
<1>5. n \in Points
  BY <1>1, <1>2, <1>4, KeptIsPoint
<1>6. \A h \in Headings : Along(n, h) = -Along(w, h)
  BY <1>1, <1>2 DEF Along
<1>7. \A h \in Headings : Along(v, h) \in Int /\ Along(w, h) \in Int
  BY PointIs
<1>8. \A h \in Headings : Along(Minus(v, w), h) = Along(v, h) - Along(w, h)
  BY <1>3, <1>5, <1>6, <1>7, PlusIs
<1> QED  BY <1>3, <1>5, <1>8, PlusIs

LEMMA SumsArePoints ==
    ASSUME NEW v \in Points, NEW w \in Points
    PROVE  Plus(v, w) \in Points /\ Minus(v, w) \in Points
BY PlusIs, MinusIs

LEMMA OriginIs == Origin \in Points /\ \A h \in Headings : Along(Origin, h) = 0
<1>1. DOMAIN Origin = {} /\ Origin = [h \in {} |-> Origin[h]]
  BY DEF Origin
<1>2. Origin \in Points
  BY <1>1, KeptIsPoint
<1> QED  BY <1>1, <1>2 DEF Along

LEMMA RotatedIs ==
    ASSUME NEW v \in Points, NEW q \in Int
    PROVE  Rotated(v, q) \in Points /\ \A h \in Headings : Along(Rotated(v, q), h) = Along(v, (h - q) % FullTurn)
<1> DEFINE D == {(g + q) % FullTurn : g \in DOMAIN v}
           r == Rotated(v, q)
<1>1. r = [h \in D |-> v[(h - q) % FullTurn]]
  BY DEF Rotated
<1>2. DOMAIN v \subseteq Headings
  BY PointIs
<1>3. D \in SUBSET Headings
  BY <1>2, TurnedBack
<1>4. \A h \in D : (h - q) % FullTurn \in DOMAIN v
  <2> SUFFICES ASSUME NEW h \in D PROVE (h - q) % FullTurn \in DOMAIN v
    OBVIOUS
  <2>1. PICK g \in DOMAIN v : h = (g + q) % FullTurn
    OBVIOUS
  <2>2. g \in Headings
    BY <1>2
  <2> QED  BY <2>1, <2>2, TurnedBack
<1>5. \A h \in Headings : (h - q) % FullTurn \in DOMAIN v => h \in D
  <2> SUFFICES ASSUME NEW h \in Headings, (h - q) % FullTurn \in DOMAIN v PROVE h \in D
    OBVIOUS
  <2>1. (((h - q) % FullTurn) + q) % FullTurn = h
    BY TurnedBack
  <2> QED  BY <2>1
<1> HIDE DEF D, r
<1>6. DOMAIN r = D /\ r = [h \in D |-> r[h]] /\ \A h \in D : r[h] = v[(h - q) % FullTurn]
  BY <1>1
<1>7. r \in Points
  <2>1. \A h \in D : r[h] \in Int /\ r[h] # 0
    BY <1>4, <1>6, PointIs
  <2> QED  BY <1>3, <1>6, <2>1, KeptIsPoint
<1>8. \A h \in Headings : Along(r, h) = Along(v, (h - q) % FullTurn)
  BY <1>4, <1>5, <1>6 DEF Along
<1> QED  BY <1>7, <1>8 DEF r

LEMMA RotatedIsPoint == ASSUME NEW v \in Points, NEW q \in Int PROVE Rotated(v, q) \in Points
BY RotatedIs

LEMMA RotatedTwice ==
    ASSUME NEW v \in Points, NEW a \in Int, NEW b \in Int
    PROVE  Rotated(Rotated(v, a), b) = Rotated(v, a + b)
<1> DEFINE w == Rotated(v, a)
           r == Rotated(w, b)
           u == Rotated(v, a + b)
<1>1. w \in Points /\ a + b \in Int
  BY RotatedIs
<1>2. \A h \in Headings : Along(w, h) = Along(v, (h - a) % FullTurn)
  BY RotatedIs
<1> HIDE DEF w
<1>3. r \in Points /\ \A h \in Headings : Along(r, h) = Along(w, (h - b) % FullTurn)
  BY <1>1, RotatedIs
<1>4. u \in Points /\ \A h \in Headings : Along(u, h) = Along(v, (h - (a + b)) % FullTurn)
  BY <1>1, RotatedIs
<1> HIDE DEF r, u
<1>5. ASSUME NEW h \in Headings PROVE Along(r, h) = Along(u, h)
  <2>1. h \in Int /\ h - b \in Int
    BY HeadingIsInt
  <2>2. (h - b) % FullTurn \in Headings /\ (((h - b) % FullTurn) - a) % FullTurn = ((h - b) - a) % FullTurn
    BY <2>1, HeadingInTurn, TurnsTake
  <2>3. (h - b) - a = h - (a + b)
    BY <2>1
  <2> QED  BY <1>2, <1>3, <1>4, <2>2, <2>3
<1> QED  BY <1>3, <1>4, <1>5, PointsMeet DEF r, u, w

LEMMA RotatedRound ==
    ASSUME NEW v \in Points, NEW a \in Int, NEW b \in Int, (a + b) % FullTurn = 0
    PROVE  Rotated(Rotated(v, a), b) = v
<1> DEFINE u == Rotated(v, a + b)
<1>1. a + b \in Int
  OBVIOUS
<1>2. u \in Points /\ \A h \in Headings : Along(u, h) = Along(v, (h - (a + b)) % FullTurn)
  BY <1>1, RotatedIs
<1>3. ASSUME NEW h \in Headings PROVE (h - (a + b)) % FullTurn = h
  <2> DEFINE c == a + b
  <2>1. c \in Int /\ h - c \in Int /\ c + (h - c) = h /\ 0 + (h - c) = h - c
    BY <1>1, HeadingIsInt
  <2>2. ((c % FullTurn) + (h - c)) % FullTurn = (c + (h - c)) % FullTurn
    BY <2>1, TurnsAdd
  <2>3. (h - c) % FullTurn = h % FullTurn
    BY <2>1, <2>2
  <2> QED  BY <2>3, HeadingIsItself
<1> HIDE DEF u
<1>4. u = v
  BY <1>2, <1>3, PointsMeet
<1> QED  BY <1>4, RotatedTwice DEF u

LEMMA RotatedSum ==
    ASSUME NEW v \in Points, NEW w \in Points, NEW q \in Int
    PROVE  /\ Rotated(Plus(v, w), q) = Plus(Rotated(v, q), Rotated(w, q))
           /\ Rotated(Minus(v, w), q) = Minus(Rotated(v, q), Rotated(w, q))
<1> DEFINE V == Rotated(v, q)
           W == Rotated(w, q)
           p == Plus(v, w)
           m == Minus(v, w)
<1>1. V \in Points /\ W \in Points /\ p \in Points /\ m \in Points
  BY RotatedIs, SumsArePoints
<1>2. \A h \in Headings : /\ (h - q) % FullTurn \in Headings
                          /\ Along(V, h) = Along(v, (h - q) % FullTurn) /\ Along(W, h) = Along(w, (h - q) % FullTurn)
  BY RotatedIs, TurnedBack
<1>3. \A h \in Headings : Along(p, h) = Along(v, h) + Along(w, h) /\ Along(m, h) = Along(v, h) - Along(w, h)
  BY PlusIs, MinusIs
<1> HIDE DEF V, W, p, m
<1>4. /\ Rotated(p, q) \in Points /\ Rotated(m, q) \in Points
      /\ \A h \in Headings : Along(Rotated(p, q), h) = Along(p, (h - q) % FullTurn)
      /\ \A h \in Headings : Along(Rotated(m, q), h) = Along(m, (h - q) % FullTurn)
  BY <1>1, RotatedIs
<1>5. /\ Plus(V, W) \in Points /\ Minus(V, W) \in Points
      /\ \A h \in Headings : Along(Plus(V, W), h) = Along(V, h) + Along(W, h)
      /\ \A h \in Headings : Along(Minus(V, W), h) = Along(V, h) - Along(W, h)
  BY <1>1, PlusIs, MinusIs
<1>6. \A h \in Headings : Along(Rotated(p, q), h) = Along(Plus(V, W), h) /\ Along(Rotated(m, q), h) = Along(Minus(V, W), h)
  BY <1>2, <1>3, <1>4, <1>5
<1>7. Rotated(p, q) = Plus(V, W) /\ Rotated(m, q) = Minus(V, W)
  BY <1>4, <1>5, <1>6, PointsMeet
<1> QED  BY <1>7 DEF V, W, p, m

LEMMA AheadIs ==
    ASSUME NEW d \in Int, NEW n \in Int
    PROVE  Ahead(d, n) \in Points /\ \A h \in Headings : Along(Ahead(d, n), h) = IF h = d % FullTurn THEN n ELSE 0
<1>1. CASE n = 0
  BY <1>1, OriginIs DEF Ahead
<1>2. CASE n # 0
  <2> DEFINE D == {d % FullTurn}
             a == Ahead(d, n)
  <2>1. a = [h \in D |-> n] /\ D \in SUBSET Headings
    BY <1>2, HeadingInTurn DEF Ahead
  <2>2. \A h \in D : h = d % FullTurn
    OBVIOUS
  <2>3. d % FullTurn \in D
    OBVIOUS
  <2> HIDE DEF D, a
  <2>4. DOMAIN a = D /\ a = [h \in D |-> a[h]] /\ \A h \in D : a[h] = n
    BY <2>1
  <2>5. a \in Points
    BY <1>2, <2>1, <2>4, KeptIsPoint
  <2>6. \A h \in Headings : Along(a, h) = IF h = d % FullTurn THEN n ELSE 0
    BY <2>2, <2>3, <2>4 DEF Along
  <2> QED  BY <2>5, <2>6 DEF a
<1> QED  BY <1>1, <1>2

LEMMA AheadIsPoint == ASSUME NEW d \in Int, NEW n \in Int PROVE Ahead(d, n) \in Points
BY AheadIs

LEMMA AheadRotated ==
    ASSUME NEW d \in Int, NEW n \in Int, NEW q \in Int
    PROVE  Rotated(Ahead(d, n), q) = Ahead(d + q, n)
<1> DEFINE a == Ahead(d, n)
           r == Rotated(a, q)
           u == Ahead(d + q, n)
<1>1. a \in Points /\ d + q \in Int
  BY AheadIs
<1>2. \A h \in Headings : Along(a, h) = IF h = d % FullTurn THEN n ELSE 0
  BY AheadIs
<1> HIDE DEF a
<1>3. r \in Points /\ \A h \in Headings : Along(r, h) = Along(a, (h - q) % FullTurn)
  BY <1>1, RotatedIs
<1>4. u \in Points /\ \A h \in Headings : Along(u, h) = IF h = (d + q) % FullTurn THEN n ELSE 0
  BY <1>1, AheadIs
<1> HIDE DEF r, u
<1>5. ASSUME NEW h \in Headings PROVE Along(r, h) = Along(u, h)
  <2>1. (h - q) % FullTurn = d % FullTurn => h = (d + q) % FullTurn
    <3>1. (((h - q) % FullTurn) + q) % FullTurn = h /\ ((d % FullTurn) + q) % FullTurn = (d + q) % FullTurn
      BY TurnedBack, TurnsAdd
    <3> QED  BY <3>1
  <2>2. h = (d + q) % FullTurn => (h - q) % FullTurn = d % FullTurn
    <3>1. (((d + q) % FullTurn) - q) % FullTurn = ((d + q) - q) % FullTurn /\ (d + q) - q = d
      BY <1>1, TurnsTake
    <3> QED  BY <3>1
  <2>3. (h - q) % FullTurn \in Headings
    BY TurnedBack
  <2> QED  BY <1>2, <1>3, <1>4, <2>1, <2>2, <2>3
<1> QED  BY <1>3, <1>4, <1>5, PointsMeet DEF r, u, a

LEMMA PtIsPoint == ASSUME NEW x \in Int, NEW y \in Int PROVE Pt(x, y) \in Points
BY AheadIsPoint, SumsArePoints DEF Pt, QuarterTurn

(* Points add up like numbers. *)

LEMMA SumsAdd ==
    ASSUME NEW u \in Points, NEW v \in Points, NEW w \in Points
    PROVE  /\ Plus(u, Plus(v, w)) = Plus(Plus(u, v), w) /\ Plus(u, Minus(v, w)) = Minus(Plus(u, v), w)
           /\ Minus(Plus(u, v), w) = Plus(Minus(u, w), v) /\ Minus(Minus(u, v), w) = Minus(Minus(u, w), v)
           /\ Minus(Minus(u, w), Minus(v, w)) = Minus(u, v) /\ Minus(Plus(w, u), Plus(w, v)) = Minus(u, v)
           /\ Minus(u, u) = Origin /\ Plus(u, Origin) = u
<1> DEFINE P(x, y) == Plus(x, y)
           M(x, y) == Minus(x, y)
<1>1. \A x, y \in Points : P(x, y) \in Points /\ M(x, y) \in Points
  BY SumsArePoints
<1>2. \A x, y \in Points : \A h \in Headings : Along(P(x, y), h) = Along(x, h) + Along(y, h)
                                               /\ Along(M(x, y), h) = Along(x, h) - Along(y, h)
  BY PlusIs, MinusIs
<1>3. \A h \in Headings : Along(u, h) \in Int /\ Along(v, h) \in Int /\ Along(w, h) \in Int
  BY PointIs
<1> HIDE DEF P, M
<1>4. \A x, y \in Points : (\A h \in Headings : Along(x, h) = Along(y, h)) => x = y
  BY PointsMeet
<1>5. P(v, w) \in Points /\ M(v, w) \in Points /\ P(u, v) \in Points /\ M(u, w) \in Points /\ M(u, v) \in Points
      /\ P(w, u) \in Points /\ P(w, v) \in Points /\ Origin \in Points
  BY <1>1, OriginIs
<1>6. P(u, P(v, w)) = P(P(u, v), w)
  <2>1. \A h \in Headings : Along(P(u, P(v, w)), h) = Along(P(P(u, v), w), h)
    BY <1>2, <1>3, <1>5
  <2> QED  BY <1>1, <1>4, <1>5, <2>1
<1>7. P(u, M(v, w)) = M(P(u, v), w)
  <2>1. \A h \in Headings : Along(P(u, M(v, w)), h) = Along(M(P(u, v), w), h)
    BY <1>2, <1>3, <1>5
  <2> QED  BY <1>1, <1>4, <1>5, <2>1
<1>8. M(P(u, v), w) = P(M(u, w), v)
  <2>1. \A h \in Headings : Along(M(P(u, v), w), h) = Along(P(M(u, w), v), h)
    BY <1>2, <1>3, <1>5
  <2> QED  BY <1>1, <1>4, <1>5, <2>1
<1>9. M(M(u, v), w) = M(M(u, w), v)
  <2>1. \A h \in Headings : Along(M(M(u, v), w), h) = Along(M(M(u, w), v), h)
    BY <1>2, <1>3, <1>5
  <2> QED  BY <1>1, <1>4, <1>5, <2>1
<1>10. M(M(u, w), M(v, w)) = M(u, v)
  <2>1. \A h \in Headings : Along(M(M(u, w), M(v, w)), h) = Along(M(u, v), h)
    BY <1>2, <1>3, <1>5
  <2> QED  BY <1>1, <1>4, <1>5, <2>1
<1>11. M(P(w, u), P(w, v)) = M(u, v)
  <2>1. \A h \in Headings : Along(M(P(w, u), P(w, v)), h) = Along(M(u, v), h)
    BY <1>2, <1>3, <1>5
  <2> QED  BY <1>1, <1>4, <1>5, <2>1
<1>12. M(u, u) = Origin /\ P(u, Origin) = u
  <2>1. \A h \in Headings : Along(M(u, u), h) = Along(Origin, h) /\ Along(P(u, Origin), h) = Along(u, h)
    BY <1>2, <1>3, <1>5, OriginIs
  <2> QED  BY <1>1, <1>4, <1>5, <2>1
<1> QED  BY <1>6, <1>7, <1>8, <1>9, <1>10, <1>11, <1>12 DEF P, M

LEMMA OriginTurned == ASSUME NEW q \in Int PROVE Rotated(Origin, q) = Origin
<1> DEFINE o == Origin
           r == Rotated(o, q)
<1>1. o \in Points /\ \A h \in Headings : Along(o, h) = 0
  BY OriginIs
<1> HIDE DEF o
<1>2. r \in Points /\ \A h \in Headings : Along(r, h) = Along(o, (h - q) % FullTurn) /\ (h - q) % FullTurn \in Headings
  BY <1>1, RotatedIs, TurnedBack
<1> HIDE DEF r
<1>3. r = o
  BY <1>1, <1>2, PointsMeet
<1> QED  BY <1>3 DEF r, o

LEMMA HalfWayIsPoint == ASSUME NEW v \in Points, NEW w \in Points PROVE HalfWay(v, w) \in Points
<1> DEFINE D == {h \in DOMAIN v \cup DOMAIN w : Midway(Along(v, h), Along(w, h)) # 0}
           p == HalfWay(v, w)
<1>1. p = [h \in D |-> Midway(Along(v, h), Along(w, h))]
  BY DEF HalfWay
<1>2. D \in SUBSET Headings /\ \A h \in Headings : Along(v, h) \in Int /\ Along(w, h) \in Int
  BY PointIs
<1>3. \A h \in D : Midway(Along(v, h), Along(w, h)) # 0
  OBVIOUS
<1> HIDE DEF D, p
<1>4. DOMAIN p = D /\ p = [h \in D |-> p[h]] /\ \A h \in D : p[h] = Midway(Along(v, h), Along(w, h))
  BY <1>1
<1>5. \A h \in D : p[h] \in Int /\ p[h] # 0
  <2>1. \A a, b \in Int : Midway(a, b) \in Int
    BY DEF Midway
  <2> QED  BY <1>2, <1>3, <1>4, <2>1
<1>6. p \in Points
  BY <1>2, <1>4, <1>5, KeptIsPoint
<1> QED  BY <1>6 DEF p

(* What is laid down turned is turned all over. *)

Moves == [turn : Int, anchor : Points, base : Points]

LEMMA TransformMoves ==
    ASSUME NEW p \in Points, NEW v \in Points, NEW t \in Moves
    PROVE  /\ TransformPoint(p, t) \in Points
           /\ TransformPoint(Plus(p, v), t) = Plus(TransformPoint(p, t), Rotated(v, t.turn))
           /\ TransformPoint(Minus(p, v), t) = Minus(TransformPoint(p, t), Rotated(v, t.turn))
<1>0. t.turn \in Int /\ t.anchor \in Points /\ t.base \in Points
  BY DEF Moves
<1> DEFINE d == Minus(p, t.base)
           r == Rotated(d, t.turn)
           w == Rotated(v, t.turn)
<1>1. d \in Points /\ r \in Points /\ w \in Points
  BY <1>0, SumsArePoints, RotatedIsPoint
<1>2. Minus(Plus(p, v), t.base) = Plus(d, v) /\ Minus(Minus(p, v), t.base) = Minus(d, v)
  BY <1>0, SumsAdd
<1>3. Rotated(Plus(d, v), t.turn) = Plus(r, w) /\ Rotated(Minus(d, v), t.turn) = Minus(r, w)
  BY <1>0, <1>1, RotatedSum
<1>4. TransformPoint(p, t) = Plus(t.anchor, r) /\ TransformPoint(Plus(p, v), t) = Plus(t.anchor, Plus(r, w))
      /\ TransformPoint(Minus(p, v), t) = Plus(t.anchor, Minus(r, w))
  BY <1>2, <1>3 DEF TransformPoint
<1> HIDE DEF d, r, w
<1>5. Plus(t.anchor, Plus(r, w)) = Plus(Plus(t.anchor, r), w) /\ Plus(t.anchor, Minus(r, w)) = Minus(Plus(t.anchor, r), w)
  BY <1>0, <1>1, SumsAdd
<1>6. Plus(t.anchor, r) \in Points
  BY <1>0, <1>1, SumsArePoints
<1> QED  BY <1>4, <1>5, <1>6 DEF w


LEMMA PlacedFields ==
    ASSUME NEW s \in Segments, NEW t \in Moves, NEW b \in Int
    PROVE  /\ Placed(s, t, b) \in Segments
           /\ Placed(s, t, b).at = TransformPoint(s.at, t) /\ Placed(s, t, b).dir = s.dir + t.turn
           /\ Placed(s, t, b).bend = s.bend /\ Placed(s, t, b).turn = s.turn
           /\ Placed(s, t, b).from = b + s.from /\ Placed(s, t, b).till = b + s.till
<1>1. TransformPoint(s.at, t) \in Points /\ t.turn \in Int
  BY TransformMoves DEF Segments, Moves
<1> QED  BY <1>1 DEF Placed, Segments

LEMMA TipIsPoint == ASSUME NEW s \in Segments PROVE Tip(s) \in Points /\ TipDir(s) \in Int
<1>0. s.at \in Points /\ s.dir \in Int /\ s.bend \in Int /\ s.turn \in Int /\ s.from \in Int /\ s.till \in Int
  BY DEF Segments
<1>1. Side(s) \in {1, -1}
  BY DEF Side
<1>2. Side(s) * s.bend \in Int /\ s.till - s.from \in Int
  BY <1>0, <1>1
<1>3. TipDir(s) \in Int /\ s.dir + QuarterTurn \in Int /\ s.dir + s.turn + QuarterTurn \in Int
  BY <1>0 DEF TipDir, QuarterTurn
<1>4. HubOf(s) \in Points
  BY <1>0, <1>2, <1>3, AheadIsPoint, SumsArePoints DEF HubOf
<1>5. CASE s.turn = 0
  BY <1>0, <1>2, <1>3, <1>5, AheadIsPoint, SumsArePoints DEF Tip, PointOf
<1>6. CASE s.turn # 0
  <2>1. Ahead(s.dir + s.turn + QuarterTurn, Side(s) * s.bend) \in Points
    BY <1>2, <1>3, AheadIsPoint
  <2> QED  BY <1>3, <1>4, <1>6, <2>1, SumsArePoints DEF Tip, PointOf
<1> QED  BY <1>5, <1>6

LEMMA PlacedTip ==
    ASSUME NEW s \in Segments, NEW t \in Moves, NEW b \in Int
    PROVE  /\ Tip(Placed(s, t, b)) = TransformPoint(Tip(s), t)
           /\ TipDir(Placed(s, t, b)) = TipDir(s) + t.turn
<1> DEFINE l == Placed(s, t, b)
<1>0. s.at \in Points /\ s.dir \in Int /\ s.bend \in Int /\ s.turn \in Int /\ s.from \in Int /\ s.till \in Int
      /\ t.turn \in Int
  BY DEF Segments, Moves
<1>1. l.at = TransformPoint(s.at, t) /\ l.dir = s.dir + t.turn /\ l.bend = s.bend /\ l.turn = s.turn
      /\ l.till - l.from = s.till - s.from
  <2>1. l.at = TransformPoint(s.at, t) /\ l.dir = s.dir + t.turn /\ l.bend = s.bend /\ l.turn = s.turn
        /\ l.from = b + s.from /\ l.till = b + s.till
    BY PlacedFields
  <2> QED  BY <1>0, <2>1
<1> HIDE DEF l
<1>2. Side(l) = Side(s) /\ Side(s) \in {1, -1}
  BY <1>1 DEF Side
<1>3. Side(s) * s.bend \in Int /\ s.till - s.from \in Int
  BY <1>0, <1>2
<1>4. TipDir(l) = TipDir(s) + t.turn
  BY <1>0, <1>1 DEF TipDir
<1>5. CASE s.turn = 0
  <2> DEFINE v == Ahead(s.dir, s.till - s.from)
  <2>1. v \in Points /\ Rotated(v, t.turn) = Ahead(s.dir + t.turn, s.till - s.from)
    BY <1>0, <1>3, AheadIsPoint, AheadRotated
  <2>2. Tip(s) = Plus(s.at, v) /\ Tip(l) = Plus(l.at, Ahead(s.dir + t.turn, s.till - s.from))
    BY <1>1, <1>5 DEF Tip, PointOf
  <2> QED  BY <1>0, <1>1, <1>4, <2>1, <2>2, TransformMoves DEF l
<1>6. CASE s.turn # 0
  <2> DEFINE n == Side(s) * s.bend
             p == s.dir + QuarterTurn
             q == s.dir + s.turn + QuarterTurn
             v == Ahead(p, n)
             w == Ahead(q, n)
  <2>1. n \in Int /\ p \in Int /\ q \in Int /\ p + t.turn = l.dir + QuarterTurn /\ q + t.turn = l.dir + l.turn + QuarterTurn
    BY <1>0, <1>1, <1>3 DEF QuarterTurn
  <2>2. HubOf(s) = Plus(s.at, v) /\ HubOf(l) = Plus(l.at, Ahead(l.dir + QuarterTurn, n))
    BY <1>1, <1>2 DEF HubOf
  <2>3. Tip(s) = Minus(HubOf(s), w) /\ Tip(l) = Minus(HubOf(l), Ahead(l.dir + l.turn + QuarterTurn, n))
    BY <1>1, <1>2, <1>6 DEF Tip, PointOf
  <2> HIDE DEF n, p, q
  <2>4. v \in Points /\ Rotated(v, t.turn) = Ahead(p + t.turn, n)
        /\ w \in Points /\ Rotated(w, t.turn) = Ahead(q + t.turn, n)
    BY <1>0, <2>1, AheadIsPoint, AheadRotated
  <2>5. HubOf(s) \in Points
    BY <1>0, <2>2, <2>4, SumsArePoints
  <2> HIDE DEF v, w
  <2>6. HubOf(l) = TransformPoint(HubOf(s), t)
    BY <1>0, <1>1, <2>1, <2>2, <2>4, TransformMoves
  <2> QED  BY <1>4, <2>1, <2>3, <2>4, <2>5, <2>6, TransformMoves DEF l
<1> QED  BY <1>5, <1>6

LEMMA PlacedMeet ==
    ASSUME NEW s \in Segments, NEW u \in Segments, NEW t \in Moves, NEW b \in Int, Meets(s, u)
    PROVE  Meets(Placed(s, t, b), Placed(u, t, b))
<1>1. u.from = s.till /\ u.at = Tip(s) /\ (u.dir - TipDir(s)) % FullTurn = 0
  BY DEF Meets, SameWay
<1>2. Placed(u, t, b).from = Placed(s, t, b).till /\ Placed(u, t, b).at = Tip(Placed(s, t, b))
  BY <1>1, PlacedFields, PlacedTip
<1>3. Placed(u, t, b).dir - TipDir(Placed(s, t, b)) = u.dir - TipDir(s)
  <2>1. u.dir \in Int /\ t.turn \in Int /\ TipDir(s) \in Int
    BY TipIsPoint DEF Segments, Moves
  <2>2. Placed(u, t, b).dir = u.dir + t.turn /\ TipDir(Placed(s, t, b)) = TipDir(s) + t.turn
    BY PlacedFields, PlacedTip
  <2> QED  BY <2>1, <2>2
<1> QED  BY <1>1, <1>2, <1>3 DEF Meets, SameWay

(* The maneuvers' data hangs together: each piece is chained to the one before. *)

LEMMA SameWayAsItself == ASSUME NEW d \in Int PROVE SameWay(d, d)
<1>1. d - d = 0 /\ 0 % 36000 = 0
  OBVIOUS
<1> QED  BY <1>1 DEF SameWay, FullTurn

LEMMA FirstPiece ==
    ASSUME NEW n \in Nat \ {0}
    PROVE  /\ First(n) \in Segments /\ First(n).from < First(n).till
           /\ First(n).at = Origin /\ First(n).dir = -QuarterTurn /\ First(n).from = 0
BY OriginIs DEF First, Segments, QuarterTurn

LEMMA NextPiece ==
    ASSUME NEW s \in Segments, NEW bend \in Int, NEW turn \in Int, NEW n \in Nat \ {0}
    PROVE  LET u == Then(s, bend, turn, n) IN u \in Segments /\ u.from < u.till /\ Meets(s, u)
<1> DEFINE u == Then(s, bend, turn, n)
<1>1. Tip(s) \in Points /\ TipDir(s) \in Int /\ s.till \in Int
  BY TipIsPoint DEF Segments
<1>2. u = [at |-> Tip(s), dir |-> TipDir(s), bend |-> bend, turn |-> turn, from |-> s.till, till |-> s.till + n]
  BY DEF Then
<1> HIDE DEF u
<1>3. u \in Segments /\ u.from < u.till
  BY <1>1, <1>2 DEF Segments
<1>4. u.from = s.till /\ u.at = Tip(s) /\ u.dir = TipDir(s)
  BY <1>2
<1>5. Meets(s, u)
  BY <1>1, <1>4, SameWayAsItself DEF Meets
<1> QED  BY <1>3, <1>5 DEF u

Icons == DOMAIN IconData
Straights == {"straight", "right_merge", "merge_left"}
Bends == {"turn_right", "turn_left", "turn_slight_right", "turn_slight_left",
          "turn_sharp_right", "turn_sharp_left", "u_turn_right", "u_turn_left"}
Islands == {"roundabout_right", "roundabout_straight", "roundabout_left"}
LEMMA IconsAre == Icons = Straights \cup Bends \cup Islands
BY DEF Icons, IconData, Straights, Bends, Islands

GoodIcon(i) ==
    /\ IconData[i].frame \in Points
    /\ IconData[i].body[1].at = Origin /\ IconData[i].body[1].dir = -QuarterTurn /\ IconData[i].body[1].from = 0
    /\ \A j \in 1 .. Pieces(i) : IconData[i].body[j] \in Segments /\ IconData[i].body[j].from < IconData[i].body[j].till
    /\ \A j \in 1 .. Pieces(i) - 1 : Meets(IconData[i].body[j], IconData[i].body[j + 1])
    /\ \A j, l \in 1 .. Pieces(i) : j < l => IconData[i].body[j].till <= IconData[i].body[l].from

Lengths == Nat \ {0}
IsBent(body) ==
    \E stem, n, exit \in Lengths, bend, turn \in Int : body = Bent(stem, bend, turn, n, exit)
IsIsland(body) ==
    \E stem, short, n, exit \in Lengths, veer, bend, turn \in Int : body = Island(stem, veer, short, bend, turn, n, exit)

LEMMA SomeBent ==
    ASSUME NEW stem \in Lengths, NEW n \in Lengths, NEW exit \in Lengths, NEW bend \in Int, NEW turn \in Int
    PROVE  IsBent(Bent(stem, bend, turn, n, exit))
BY DEF IsBent

LEMMA SomeIsland ==
    ASSUME NEW stem \in Lengths, NEW short \in Lengths, NEW n \in Lengths, NEW exit \in Lengths,
           NEW veer \in Int, NEW bend \in Int, NEW turn \in Int
    PROVE  IsIsland(Island(stem, veer, short, bend, turn, n, exit))
BY DEF IsIsland

LEMMA IconBodies ==
    /\ \A i \in Straights : Pieces(i) = 1 /\ IconData[i].body = Stem
    /\ \A i \in Bends : Pieces(i) = 3 /\ IsBent(IconData[i].body)
    /\ \A i \in Islands : Pieces(i) = 5 /\ IsIsland(IconData[i].body)
<1>1. /\ \A i \in Straights : Pieces(i) = 1
      /\ \A i \in Bends : Pieces(i) = 3
      /\ \A i \in Islands : Pieces(i) = 5
  BY DEF Pieces, Straights, Bends, Islands
<1>2. \A i \in Straights : IconData[i].body = Stem
  BY DEF IconData, Straights
<1>3. /\ IconData["turn_right"].body = Bent(1300, 600, 9000, 942, 1400)
      /\ IconData["turn_left"].body = Bent(1300, 600, -9000, 942, 1400)
      /\ IconData["turn_slight_right"].body = Bent(1100, 600, 3500, 367, 1450)
      /\ IconData["turn_slight_left"].body = Bent(1100, 600, -3500, 367, 1450)
      /\ IconData["turn_sharp_right"].body = Bent(1300, 450, 12500, 982, 1250)
      /\ IconData["turn_sharp_left"].body = Bent(1300, 450, -12500, 982, 1250)
      /\ IconData["u_turn_right"].body = Bent(1700, 550, 18000, 1728, 1400)
      /\ IconData["u_turn_left"].body = Bent(1700, 550, -18000, 1728, 1400)
  BY DEF IconData
<1>4. \A i \in Bends : IsBent(IconData[i].body)
  <2>1. {1300, 1100, 1700, 942, 367, 982, 1728, 1400, 1450, 1250} \subseteq Lengths
    BY DEF Lengths
  <2>2. {600, 450, 550, 9000, -9000, 3500, -3500, 12500, -12500, 18000, -18000} \subseteq Int
    OBVIOUS
  <2>3. /\ IsBent(Bent(1300, 600, 9000, 942, 1400)) /\ IsBent(Bent(1300, 600, -9000, 942, 1400))
        /\ IsBent(Bent(1100, 600, 3500, 367, 1450)) /\ IsBent(Bent(1100, 600, -3500, 367, 1450))
        /\ IsBent(Bent(1300, 450, 12500, 982, 1250)) /\ IsBent(Bent(1300, 450, -12500, 982, 1250))
        /\ IsBent(Bent(1700, 550, 18000, 1728, 1400)) /\ IsBent(Bent(1700, 550, -18000, 1728, 1400))
    BY <2>1, <2>2, SomeBent
  <2> QED  BY <1>3, <2>3 DEF Bends
<1>5. /\ IconData["roundabout_right"].body = Island(700, -7846, 274, 800, 24692, 3448, 900)
      /\ IconData["roundabout_straight"].body = Island(500, -7716, 269, 700, 15432, 1885, 900)
      /\ IconData["roundabout_left"].body = Island(800, -7716, 269, 700, 6432, 786, 1200)
  BY DEF IconData
<1>6. \A i \in Islands : IsIsland(IconData[i].body)
  <2>1. {700, 500, 800, 274, 269, 3448, 1885, 786, 900, 1200} \subseteq Lengths
    BY DEF Lengths
  <2>2. {-7846, -7716, 800, 700, 24692, 15432, 6432} \subseteq Int
    OBVIOUS
  <2>3. /\ IsIsland(Island(700, -7846, 274, 800, 24692, 3448, 900))
        /\ IsIsland(Island(500, -7716, 269, 700, 15432, 1885, 900))
        /\ IsIsland(Island(800, -7716, 269, 700, 6432, 786, 1200))
    BY <2>1, <2>2, SomeIsland
  <2> QED  BY <1>5, <2>3 DEF Islands
<1> QED  BY <1>1, <1>2, <1>4, <1>6

LEMMA FramesArePoints == \A i \in Icons : IconData[i].frame \in Points
<1>1. \A x \in Int, y \in Int : Pt(x, y) \in Points
  BY PtIsPoint
<1>2. \A i \in Straights : IconData[i].frame \in Points
  BY <1>1 DEF IconData, Straights
<1>3. \A i \in Bends : IconData[i].frame \in Points
  BY <1>1 DEF IconData, Bends
<1>4. \A i \in Islands : IconData[i].frame \in Points
  BY <1>1 DEF IconData, Islands
<1> QED  BY <1>2, <1>3, <1>4, IconsAre

LEMMA StraightsAreGood == ASSUME NEW i \in Straights PROVE GoodIcon(i)
<1> DEFINE s == First(2600)
<1>1. s \in Segments /\ s.from < s.till /\ s.at = Origin /\ s.dir = -QuarterTurn /\ s.from = 0
  BY FirstPiece
<1>2. IconData[i].body[1] = s /\ IconData[i].frame \in Points /\ Pieces(i) = 1
  BY IconBodies, FramesArePoints, IconsAre DEF Stem
<1> HIDE DEF s
<1> QED  BY <1>1, <1>2 DEF GoodIcon

LEMMA RunGood ==
    ASSUME NEW i \in Icons, NEW a \in Segments, NEW b \in Segments, NEW c \in Segments,
           IconData[i].body = <<a, b, c>>, Pieces(i) = 3,
           a.from < a.till, b.from < b.till, c.from < c.till, Meets(a, b), Meets(b, c),
           a.at = Origin, a.dir = -QuarterTurn, a.from = 0
    PROVE  GoodIcon(i)
<1>1. IconData[i].body[1] = a /\ IconData[i].body[2] = b /\ IconData[i].body[3] = c
  OBVIOUS
<1>2. 1 .. Pieces(i) = {1, 2, 3} /\ 1 .. Pieces(i) - 1 = {1, 2}
  OBVIOUS
<1>3. /\ a.from \in Int /\ a.till \in Int
      /\ b.from \in Int /\ b.till \in Int
      /\ c.from \in Int /\ c.till \in Int
  BY DEF Segments
<1>4. b.from = a.till /\ c.from = b.till
  BY DEF Meets
<1>5. /\ a.till <= b.from /\ a.till <= c.from
      /\ b.till <= c.from
  BY <1>3, <1>4
<1>6. \A j, l \in 1 .. Pieces(i) : j < l => IconData[i].body[j].till <= IconData[i].body[l].from
  BY <1>1, <1>2, <1>5
<1> QED  BY <1>1, <1>2, <1>6, FramesArePoints DEF GoodIcon

LEMMA RoundGood ==
    ASSUME NEW i \in Icons, NEW a \in Segments, NEW b \in Segments, NEW c \in Segments, NEW d \in Segments, NEW e \in Segments,
           IconData[i].body = <<a, b, c, d, e>>, Pieces(i) = 5,
           a.from < a.till, b.from < b.till, c.from < c.till, d.from < d.till, e.from < e.till,
           Meets(a, b), Meets(b, c), Meets(c, d), Meets(d, e),
           a.at = Origin, a.dir = -QuarterTurn, a.from = 0
    PROVE  GoodIcon(i)
<1>1. /\ IconData[i].body[1] = a /\ IconData[i].body[2] = b /\ IconData[i].body[3] = c
      /\ IconData[i].body[4] = d /\ IconData[i].body[5] = e
  OBVIOUS
<1>2. 1 .. Pieces(i) = {1, 2, 3, 4, 5} /\ 1 .. Pieces(i) - 1 = {1, 2, 3, 4}
  OBVIOUS
<1>3. /\ a.from \in Int /\ a.till \in Int
      /\ b.from \in Int /\ b.till \in Int
      /\ c.from \in Int /\ c.till \in Int
      /\ d.from \in Int /\ d.till \in Int
      /\ e.from \in Int /\ e.till \in Int
  BY DEF Segments
<1>4. b.from = a.till /\ c.from = b.till /\ d.from = c.till /\ e.from = d.till
  BY DEF Meets
<1>5. /\ a.till <= b.from /\ a.till <= c.from /\ a.till <= d.from /\ a.till <= e.from
      /\ b.till <= c.from /\ b.till <= d.from /\ b.till <= e.from
      /\ c.till <= d.from /\ c.till <= e.from
      /\ d.till <= e.from
  BY <1>3, <1>4
<1>6. \A j, l \in 1 .. Pieces(i) : j < l => IconData[i].body[j].till <= IconData[i].body[l].from
  BY <1>1, <1>2, <1>5
<1> QED  BY <1>1, <1>2, <1>6, FramesArePoints DEF GoodIcon

LEMMA BentIsGood == ASSUME NEW i \in Bends PROVE GoodIcon(i)
<1>1. PICK stem \in Lengths, n \in Lengths, exit \in Lengths, bend \in Int, turn \in Int :
          IconData[i].body = Bent(stem, bend, turn, n, exit)
  BY IconBodies DEF IsBent
<1> DEFINE a == First(stem)
           b == Then(a, bend, turn, n)
           c == Then(b, 0, 0, exit)
<1>2. a \in Segments /\ a.from < a.till /\ a.at = Origin /\ a.dir = -QuarterTurn /\ a.from = 0
  BY FirstPiece DEF Lengths
<1>3. IconData[i].body = <<a, b, c>> /\ Pieces(i) = 3 /\ i \in Icons
  BY <1>1, IconBodies, IconsAre DEF Bent
<1> HIDE DEF a
<1>4. b \in Segments /\ b.from < b.till /\ Meets(a, b)
  BY <1>2, NextPiece DEF Lengths
<1> HIDE DEF b
<1>5. c \in Segments /\ c.from < c.till /\ Meets(b, c)
  BY <1>4, NextPiece DEF Lengths
<1> HIDE DEF c
<1> QED  BY <1>2, <1>3, <1>4, <1>5, RunGood

LEMMA IslandIsGood == ASSUME NEW i \in Islands PROVE GoodIcon(i)
<1>1. PICK stem \in Lengths, short \in Lengths, n \in Lengths, exit \in Lengths,
           veer \in Int, bend \in Int, turn \in Int :
          IconData[i].body = Island(stem, veer, short, bend, turn, n, exit)
  BY IconBodies DEF IsIsland
<1> DEFINE a == First(stem)
           b == Then(a, 200, veer, short)
           c == Then(b, bend, turn, n)
           d == Then(c, 200, veer, short)
           e == Then(d, 0, 0, exit)
<1>2. a \in Segments /\ a.from < a.till /\ a.at = Origin /\ a.dir = -QuarterTurn /\ a.from = 0
  BY FirstPiece DEF Lengths
<1>3. IconData[i].body = <<a, b, c, d, e>> /\ Pieces(i) = 5 /\ i \in Icons
  BY <1>1, IconBodies, IconsAre DEF Island
<1> HIDE DEF a
<1>4. b \in Segments /\ b.from < b.till /\ Meets(a, b)
  BY <1>2, NextPiece DEF Lengths
<1> HIDE DEF b
<1>5. c \in Segments /\ c.from < c.till /\ Meets(b, c)
  BY <1>4, NextPiece DEF Lengths
<1> HIDE DEF c
<1>6. d \in Segments /\ d.from < d.till /\ Meets(c, d)
  BY <1>5, NextPiece DEF Lengths
<1> HIDE DEF d
<1>7. e \in Segments /\ e.from < e.till /\ Meets(d, e)
  BY <1>6, NextPiece DEF Lengths
<1> HIDE DEF e
<1> QED  BY <1>2, <1>3, <1>4, <1>5, <1>6, <1>7, RoundGood

LEMMA IconsAreGood == \A i \in Icons : GoodIcon(i)
BY IconsAre, StraightsAreGood, BentIsGood, IslandIsGood

-----------------------------------------------------------------------------
(* A maneuver laid at the end of a route makes a route. *)

Road(w, n) ==
    /\ n \in Nat /\ w \in [1 .. n -> Segments]
    /\ \A k \in 1 .. n : w[k].from < w[k].till
    /\ \A j, k \in 1 .. n : j < k => w[j].till <= w[k].from
    /\ \A k \in 1 .. n - 1 : Meets(w[k], w[k + 1])

LEMMA PiecesAre == ASSUME NEW i \in Icons PROVE Pieces(i) \in 1 .. MostPieces
BY IconsAre DEF Straights, Bends, Islands, Pieces, MostPieces

LEMMA RoomFits ==
    ASSUME NEW n \in 0 .. RouteRoom, NEW i \in Icons
    PROVE  /\ Room(n, i) \in 0 .. Pieces(i) /\ n + Room(n, i) \in 0 .. RouteRoom
           /\ n <= MostPieces + 1 => Room(n, i) = Pieces(i)
BY PiecesAre DEF Room, RouteRoom, MostPieces

LEMMA FirstIs ==
    ASSUME NEW i \in Icons
    PROVE  LET a == IconData[i].body[1]
           IN  a \in Segments /\ a.at = Origin /\ a.at \in Points /\ a.dir = -QuarterTurn /\ a.from = 0
BY IconsAreGood, PiecesAre, OriginIs DEF GoodIcon

LEMMA TransformIs ==
    ASSUME NEW w, NEW n \in Nat, Road(w, n), NEW i \in Icons
    PROVE  LET t == Transform(w, n, IconData[i].body[1])
           IN  /\ t \in Moves
               /\ n > 0 => t.turn = TipDir(w[n]) + QuarterTurn /\ t.anchor = Tip(w[n]) /\ t.base = Origin
<1> DEFINE a == IconData[i].body[1]
           t == Transform(w, n, a)
<1>1. a.at = Origin /\ a.at \in Points /\ a.dir = -QuarterTurn /\ QuarterTurn \in Int
  BY FirstIs DEF QuarterTurn
<1> HIDE DEF a
<1>2. CASE n = 0
  <2>1. t = [turn |-> 0, anchor |-> a.at, base |-> a.at]
    BY <1>2 DEF Transform
  <2> HIDE DEF t
  <2>2. t \in Moves
    BY <1>1, <2>1 DEF Moves
  <2> QED  BY <1>2, <2>2 DEF t, a
<1>3. CASE n > 0
  <2>1. w[n] \in Segments
    BY <1>3 DEF Road
  <2>2. Tip(w[n]) \in Points /\ TipDir(w[n]) \in Int
    BY <2>1, TipIsPoint
  <2>3. t = [turn |-> TipDir(w[n]) - a.dir, anchor |-> Tip(w[n]), base |-> a.at]
    BY <1>3 DEF Transform
  <2>4. TipDir(w[n]) - a.dir = TipDir(w[n]) + QuarterTurn
    BY <1>1, <2>2
  <2> HIDE DEF t
  <2>5. t \in Moves
    BY <1>1, <2>2, <2>3, <2>4 DEF Moves
  <2>6. t.turn = TipDir(w[n]) + QuarterTurn /\ t.anchor = Tip(w[n]) /\ t.base = Origin
    BY <1>1, <2>3, <2>4
  <2> QED  BY <2>5, <2>6 DEF t, a
<1> QED  BY <1>2, <1>3 DEF a

LEMMA TotalIs == ASSUME NEW w, NEW n \in Nat, Road(w, n) PROVE TotalDist(w, n) \in Int
BY DEF Road, TotalDist, Segments

LEMMA ExtendedIs ==
    ASSUME NEW w, NEW n \in 0 .. RouteRoom, Road(w, n), NEW i \in Icons
    PROVE  LET t == Transform(w, n, IconData[i].body[1])
               x == Extended(w, n, i)
               m == n + Room(n, i)
           IN  /\ x \in [1 .. m -> Segments]
               /\ \A k \in 1 .. n : x[k] = w[k]
               /\ \A j \in 1 .. Room(n, i) : j \in 1 .. Pieces(i) /\ x[n + j] = Placed(IconData[i].body[j], t, TotalDist(w, n))
<1> DEFINE t == Transform(w, n, IconData[i].body[1])
           b == TotalDist(w, n)
           r == Room(n, i)
           x == Extended(w, n, i)
<1>1. n \in Nat /\ r \in 0 .. Pieces(i) /\ Pieces(i) \in Nat /\ r \in Nat
  BY RoomFits, PiecesAre
<1>2. t \in Moves /\ b \in Int
  BY <1>1, TransformIs, TotalIs
<1>3. x = [k \in 1 .. n + r |-> IF k <= n THEN w[k] ELSE Placed(IconData[i].body[k - n], t, b)]
  BY DEF Extended
<1>4. \A j \in 1 .. r : j \in 1 .. Pieces(i) /\ Placed(IconData[i].body[j], t, b) \in Segments
  <2>1. \A j \in 1 .. Pieces(i) : IconData[i].body[j] \in Segments
    BY IconsAreGood DEF GoodIcon
  <2>2. \A j \in 1 .. r : j \in 1 .. Pieces(i)
    BY <1>1
  <2> HIDE DEF t, b, r
  <2> QED  BY <1>2, <2>1, <2>2, PlacedFields
<1>5. w \in [1 .. n -> Segments]
  BY DEF Road
<1> HIDE DEF t, b, r, x
<1>6. \A k \in 1 .. n : x[k] = w[k]
  BY <1>1, <1>3
<1>7. \A j \in 1 .. r : x[n + j] = Placed(IconData[i].body[j], t, b)
  <2> SUFFICES ASSUME NEW j \in 1 .. r PROVE x[n + j] = Placed(IconData[i].body[j], t, b)
    OBVIOUS
  <2>1. n + j \in 1 .. n + r /\ ~(n + j <= n) /\ (n + j) - n = j
    BY <1>1
  <2> QED  BY <1>3, <2>1
<1>8. x \in [1 .. n + r -> Segments]
  <2> SUFFICES ASSUME NEW k \in 1 .. n + r
               PROVE  (IF k <= n THEN w[k] ELSE Placed(IconData[i].body[k - n], t, b)) \in Segments
    BY <1>3
  <2>1. CASE k <= n
    BY <1>1, <1>5, <2>1
  <2>2. CASE ~(k <= n)
    <3>1. k - n \in 1 .. r
      BY <1>1, <2>2
    <3> QED  BY <1>4, <2>2, <3>1
  <2> QED  BY <2>1, <2>2
<1> QED  BY <1>4, <1>6, <1>7, <1>8 DEF t, b, r, x

-----------------------------------------------------------------------------
(* A route with a maneuver laid on it, and the short way round. *)

LEMMA ExtendedIsRoute ==
    ASSUME NEW w, NEW n \in 0 .. RouteRoom, Road(w, n), NEW i \in Icons
    PROVE  /\ Road(Extended(w, n, i), n + Room(n, i))
           /\ n > 0 => TotalDist(w, n) <= TotalDist(Extended(w, n, i), n + Room(n, i))
<1> DEFINE a == IconData[i].body
           t == Transform(w, n, IconData[i].body[1])
           b == TotalDist(w, n)
           r == Room(n, i)
           x == Extended(w, n, i)
<1>1. n \in Nat /\ r \in 0 .. Pieces(i) /\ Pieces(i) \in 1 .. MostPieces /\ r \in Nat
  BY RoomFits, PiecesAre DEF MostPieces
<1>2. t \in Moves /\ b \in Int
  BY <1>1, TransformIs, TotalIs
<1>3. /\ x \in [1 .. n + r -> Segments]
      /\ \A k \in 1 .. n : x[k] = w[k]
      /\ \A j \in 1 .. r : j \in 1 .. Pieces(i) /\ x[n + j] = Placed(a[j], t, b)
  BY ExtendedIs
<1>4. /\ \A j \in 1 .. Pieces(i) : a[j] \in Segments /\ a[j].from \in Int /\ a[j].till \in Int /\ a[j].from < a[j].till
      /\ \A j \in 1 .. Pieces(i) - 1 : Meets(a[j], a[j + 1])
      /\ \A j, l \in 1 .. Pieces(i) : j < l => a[j].till <= a[l].from
      /\ a[1].from = 0 /\ a[1].at = Origin /\ a[1].dir = -QuarterTurn
  BY IconsAreGood DEF GoodIcon, Segments
<1>5. /\ w \in [1 .. n -> Segments] /\ \A k \in 1 .. n : w[k].from \in Int /\ w[k].till \in Int /\ w[k].from < w[k].till
      /\ \A j, k \in 1 .. n : j < k => w[j].till <= w[k].from
      /\ \A k \in 1 .. n - 1 : Meets(w[k], w[k + 1])
  BY DEF Road, Segments
<1>6. n > 0 => t.turn = TipDir(w[n]) + QuarterTurn /\ t.anchor = Tip(w[n]) /\ t.base = Origin /\ b = w[n].till
  <2>1. n > 0 => b = w[n].till
    BY DEF TotalDist
  <2>2. n > 0 => t.turn = TipDir(w[n]) + QuarterTurn /\ t.anchor = Tip(w[n]) /\ t.base = Origin
    BY <1>1, TransformIs
  <2> QED  BY <2>1, <2>2
<1> HIDE DEF a, t, b, r, x
\* What is new begins at the end of what was.
<1>7. \A j \in 1 .. r : x[n + j].from = b + a[j].from /\ x[n + j].till = b + a[j].till
  <2> SUFFICES ASSUME NEW j \in 1 .. r PROVE x[n + j].from = b + a[j].from /\ x[n + j].till = b + a[j].till
    OBVIOUS
  <2>1. x[n + j] = Placed(a[j], t, b) /\ a[j] \in Segments
    BY <1>3, <1>4
  <2> QED  BY <1>2, <2>1, PlacedFields
<1>8. \A j \in 1 .. r : a[j].from >= 0
  <2> SUFFICES ASSUME NEW j \in 1 .. r PROVE a[j].from >= 0
    OBVIOUS
  <2>1. j \in 1 .. Pieces(i) /\ 1 \in 1 .. Pieces(i)
    BY <1>1, <1>3
  <2>2. CASE j = 1
    BY <1>4, <2>2
  <2>3. CASE j # 1
    <3>1. 1 < j
      BY <2>1, <2>3
    <3>2. a[1].till <= a[j].from /\ 0 < a[1].till
      BY <1>4, <2>1, <3>1
    <3> QED  BY <1>4, <2>1, <3>2
  <2> QED  BY <2>2, <2>3
<1>9. \A k \in 1 .. n + r : k \in 1 .. n \/ \E j \in 1 .. r : k = n + j
  <2> SUFFICES ASSUME NEW k \in 1 .. n + r, k \notin 1 .. n PROVE k - n \in 1 .. r /\ k = n + (k - n)
    OBVIOUS
  <2> QED  BY <1>1
<1>10. \A k \in 1 .. n + r : x[k].from < x[k].till
  <2> SUFFICES ASSUME NEW k \in 1 .. n + r PROVE x[k].from < x[k].till
    OBVIOUS
  <2>1. CASE k \in 1 .. n
    BY <1>3, <1>5, <2>1
  <2>2. ASSUME NEW j \in 1 .. r, k = n + j PROVE x[k].from < x[k].till
    BY <1>2, <1>3, <1>4, <1>7, <2>2
  <2> QED  BY <1>9, <2>1, <2>2
<1>11. \A j \in 1 .. n : n > 0 /\ x[j].till <= b
  <2> SUFFICES ASSUME NEW j \in 1 .. n PROVE n > 0 /\ x[j].till <= b
    OBVIOUS
  <2>1. n > 0 /\ n \in 1 .. n /\ b = w[n].till
    BY <1>1, <1>6
  <2>2. j < n => w[j].till <= w[n].from
    BY <1>5, <2>1
  <2> QED  BY <1>1, <1>3, <1>5, <2>1, <2>2
<1>12. \A j, k \in 1 .. n + r : j < k => x[j].till <= x[k].from
  <2> SUFFICES ASSUME NEW j \in 1 .. n + r, NEW k \in 1 .. n + r, j < k PROVE x[j].till <= x[k].from
    OBVIOUS
  <2>1. CASE k \in 1 .. n
    <3>1. j \in 1 .. n
      BY <1>1, <2>1
    <3> QED  BY <1>3, <1>5, <2>1, <3>1
  <2>2. ASSUME NEW l \in 1 .. r, k = n + l, j \in 1 .. n PROVE x[j].till <= x[k].from
    <3>1. x[j].till \in Int
      BY <1>3, <1>5, <2>2
    <3>2. x[k].from = b + a[l].from
      BY <1>7, <2>2
    <3>3. l \in 1 .. Pieces(i) /\ a[l].from >= 0
      BY <1>3, <1>8, <2>2
    <3>4. a[l].from \in Int
      BY <1>4, <3>3
    <3>5. x[j].till <= b
      BY <1>11, <2>2
    <3> QED  BY <1>2, <3>1, <3>2, <3>3, <3>4, <3>5
  <2>3. ASSUME NEW l \in 1 .. r, k = n + l, NEW h \in 1 .. r, j = n + h PROVE x[j].till <= x[k].from
    <3>1. h < l /\ h \in 1 .. Pieces(i) /\ l \in 1 .. Pieces(i)
      BY <1>1, <1>3, <2>3
    <3>2. a[h].till <= a[l].from /\ a[h].till \in Int /\ a[l].from \in Int
      BY <1>4, <3>1
    <3> QED  BY <1>2, <1>7, <2>3, <3>2
  <2> QED  BY <1>9, <2>1, <2>2, <2>3
<1>13. \A k \in 1 .. (n + r) - 1 : Meets(x[k], x[k + 1])
  <2> SUFFICES ASSUME NEW k \in 1 .. (n + r) - 1 PROVE Meets(x[k], x[k + 1])
    OBVIOUS
  <2>1. CASE k < n
    <3>1. k \in 1 .. n /\ k + 1 \in 1 .. n /\ k \in 1 .. n - 1
      BY <1>1, <2>1
    <3> QED  BY <1>3, <1>5, <3>1
  <2>2. CASE k = n
    <3>1. n > 0 /\ n \in 1 .. n /\ 1 \in 1 .. r /\ 1 \in 1 .. Pieces(i)
      BY <1>1, <2>2
    <3>2. x[n] = w[n] /\ x[n + 1] = Placed(a[1], t, b) /\ w[n] \in Segments /\ a[1] \in Segments
      BY <1>3, <1>4, <1>5, <3>1
    <3>3. x[n + 1].from = b + 0 /\ x[n + 1].at = TransformPoint(Origin, t) /\ x[n + 1].dir = -QuarterTurn + t.turn
      <4>1. /\ x[n + 1].from = b + a[1].from /\ x[n + 1].at = TransformPoint(a[1].at, t)
            /\ x[n + 1].dir = a[1].dir + t.turn
        BY <1>2, <3>2, PlacedFields
      <4> QED  BY <1>4, <4>1
    <3>4. TransformPoint(Origin, t) = t.anchor
      <4>1. t.base = Origin /\ t.anchor \in Points /\ t.turn \in Int
        BY <1>2, <1>6, <3>1 DEF Moves
      <4>2. Minus(Origin, Origin) = Origin
        BY OriginIs, SumsAdd
      <4>3. Rotated(Origin, t.turn) = Origin
        BY <4>1, OriginTurned
      <4>4. Plus(t.anchor, Origin) = t.anchor
        BY <4>1, OriginIs, SumsAdd
      <4> QED  BY <4>1, <4>2, <4>3, <4>4 DEF TransformPoint
    <3>5. TipDir(w[n]) \in Int /\ QuarterTurn \in Int
      BY <3>2, TipIsPoint DEF QuarterTurn
    <3>6. x[n + 1].from = w[n].till /\ x[n + 1].at = Tip(w[n]) /\ x[n + 1].dir = TipDir(w[n])
      BY <1>2, <1>6, <3>1, <3>3, <3>4, <3>5
    <3>7. SameWay(x[n + 1].dir, TipDir(w[n]))
      BY <3>5, <3>6, SameWayAsItself
    <3> QED  BY <2>2, <3>2, <3>6, <3>7 DEF Meets
  <2>3. CASE k > n
    <3> DEFINE j == k - n
    <3>1. j \in 1 .. r /\ j + 1 \in 1 .. r /\ j \in 1 .. Pieces(i) - 1 /\ k = n + j /\ k + 1 = n + (j + 1)
      BY <1>1, <2>3
    <3> HIDE DEF j
    <3>2. /\ x[k] = Placed(a[j], t, b) /\ x[k + 1] = Placed(a[j + 1], t, b)
          /\ a[j] \in Segments /\ a[j + 1] \in Segments /\ Meets(a[j], a[j + 1])
      BY <1>3, <1>4, <3>1
    <3> QED  BY <1>2, <3>2, PlacedMeet
  <2> QED  BY <1>1, <2>1, <2>2, <2>3
<1>14. n > 0 => b <= TotalDist(x, n + r)
  <2> SUFFICES ASSUME n > 0 PROVE b <= x[n + r].till
    BY <1>1 DEF TotalDist
  <2>1. CASE r = 0
    BY <1>1, <1>2, <1>3, <1>6, <2>1
  <2>2. CASE r > 0
    <3>1. r \in 1 .. r /\ r \in 1 .. Pieces(i)
      BY <1>1, <2>2
    <3> QED  BY <1>2, <1>4, <1>7, <1>8, <3>1
  <2> QED  BY <1>1, <2>1, <2>2
<1>15. n + r \in Nat
  BY <1>1
<1>16. Road(x, n + r)
  <2> DEFINE m == n + r
  <2>1. m \in Nat /\ x \in [1 .. m -> Segments]
    BY <1>3, <1>15
  <2>2. \A k \in 1 .. m : x[k].from < x[k].till
    BY <1>10
  <2>3. \A j, k \in 1 .. m : j < k => x[j].till <= x[k].from
    BY <1>12
  <2>4. \A k \in 1 .. m - 1 : Meets(x[k], x[k + 1])
    BY <1>13
  <2> HIDE DEF m
  <2>5. Road(x, m)
    BY <2>1, <2>2, <2>3, <2>4 DEF Road
  <2> QED  BY <2>5 DEF m
<1> QED  BY <1>14, <1>16 DEF r, x, b

(* The camera over it shows it as it was drawn. *)

LEMMA ShortWayRound ==
    ASSUME NEW q \in Int
    PROVE  NormAngle(q) \in Int /\ (NormAngle(q) - q) % FullTurn = 0
<1> DEFINE m == q % FullTurn
<1>1. m \in Int /\ FullTurn \in Int
  BY DEF FullTurn
<1>2. (m - q) % FullTurn = (q - q) % FullTurn
  BY TurnsTake
<1>3. q - q = 0 /\ 0 % FullTurn = 0
  BY DEF FullTurn
<1>4. ((m - FullTurn) - q) % FullTurn = 0
  <2>1. m - q \in Int /\ (m - FullTurn) - q = (m - q) - FullTurn
    BY <1>1
  <2>2. \A e \in Int : e % FullTurn = 0 => (e - FullTurn) % FullTurn = 0
    BY DEF FullTurn
  <2> QED  BY <1>2, <1>3, <2>1, <2>2
<1>5. NormAngle(q) = m \/ NormAngle(q) = m - FullTurn
  BY DEF NormAngle
<1> HIDE DEF m
<1> QED  BY <1>1, <1>2, <1>3, <1>4, <1>5

-----------------------------------------------------------------------------
(* Where the camera and the arrow are going. *)

Poses == [base : Int, head : Int, centre : Points, rot : Int]

LEMMA TargetIs ==
    ASSUME NEW w, NEW n \in 0 .. RouteRoom, Road(w, n), NEW i \in Icons
    PROVE  LET t == Transform(w, n, IconData[i].body[1])
               p == TargetPose(w, n, i)
           IN  /\ p \in Poses /\ t \in Moves
               /\ p.base = TotalDist(w, n) /\ p.head = TotalDist(Extended(w, n, i), n + Room(n, i))
               /\ p.centre = TransformPoint(IconData[i].frame, t) /\ p.rot = -t.turn
<1> DEFINE a == IconData[i].body[1]
           t == Transform(w, n, a)
           p == TargetPose(w, n, i)
           x == Extended(w, n, i)
           m == n + Room(n, i)
           c == TransformPoint(IconData[i].frame, t)
<1>1. n \in Nat /\ m \in Nat /\ a.dir = -QuarterTurn /\ QuarterTurn \in Int
  BY RoomFits, FirstIs DEF QuarterTurn
<1>2. t \in Moves /\ t.turn \in Int
  <2> HIDE DEF t
  <2>1. t \in Moves
    BY <1>1, TransformIs DEF t
  <2> QED  BY <2>1 DEF Moves
<1>3. TotalDist(w, n) \in Int /\ TotalDist(x, m) \in Int
  <2>1. Road(x, m)
    BY ExtendedIsRoute
  <2> HIDE DEF x, m
  <2> QED  BY <1>1, <2>1, TotalIs
<1>4. IconData[i].frame \in Points
  BY FramesArePoints
<1>5. c \in Points
  <2> HIDE DEF t
  <2> QED  BY <1>2, <1>4, TransformMoves
<1>6. p = [base |-> TotalDist(w, n), head |-> TotalDist(x, m), centre |-> c, rot |-> -QuarterTurn - (a.dir + t.turn)]
  BY DEF TargetPose
<1> HIDE DEF a, t, x, m, c, p
<1>7. -QuarterTurn - (a.dir + t.turn) = -t.turn
  BY <1>1, <1>2
<1>8. p \in Poses
  BY <1>2, <1>3, <1>5, <1>6, <1>7 DEF Poses
<1>9. p.base = TotalDist(w, n) /\ p.head = TotalDist(x, m) /\ p.centre = c /\ p.rot = -t.turn
  BY <1>6, <1>7
<1> QED  BY <1>2, <1>8, <1>9 DEF a, t, x, m, c, p

LEMMA RetargetIs ==
    ASSUME NEW from \in Poses, NEW target \in Poses
    PROVE  LET to == Retarget(from, target)
           IN  /\ to \in Poses /\ to.base = target.base /\ to.head = target.head /\ to.centre = target.centre
               /\ (to.rot - target.rot) % FullTurn = 0
<1> DEFINE q == target.rot - from.rot
           to == Retarget(from, target)
<1>1. from.rot \in Int /\ target.rot \in Int /\ q \in Int
  BY DEF Poses
<1> HIDE DEF q
<1>2. NormAngle(q) \in Int /\ (NormAngle(q) - q) % FullTurn = 0
  BY <1>1, ShortWayRound
<1>3. to = [target EXCEPT !.rot = from.rot + NormAngle(q)]
  BY DEF Retarget, q
<1> HIDE DEF to
<1>4. to \in Poses /\ to.base = target.base /\ to.head = target.head /\ to.centre = target.centre
      /\ to.rot = from.rot + NormAngle(q)
  BY <1>1, <1>2, <1>3 DEF Poses
<1>5. to.rot - target.rot = NormAngle(q) - q
  <2>1. q = target.rot - from.rot
    BY DEF q
  <2> QED  BY <1>1, <1>2, <1>4, <2>1
<1> QED  BY <1>2, <1>4, <1>5 DEF to

\* Whatever way a segment was laid, the camera over its maneuver turns it back.
LEMMA LaidIsShown ==
    ASSUME NEW a \in Segments, NEW f \in Points, NEW t \in Moves, NEW b \in Int, NEW r \in Int, (r + t.turn) % FullTurn = 0
    PROVE  LET s == Placed(a, t, b)
           IN  /\ Rotated(Minus(s.at, TransformPoint(f, t)), r) = Minus(a.at, f)
               /\ SameWay(s.dir + r, a.dir)
               /\ s.bend = a.bend /\ s.turn = a.turn /\ s.till - s.from = a.till - a.from
<1> DEFINE s == Placed(a, t, b)
           d == Minus(a.at, t.base)
           e == Minus(f, t.base)
<1>1. a.at \in Points /\ a.dir \in Int /\ a.from \in Int /\ a.till \in Int
      /\ t.turn \in Int /\ t.anchor \in Points /\ t.base \in Points
  BY DEF Segments, Moves
<1>2. /\ s.at = TransformPoint(a.at, t) /\ s.dir = a.dir + t.turn /\ s.bend = a.bend /\ s.turn = a.turn
      /\ s.from = b + a.from /\ s.till = b + a.till
  BY PlacedFields
<1>3. d \in Points /\ e \in Points /\ Minus(d, e) = Minus(a.at, f) /\ Minus(d, e) \in Points
  <2>1. Minus(d, e) = Minus(a.at, f)
    BY <1>1, SumsAdd
  <2> QED  BY <1>1, <2>1, SumsArePoints
<1> HIDE DEF s, d, e
<1>4. Minus(Plus(t.anchor, Rotated(d, t.turn)), Plus(t.anchor, Rotated(e, t.turn))) = Rotated(Minus(d, e), t.turn)
  <2> DEFINE D == Rotated(d, t.turn)
             E == Rotated(e, t.turn)
  <2>1. D \in Points /\ E \in Points /\ Rotated(Minus(d, e), t.turn) = Minus(D, E)
    <3>1. d \in Points /\ e \in Points /\ t.turn \in Int
      BY <1>1, <1>3
    <3> QED  BY <3>1, RotatedIsPoint, RotatedSum
  <2> HIDE DEF D, E
  <2>2. Minus(Plus(t.anchor, D), Plus(t.anchor, E)) = Minus(D, E)
    BY <1>1, <2>1, SumsAdd
  <2> QED  BY <2>1, <2>2 DEF D, E
<1>5. Minus(s.at, TransformPoint(f, t)) = Rotated(Minus(d, e), t.turn)
  BY <1>2, <1>4 DEF TransformPoint, d, e
<1>6. t.turn + r = r + t.turn
  BY <1>1
<1>7. Rotated(Minus(s.at, TransformPoint(f, t)), r) = Minus(a.at, f)
  BY <1>1, <1>3, <1>5, <1>6, RotatedRound
<1>8. SameWay(s.dir + r, a.dir)
  <2>1. (s.dir + r) - a.dir = r + t.turn
    BY <1>1, <1>2
  <2> QED  BY <2>1 DEF SameWay
<1>9. s.till - s.from = a.till - a.from
  BY <1>1, <1>2
<1> QED  BY <1>2, <1>7, <1>8, <1>9 DEF s

-----------------------------------------------------------------------------
(* The invariant: the arrow is on the route, and what is ahead of it is the  *)
(* maneuver shown last.                                                     *)

\* The maneuver shown last begins at the end of segment m.
Behind(m) ==
    /\ way[m].till = poseTo.base
    /\ \A k \in m + 1 .. count : k - m <= Pieces(leading) /\ ShownAs(way[k], leading, k - m)
    /\ ~hurried => count = m + Pieces(leading)

ArrowOn ==
    /\ leading \in Icons /\ count \in 1 .. RouteRoom
    /\ way[1].from <= pose.base /\ pose.base <= pose.head
    /\ pose.base <= poseTo.base /\ pose.head <= poseTo.head
    /\ revealing => /\ way[1].from <= poseFrom.base /\ poseFrom.base <= poseFrom.head
                    /\ poseFrom.base <= poseTo.base /\ poseFrom.head <= poseTo.head
    /\ poseTo.head = way[count].till
    /\ \E m \in 1 .. count : Behind(m)

RouteInv ==
    /\ Road(way, count)
    /\ pose \in Poses /\ poseFrom \in Poses /\ poseTo \in Poses
    /\ revealing \in BOOLEAN /\ hurried \in BOOLEAN
    /\ revealing => leading # "none"
    /\ leading # "none" => ArrowOn
    /\ leading # "none" /\ ~revealing => pose = poseTo /\ way[1].till = pose.base /\ count <= MostPieces + 1

LEMMA PosesAre ==
    ASSUME NEW p \in Poses
    PROVE  p.base \in Int /\ p.head \in Int /\ p.rot \in Int /\ p.centre \in Points
BY DEF Poses

LEMMA RouteStarts == ASSUME RouteInit PROVE RouteInv
<1>1. Origin \in Points
  BY OriginIs
<1>2. pose \in Poses /\ poseFrom \in Poses /\ poseTo \in Poses
  BY <1>1 DEF RouteInit, Poses
<1>3. Road(way, count)
  <2>1. count = 0 /\ way = <<>> /\ 1 .. 0 = {}
    BY DEF RouteInit
  <2>2. way \in [1 .. count -> Segments]
    BY <2>1
  <2> QED  BY <2>1, <2>2 DEF Road
<1> QED  BY <1>2, <1>3 DEF RouteInit, RouteInv

LEMMA MeantIsShown ==
    ASSUME NEW w, NEW n \in 1 .. RouteRoom, Road(w, n), NEW i \in Icons,
           way' = Extended(w, n, i), count' = n + Room(n, i), leading' = i,
           poseTo' \in Poses, poseTo'.base = TotalDist(w, n), poseTo'.centre = TargetPose(w, n, i).centre,
           (poseTo'.rot - TargetPose(w, n, i).rot) % FullTurn = 0,
           ~hurried' => n <= MostPieces + 1
    PROVE  Behind(n)'
<1> DEFINE a == IconData[i].body
           f == IconData[i].frame
           t == Transform(w, n, IconData[i].body[1])
           b == TotalDist(w, n)
           r == Room(n, i)
           p == TargetPose(w, n, i)
<1>1. n \in Nat /\ n > 0 /\ n \in 0 .. RouteRoom /\ n \in 1 .. n /\ r \in 0 .. Pieces(i) /\ Pieces(i) \in Nat /\ r \in Nat
      /\ (n <= MostPieces + 1 => r = Pieces(i))
  BY RoomFits, PiecesAre DEF RouteRoom, MostPieces
<1>2. /\ \A k \in 1 .. n : way'[k] = w[k]
      /\ \A j \in 1 .. r : j \in 1 .. Pieces(i) /\ way'[n + j] = Placed(a[j], t, b)
  BY <1>1, ExtendedIs
<1>3. t \in Moves /\ p.centre = TransformPoint(f, t) /\ p.rot = -t.turn
  BY <1>1, TargetIs
<1>4. b = w[n].till /\ b \in Int
  <2>1. b \in Int
    BY <1>1, TotalIs
  <2> QED  BY <1>1, <2>1 DEF TotalDist
<1>5. f \in Points /\ \A j \in 1 .. Pieces(i) : a[j] \in Segments
  BY IconsAreGood DEF GoodIcon
<1>6. poseTo'.rot \in Int /\ t.turn \in Int
  <2> HIDE DEF t
  <2> QED  BY <1>3, PosesAre DEF Moves, Poses
<1>7. (poseTo'.rot + t.turn) % FullTurn = 0
  <2>1. poseTo'.rot - p.rot = poseTo'.rot + t.turn
    <3> HIDE DEF p, t
    <3> QED  BY <1>3, <1>6
  <2> QED  BY <2>1
<1> HIDE DEF a, f, t, b, r, p
<1>8. ASSUME NEW k \in n + 1 .. count'
      PROVE  k - n <= Pieces(i) /\ ShownAs(way[k], leading, k - n)'
  <2> DEFINE j == k - n
  <2>1. j \in 1 .. r /\ k = n + j /\ j \in 1 .. Pieces(i)
    BY <1>1, <1>8 DEF r
  <2> HIDE DEF j
  <2>2. way'[k] = Placed(a[j], t, b) /\ a[j] \in Segments
    BY <1>2, <1>5, <2>1
  <2>3. poseTo'.centre = TransformPoint(f, t)
    BY <1>3 DEF p
  <2>4. /\ Rotated(Minus(way'[k].at, poseTo'.centre), poseTo'.rot) = Minus(a[j].at, f)
        /\ SameWay(way'[k].dir + poseTo'.rot, a[j].dir)
        /\ way'[k].bend = a[j].bend /\ way'[k].turn = a[j].turn /\ way'[k].till - way'[k].from = a[j].till - a[j].from
    BY <1>3, <1>4, <1>5, <1>6, <1>7, <2>2, <2>3, LaidIsShown
  <2>5. ShownAs(way[k], leading, j)'
    BY <2>4 DEF ShownAs, a, f
  <2> QED  BY <1>1, <2>1, <2>5 DEF j
<1>9. way'[n].till = poseTo'.base
  BY <1>1, <1>2, <1>4 DEF b
<1>10. ~hurried' => count' = n + Pieces(i)
  BY <1>1 DEF r
<1> QED  BY <1>8, <1>9, <1>10 DEF Behind

LEMMA RunwayIs == Road(Runway2, 2) /\ Runway2[1].from = 0
<1>1. "straight" \in Icons /\ Pieces("straight") = 1 /\ 0 \in 0 .. RouteRoom /\ 1 \in 0 .. RouteRoom
      /\ Room(0, "straight") = 1 /\ Room(1, "straight") = 1
  BY IconsAre DEF Straights, Pieces, RouteRoom, MostPieces, Room
<1>2. Road(<<>>, 0)
  BY DEF Road
<1>3. Road(Runway1, 1)
  <2>1. Road(Extended(<<>>, 0, "straight"), 0 + Room(0, "straight"))
    BY <1>1, <1>2, ExtendedIsRoute
  <2> QED  BY <1>1, <2>1 DEF Runway1
<1>4. Road(Runway2, 2)
  <2>1. Road(Extended(Runway1, 1, "straight"), 1 + Room(1, "straight"))
    BY <1>1, <1>3, ExtendedIsRoute
  <2> QED  BY <1>1, <2>1 DEF Runway2
<1>5. Runway1[1].from = 0
  <2> DEFINE a == IconData["straight"].body
             t == Transform(<<>>, 0, a[1])
  <2>1. Runway1[0 + 1] = Placed(a[1], t, TotalDist(<<>>, 0))
    <3>1. 1 \in 1 .. Room(0, "straight")
      BY <1>1
    <3> QED  BY <1>1, <1>2, <3>1, ExtendedIs DEF Runway1
  <2>2. TotalDist(<<>>, 0) = 0
    BY DEF TotalDist
  <2>3. a[1] \in Segments /\ a[1].from = 0 /\ t \in Moves
    <3>1. t \in Moves
      BY <1>1, <1>2, TransformIs
    <3> QED  BY <1>1, <3>1, FirstIs
  <2> HIDE DEF a, t
  <2>4. Placed(a[1], t, 0).from = 0 + a[1].from
    BY <2>3, PlacedFields
  <2> QED  BY <2>1, <2>2, <2>3, <2>4
<1>6. Runway2[1] = Runway1[1]
  <2>1. 1 \in 1 .. 1
    OBVIOUS
  <2> QED  BY <1>1, <1>3, <2>1, ExtendedIs DEF Runway2
<1> QED  BY <1>4, <1>5, <1>6

-----------------------------------------------------------------------------
(* A maneuver comes, and a frame of the way there. *)

LEMMA IconsOfRide == ASSUME NEW i \in Drawables PROVE i \in Icons
BY ArrowRouteAssumption DEF Icons

LEMMA ParkedIs ==
    ASSUME NEW q \in Poses
    PROVE  LET r == [q EXCEPT !.base = 0, !.head = 0] IN r \in Poses /\ r.base = 0 /\ r.head = 0
<1> DEFINE r == [q EXCEPT !.base = 0, !.head = 0]
<1>1. r.base = 0 /\ r.head = 0 /\ r.centre = q.centre /\ r.rot = q.rot
  BY DEF Poses
<1>2. r = [[q EXCEPT !.base = 0] EXCEPT !.head = 0] /\ [q EXCEPT !.base = 0] \in Poses
  BY DEF Poses
<1>3. r \in Poses
  <2> DEFINE o == [q EXCEPT !.base = 0]
  <2>1. o \in Poses /\ r = [o EXCEPT !.head = 0]
    BY <1>2
  <2> HIDE DEF o, r
  <2> QED  BY <2>1 DEF Poses
<1> QED  BY <1>1, <1>3

LEMMA EnterKeeps == ASSUME RouteInv, NEW i \in Icons, EnterWithRunway(i) PROVE RouteInv'
<1> DEFINE p == TargetPose(Runway2, 2, i)
           b == TotalDist(Runway2, 2)
<1>1. Road(Runway2, 2) /\ Runway2[1].from = 0 /\ 2 \in 1 .. RouteRoom /\ 2 \in 0 .. RouteRoom
  BY RunwayIs DEF RouteRoom, MostPieces
<1>2. /\ leading' = i /\ revealing' = TRUE /\ hurried' = FALSE
      /\ way' = Extended(Runway2, 2, i) /\ count' = 2 + Room(2, i)
      /\ pose' = [p EXCEPT !.base = 0, !.head = 0] /\ poseTo' = Retarget(pose', p) /\ poseFrom' = pose'
  BY DEF EnterWithRunway, Leg
<1>3. Room(2, i) \in 0 .. Pieces(i) /\ Pieces(i) \in 1 .. MostPieces /\ count' \in 0 .. RouteRoom /\ count' = 2 + Pieces(i)
  BY <1>1, <1>2, RoomFits, PiecesAre DEF MostPieces
<1>4. Road(way', count')
  BY <1>1, <1>2, ExtendedIsRoute
<1>5. way'[1] = Runway2[1]
  <2>1. 1 \in 1 .. 2
    OBVIOUS
  <2> QED  BY <1>1, <1>2, <2>1, ExtendedIs
<1>6. p \in Poses /\ p.base = b /\ p.head = TotalDist(way', count')
  BY <1>1, <1>2, TargetIs
<1>7. b <= p.head /\ b \in Int
  <2>1. b <= TotalDist(way', count')
    BY <1>1, <1>2, ExtendedIsRoute
  <2> QED  BY <1>1, <1>6, <2>1, TotalIs
<1>8. 0 <= b
  <2>1. b = Runway2[2].till /\ 1 \in 1 .. 2 /\ 2 \in 1 .. 2 /\ Runway2 \in [1 .. 2 -> Segments]
    BY <1>1 DEF TotalDist, Road
  <2>2. Runway2[1].from < Runway2[1].till /\ Runway2[1].till <= Runway2[2].from /\ Runway2[2].from < Runway2[2].till
    BY <1>1, <2>1 DEF Road
  <2>3. Runway2[1].till \in Int /\ Runway2[2].from \in Int /\ Runway2[2].till \in Int
    BY <2>1 DEF Segments
  <2> QED  BY <1>1, <2>1, <2>2, <2>3
<1> HIDE DEF p
<1>9. pose' \in Poses /\ pose'.base = 0 /\ pose'.head = 0
  BY <1>2, <1>6, ParkedIs
<1>10. /\ poseTo' \in Poses /\ poseTo'.base = p.base /\ poseTo'.head = p.head /\ poseTo'.centre = p.centre
       /\ (poseTo'.rot - p.rot) % FullTurn = 0
  BY <1>2, <1>6, <1>9, RetargetIs
<1>11. Behind(2)'
  BY <1>1, <1>2, <1>6, <1>10, MeantIsShown DEF p, b, MostPieces
<1>12. way'[count'].till = poseTo'.head
  BY <1>3, <1>6, <1>10 DEF TotalDist, MostPieces
<1>13. ArrowOn'
  <2>1. 2 \in 1 .. count' /\ count' \in 1 .. RouteRoom
    BY <1>3 DEF MostPieces, RouteRoom
  <2>2. poseFrom' = pose'
    BY <1>2
  <2>3. leading' \in Icons
    BY <1>2
  <2>4. 0 <= poseTo'.base /\ 0 <= poseTo'.head
    <3>1. p.head \in Int
      BY <1>6, PosesAre
    <3> HIDE DEF b
    <3> QED  BY <1>6, <1>7, <1>8, <1>10, <3>1
  <2>5. way'[1].from <= 0
    BY <1>1, <1>5
  <2> HIDE DEF b
  <2> QED  BY <1>9, <1>11, <1>12, <2>1, <2>2, <2>3, <2>4, <2>5 DEF ArrowOn
<1>14. i # "none"
  BY IconsAre DEF Straights, Bends, Islands
<1> QED  BY <1>2, <1>4, <1>9, <1>10, <1>13, <1>14 DEF RouteInv

LEMMA LayKeeps == ASSUME RouteInv, NEW i \in Icons, LayManeuver(i) PROVE RouteInv'
<1> DEFINE p == TargetPose(way, count, i)
           b == TotalDist(way, count)
<1>1. /\ leading' = i /\ revealing' = TRUE /\ hurried' = revealing
      /\ way' = Extended(way, count, i) /\ count' = count + Room(count, i)
      /\ poseTo' = Retarget(pose, p) /\ poseFrom' = pose /\ pose' = pose
  BY DEF LayManeuver, Leg
<1>2. /\ leading # "none" /\ ArrowOn /\ Road(way, count) /\ pose \in Poses /\ revealing \in BOOLEAN
      /\ (~revealing => count <= MostPieces + 1)
  BY DEF RouteInv, LayManeuver
<1>3. count \in 1 .. RouteRoom /\ count \in 0 .. RouteRoom /\ count > 0 /\ count \in Nat
  BY <1>2 DEF ArrowOn, RouteRoom, MostPieces
<1>4. Room(count, i) \in 0 .. Pieces(i) /\ Pieces(i) \in 1 .. MostPieces /\ count' \in 1 .. RouteRoom
  BY <1>1, <1>3, RoomFits, PiecesAre DEF MostPieces, RouteRoom
<1>5. Road(way', count') /\ b <= TotalDist(way', count')
  BY <1>1, <1>2, <1>3, ExtendedIsRoute
<1>6. way'[1] = way[1]
  <2>1. 1 \in 1 .. count
    BY <1>3
  <2> QED  BY <1>1, <1>2, <1>3, <2>1, ExtendedIs
<1>7. p \in Poses /\ p.base = b /\ p.head = TotalDist(way', count')
  BY <1>1, <1>2, <1>3, TargetIs
<1>8. b \in Int /\ b = way[count].till /\ TotalDist(way', count') = way'[count'].till
  <2>1. b \in Int
    BY <1>2, <1>3, TotalIs
  <2> QED  BY <1>3, <1>4, <2>1 DEF TotalDist, RouteRoom, MostPieces
<1> HIDE DEF p, b
<1>9. /\ poseTo' \in Poses /\ poseTo'.base = b /\ poseTo'.head = p.head /\ poseTo'.centre = p.centre
      /\ (poseTo'.rot - p.rot) % FullTurn = 0
  BY <1>1, <1>2, <1>7, RetargetIs
<1>10. PICK n \in 1 .. RouteRoom : n = count
  BY <1>3
<1>11. Behind(n)'
  <2>1. way' = Extended(way, n, i) /\ count' = n + Room(n, i) /\ Road(way, n) /\ p = TargetPose(way, n, i)
        /\ b = TotalDist(way, n)
    BY <1>1, <1>2, <1>10 DEF p, b
  <2>2. ~hurried' => n <= MostPieces + 1
    BY <1>1, <1>2, <1>10
  <2> QED  BY <1>1, <1>9, <2>1, <2>2, MeantIsShown
<1>12. ArrowOn'
  <2>1. n \in 1 .. count' /\ leading' \in Icons
    BY <1>1, <1>3, <1>4, <1>10
  <2>2. /\ way[1].from <= pose.base /\ pose.base <= pose.head /\ pose.head <= poseTo.head /\ poseTo.head = b
    BY <1>2, <1>8 DEF ArrowOn
  <2>3. pose.base \in Int /\ pose.head \in Int /\ p.head \in Int /\ b <= p.head
    BY <1>2, <1>5, <1>7, PosesAre
  <2>4. pose.base <= poseTo'.base /\ pose.head <= poseTo'.head
    BY <1>8, <1>9, <2>2, <2>3
  <2>5. poseTo'.head = way'[count'].till
    BY <1>7, <1>8, <1>9
  <2> QED  BY <1>1, <1>4, <1>6, <1>11, <2>1, <2>2, <2>4, <2>5 DEF ArrowOn
<1>13. i # "none"
  BY IconsAre DEF Straights, Bends, Islands
<1> QED  BY <1>1, <1>2, <1>5, <1>9, <1>12, <1>13 DEF RouteInv

LEMMA MidwayIs ==
    ASSUME NEW a \in Int, NEW b \in Int
    PROVE  Midway(a, b) \in Int /\ (a <= b => a <= Midway(a, b) /\ Midway(a, b) <= b)
BY DEF Midway

LEMMA MidwayOrder ==
    ASSUME NEW a \in Int, NEW b \in Int, NEW c \in Int, NEW d \in Int, a <= c, b <= d
    PROVE  Midway(a, b) <= Midway(c, d)
BY DEF Midway

LEMMA FrameKeeps == ASSUME RouteInv, FrameMidway PROVE RouteInv'
<1>1. /\ revealing /\ UNCHANGED <<way, count, poseFrom, poseTo, revealing, leading, hurried>>
      /\ pose'.base = Midway(poseFrom.base, poseTo.base) /\ pose'.head = Midway(poseFrom.head, poseTo.head)
      /\ pose' = [base |-> Midway(poseFrom.base, poseTo.base), head |-> Midway(poseFrom.head, poseTo.head),
                  centre |-> HalfWay(poseFrom.centre, poseTo.centre),
                  rot |-> Midway(poseFrom.rot, poseTo.rot)]
  BY DEF FrameMidway
<1>2. /\ poseFrom \in Poses /\ poseTo \in Poses /\ (leading # "none" => ArrowOn)
      /\ Road(way, count) /\ revealing \in BOOLEAN /\ hurried \in BOOLEAN
  BY DEF RouteInv
<1>3. /\ poseFrom.base \in Int /\ poseFrom.head \in Int /\ poseTo.base \in Int /\ poseTo.head \in Int
      /\ poseFrom.rot \in Int /\ poseTo.rot \in Int
      /\ poseFrom.centre \in Points /\ poseTo.centre \in Points
  BY <1>2, PosesAre
<1>4. pose' \in Poses
  <2>1. /\ Midway(poseFrom.base, poseTo.base) \in Int /\ Midway(poseFrom.head, poseTo.head) \in Int
        /\ Midway(poseFrom.rot, poseTo.rot) \in Int
    BY <1>3, MidwayIs
  <2>2. HalfWay(poseFrom.centre, poseTo.centre) \in Points
    BY <1>3, HalfWayIsPoint
  <2> QED  BY <1>1, <2>1, <2>2 DEF Poses
<1>5. ASSUME leading # "none" PROVE ArrowOn'
  <2>1. ArrowOn /\ poseFrom.base <= poseTo.base /\ poseFrom.head <= poseTo.head /\ poseFrom.base <= poseFrom.head
        /\ way[1].from <= poseFrom.base
    BY <1>1, <1>2, <1>5 DEF ArrowOn
  <2>2. PICK m \in 1 .. count : Behind(m)
    BY <2>1 DEF ArrowOn
  <2>3. poseTo.base <= poseTo.head /\ way[1].from \in Int
    <3>1. /\ Road(way, count) /\ m \in 1 .. count /\ count \in 1 .. count /\ 1 \in 1 .. count
          /\ poseTo.base = way[m].till /\ poseTo.head = way[count].till /\ way \in [1 .. count -> Segments]
      BY <1>2, <2>1, <2>2 DEF ArrowOn, Behind, Road
    <3>2. way[1].from \in Int /\ way[count].from \in Int /\ way[count].till \in Int /\ way[count].from < way[count].till
      BY <3>1 DEF Road, Segments
    <3>3. m < count => way[m].till <= way[count].from
      BY <3>1 DEF Road
    <3>4. CASE m = count
      BY <3>1, <3>2, <3>4
    <3>5. CASE m # count
      <4>1. m < count
        BY <3>1, <3>5
      <4> QED  BY <1>3, <3>1, <3>2, <3>3, <4>1
    <3> QED  BY <3>4, <3>5
  <2>4. /\ pose'.base <= poseTo.base /\ poseFrom.base <= pose'.base /\ pose'.head <= poseTo.head
        /\ pose'.base <= pose'.head /\ pose'.base \in Int
    BY <1>1, <1>3, <2>1, <2>3, MidwayIs, MidwayOrder
  <2>5. way[1].from <= pose'.base
    BY <1>3, <2>1, <2>3, <2>4
  <2>6. Behind(m)'
    BY <1>1, <2>2 DEF Behind, ShownAs
  <2> QED  BY <1>1, <2>1, <2>2, <2>4, <2>5, <2>6 DEF ArrowOn
<1>6. leading # "none"
  BY <1>1 DEF RouteInv
<1> QED  BY <1>1, <1>2, <1>4, <1>5, <1>6 DEF RouteInv

-----------------------------------------------------------------------------
(* The last frame, and the past left behind. *)

\* Only one segment ends at the arrow's base.
LEMMA EndsOnce ==
    ASSUME NEW w, NEW n \in Nat, Road(w, n), NEW m \in 1 .. n, NEW k \in 1 .. n
    PROVE  /\ w[k].till \in Int /\ w[m].till \in Int
           /\ k < m => w[k].till < w[m].till
           /\ k > m => w[m].till < w[k].till
<1>1. /\ w[k].till \in Int /\ w[m].till \in Int /\ w[k].from \in Int /\ w[m].from \in Int
      /\ w[k].from < w[k].till /\ w[m].from < w[m].till
  BY DEF Road, Segments
<1>2. (k < m => w[k].till <= w[m].from) /\ (m < k => w[m].till <= w[k].from)
  BY DEF Road
<1>3. k \in Int /\ m \in Int
  OBVIOUS
<1> QED  BY <1>1, <1>2, <1>3

LEMMA IndexIs ==
    ASSUME Road(way, count), NEW m \in 1 .. count, NEW d, way[m].till = d
    PROVE  IndexAt(d) = m
<1> DEFINE Latest(k) == d <= way[k].till /\ \A j \in 1 .. k - 1 : way[j].till < d
<1>1. count \in Nat /\ m \in Int
  BY DEF Road
<1>2. d \in Int
  BY <1>1, EndsOnce
<1>3. Latest(m)
  <2> SUFFICES ASSUME NEW j \in 1 .. m - 1 PROVE way[j].till < d
    BY <1>2
  <2>1. j \in 1 .. count /\ j < m
    BY <1>1
  <2> QED  BY <1>1, <2>1, EndsOnce
<1>4. ASSUME NEW k \in 1 .. count, Latest(k) PROVE k = m
  <2>1. ~(k < m)
    <3> SUFFICES ASSUME k < m PROVE FALSE
      OBVIOUS
    <3>1. way[k].till < way[m].till /\ way[k].till \in Int
      BY <1>1, EndsOnce
    <3> QED  BY <1>2, <1>4, <3>1
  <2>2. ~(k > m)
    <3> SUFFICES ASSUME k > m PROVE FALSE
      OBVIOUS
    <3>1. m \in 1 .. k - 1
      BY <1>1
    <3> QED  BY <1>2, <1>4, <3>1
  <2> QED  BY <1>1, <2>1, <2>2
<1>5. \E k \in 1 .. count : d <= way[k].till
  BY <1>3
<1>6. IndexAt(d) = CHOOSE k \in 1 .. count : Latest(k)
  BY <1>5 DEF IndexAt
<1> HIDE DEF Latest
<1> QED  BY <1>3, <1>4, <1>6

LEMMA CutIsRoute ==
    ASSUME NEW w, NEW n \in Nat, Road(w, n), NEW m \in 1 .. n
    PROVE  LET x == [k \in 1 .. n - m + 1 |-> w[k + m - 1]] IN Road(x, n - m + 1)
<1> DEFINE c == n - m + 1
           x == [k \in 1 .. c |-> w[k + m - 1]]
<1>1. c \in Nat /\ m \in Nat /\ c = (n - m) + 1
  OBVIOUS
<1>2. \A k \in 1 .. c : k + m - 1 \in 1 .. n /\ x[k] = w[k + m - 1]
  BY <1>1
<1>3. w \in [1 .. n -> Segments]
  BY DEF Road
<1> HIDE DEF x
<1>4. \A k \in 1 .. c : x[k] \in Segments
  BY <1>2, <1>3
<1>5. x \in [1 .. c -> Segments]
  BY <1>4 DEF x
<1>6. \A k \in 1 .. c : x[k].from < x[k].till
  BY <1>2 DEF Road
<1>7. \A j, k \in 1 .. c : j < k => x[j].till <= x[k].from
  <2> SUFFICES ASSUME NEW j \in 1 .. c, NEW k \in 1 .. c, j < k PROVE x[j].till <= x[k].from
    OBVIOUS
  <2>1. j + m - 1 < k + m - 1 /\ j + m - 1 \in 1 .. n /\ k + m - 1 \in 1 .. n
    BY <1>1, <1>2
  <2>2. x[j] = w[j + m - 1] /\ x[k] = w[k + m - 1]
    BY <1>2
  <2> QED  BY <2>1, <2>2 DEF Road
<1>8. \A k \in 1 .. c - 1 : Meets(x[k], x[k + 1])
  <2> SUFFICES ASSUME NEW k \in 1 .. c - 1 PROVE Meets(x[k], x[k + 1])
    OBVIOUS
  <2>1. k \in 1 .. c /\ k + 1 \in 1 .. c /\ k + m - 1 \in 1 .. n - 1 /\ (k + 1) + m - 1 = (k + m - 1) + 1
    BY <1>1
  <2>2. x[k] = w[k + m - 1] /\ x[k + 1] = w[(k + m - 1) + 1]
    BY <1>2, <2>1
  <2> QED  BY <2>1, <2>2 DEF Road
<1> HIDE DEF c
<1>9. Road(x, c)
  BY <1>1, <1>5, <1>6, <1>7, <1>8 DEF Road
<1> QED  BY <1>9 DEF x, c

\* What is left when the first m - 1 of n segments are dropped.
CutTo(n, m, c) ==
    /\ c \in Nat /\ 1 <= c /\ c <= n /\ 1 \in 1 .. c /\ c \in 1 .. c
    /\ m = n => c = 1
    /\ \A k \in 2 .. c : k \in 1 .. c /\ k + m - 1 \in m + 1 .. n /\ (k + m - 1) - m = k - 1
    /\ 1 + m - 1 = m /\ c + m - 1 = n
    /\ \A p \in Nat : n = m + p => c = 1 + p
    /\ \A p \in Nat : n - m <= p => c <= p + 1

LEMMA CutCounts ==
    ASSUME NEW n \in Nat, NEW m \in 1 .. n, NEW c, c = n - m + 1
    PROVE  CutTo(n, m, c)
<1>1. n \in Int /\ m \in Int /\ 1 <= m /\ m <= n /\ c = (n - m) + 1
  OBVIOUS
<1>2. c \in Int /\ 1 <= c /\ c <= n /\ n = m + (c - 1)
  BY <1>1
<1>4. \A k \in 2 .. c : k \in 1 .. c /\ k + m - 1 \in m + 1 .. n /\ (k + m - 1) - m = k - 1
  BY <1>1, <1>2
<1>5. 1 + m - 1 = m /\ c + m - 1 = n
  BY <1>1, <1>2
<1>6. c \in Nat /\ 1 \in 1 .. c /\ c \in 1 .. c
  BY <1>2
<1> QED  BY <1>1, <1>2, <1>4, <1>5, <1>6 DEF CutTo

LEMMA LastFrameKeeps == ASSUME RouteInv, FrameLast PROVE RouteInv'
<1>1. /\ Road(way, count) /\ poseFrom \in Poses /\ poseTo \in Poses /\ hurried \in BOOLEAN
      /\ (leading # "none" => ArrowOn)
  BY DEF RouteInv
<1>2. revealing /\ revealing' = FALSE /\ pose' = poseTo /\ UNCHANGED <<poseFrom, poseTo, leading, hurried>>
  BY DEF FrameLast
<1>3. leading # "none" /\ ArrowOn
  BY <1>1, <1>2 DEF RouteInv
<1>4. PICK m \in 1 .. count : Behind(m)
  BY <1>3 DEF ArrowOn
<1>5. IndexAt(poseTo.base) = m
  BY <1>1, <1>4, IndexIs DEF Behind
<1>6. count' = count - m + 1 /\ way' = [k \in 1 .. count - m + 1 |-> way[k + m - 1]]
  BY <1>5 DEF FrameLast
<1>7. count \in Nat /\ count \in 1 .. RouteRoom
  <2>1. count \in Nat
    BY <1>1 DEF Road
  <2> QED  BY <1>3, <2>1 DEF ArrowOn
<1>c. PICK c : c = count'
  OBVIOUS
<1>n. c = count - m + 1
  BY <1>6, <1>c
<1>k. CutTo(count, m, c)
  BY <1>7, <1>n, CutCounts
<1>8. Road(way', count')
  <2>1. Road([k \in 1 .. count - m + 1 |-> way[k + m - 1]], count - m + 1)
    BY <1>1, <1>7, CutIsRoute
  <2> QED  BY <1>6, <2>1
<1>9. \A k \in 1 .. c : way'[k] = way[k + m - 1]
  BY <1>6, <1>n
<1>10. way'[1] = way[m] /\ way'[count'] = way[count] /\ way[m].till = poseTo.base
  BY <1>4, <1>9, <1>c, <1>k DEF Behind, CutTo
<1>11. /\ \A k \in m + 1 .. count : k - m <= Pieces(leading) /\ ShownAs(way[k], leading, k - m)
       /\ ~hurried => count = m + Pieces(leading)
  BY <1>4 DEF Behind
<1>12. Behind(1)'
  <2>1. ASSUME NEW k \in 2 .. c PROVE k - 1 <= Pieces(leading) /\ ShownAs(way[k], leading, k - 1)'
    <3>1. k \in 1 .. c /\ k + m - 1 \in m + 1 .. count /\ (k + m - 1) - m = k - 1
      BY <1>k, <2>1 DEF CutTo
    <3>2. k - 1 <= Pieces(leading) /\ ShownAs(way[k + m - 1], leading, k - 1)
      BY <1>11, <3>1
    <3>3. way'[k] = way[k + m - 1]
      BY <1>9, <3>1
    <3> QED  BY <1>2, <3>2, <3>3 DEF ShownAs
  <2>2. ~hurried => count' = 1 + Pieces(leading)
    <3>1. Pieces(leading) \in Nat
      BY <1>3, PiecesAre DEF ArrowOn
    <3> QED  BY <1>c, <1>k, <1>11, <3>1 DEF CutTo
  <2>3. 1 + 1 .. count' = 2 .. count'
    OBVIOUS
  <2> QED  BY <1>2, <1>10, <1>c, <2>1, <2>2, <2>3 DEF Behind
<1>13. count' <= MostPieces + 1
  <2>1. CASE m = count
    BY <1>c, <1>k, <2>1 DEF MostPieces, CutTo
  <2>2. CASE m # count
    <3>1. count \in m + 1 .. count
      BY <1>7, <2>2
    <3>2. count - m <= Pieces(leading) /\ Pieces(leading) \in 1 .. MostPieces
      BY <1>3, <1>11, <3>1, PiecesAre DEF ArrowOn
    <3>3. Pieces(leading) \in Nat
      BY <3>2
    <3>4. c <= Pieces(leading) + 1
      BY <1>k, <3>2, <3>3 DEF CutTo
    <3> QED  BY <1>c, <1>k, <3>2, <3>4 DEF MostPieces, CutTo
  <2> QED  BY <2>1, <2>2
<1>14. ArrowOn'
  <2>1. poseTo.base \in Int /\ poseTo.head \in Int
    BY <1>1, PosesAre
  <2>2. poseTo.head = way[count].till
    BY <1>3 DEF ArrowOn
  <2>3. way[m].from < way[m].till /\ way[m].from \in Int /\ way[m].till \in Int
    BY <1>1 DEF Road, Segments
  <2>4. way[m].till <= way[count].till
    <3>1. count \in 1 .. count
      BY <1>7
    <3>2. m < count => way[m].till < way[count].till
      BY <1>1, <1>7, <3>1, EndsOnce
    <3>3. m = count \/ m < count
      BY <1>7
    <3>4. way[count].till \in Int
      BY <2>1, <2>2
    <3> QED  BY <2>3, <3>2, <3>3, <3>4
  <2>5. poseTo.base <= poseTo.head /\ way'[1].from <= poseTo.base
    BY <1>10, <2>1, <2>2, <2>3, <2>4
  <2>6. 1 \in 1 .. count' /\ count' \in 1 .. RouteRoom /\ leading \in Icons
    BY <1>3, <1>7, <1>c, <1>k DEF ArrowOn, RouteRoom, MostPieces, CutTo
  <2> QED  BY <1>2, <1>10, <1>12, <2>1, <2>2, <2>5, <2>6 DEF ArrowOn
<1> QED  BY <1>1, <1>2, <1>3, <1>8, <1>10, <1>13, <1>14 DEF RouteInv

LEMMA RouteInvEnough == ASSUME RouteInv PROVE ArrowTrue
<1>1. Road(way, count) /\ (leading # "none" => ArrowOn)
  BY DEF RouteInv
<1>2. \A k \in 1 .. count - 1 : Meets(way[k], way[k + 1])
  BY <1>1 DEF Road
<1>3. ASSUME leading # "none"
      PROVE  StartDist(way, count) <= pose.base /\ pose.base <= pose.head /\ pose.head <= TotalDist(way, count)
             /\ pose.base <= poseTo.base /\ pose.head <= poseTo.head
             /\ TotalDist(way, count) = poseTo.head /\ ArrowOn
  <2>1. ArrowOn
    BY <1>1, <1>3
  <2>2. count > 0
    BY <2>1 DEF ArrowOn, RouteRoom, MostPieces
  <2> QED  BY <2>1, <2>2 DEF ArrowOn, StartDist, TotalDist
<1>4. ASSUME leading # "none", ~revealing
      PROVE  /\ pose = poseTo /\ way[1].till = pose.base /\ TotalDist(way, count) = pose.head
             /\ \A k \in 2 .. count : k - 1 <= Pieces(leading) /\ ShownAs(way[k], leading, k - 1)
             /\ ~hurried => count = 1 + Pieces(leading)
  <2>1. pose = poseTo /\ way[1].till = pose.base /\ ArrowOn
    BY <1>1, <1>4 DEF RouteInv
  <2>2. PICK m \in 1 .. count : Behind(m)
    BY <2>1 DEF ArrowOn
  <2>3. m = 1
    <3>1. count \in Nat /\ 1 \in 1 .. count /\ way[m].till = way[1].till
      BY <1>1, <2>1, <2>2 DEF Behind, Road, ArrowOn
    <3>2. ~(1 < m)
      <4> SUFFICES ASSUME 1 < m PROVE FALSE
        OBVIOUS
      <4>1. way[1].till < way[m].till /\ way[1].till \in Int
        BY <1>1, <3>1, EndsOnce
      <4> QED  BY <3>1, <4>1
    <3> QED  BY <3>1, <3>2
  <2>4. 1 + 1 .. count = 2 .. count
    OBVIOUS
  <2> QED  BY <1>3, <1>4, <2>1, <2>2, <2>3, <2>4 DEF Behind
<1> QED  BY <1>2, <1>3, <1>4 DEF ArrowTrue

RouteSpec == RouteInit /\ [][RouteNext]_routeVars

\* The route hangs together, the arrow is on it and goes forward, and at rest the panel
\* shows the maneuver as it was drawn (nav_renderer.cpp), for any maneuvers in any order,
\* however many, and whenever they come.
THEOREM AlwaysArrowTrue == RouteSpec => []ArrowTrue
<1>1. RouteInit => RouteInv
  BY RouteStarts
<1>2. RouteInv /\ [RouteNext]_routeVars => RouteInv'
  <2> SUFFICES ASSUME RouteInv, [RouteNext]_routeVars PROVE RouteInv'
    OBVIOUS
  <2>1. CASE UNCHANGED routeVars
    BY <2>1 DEF routeVars, RouteInv, ArrowOn, Behind, ShownAs
  <2>2. CASE FrameMidway
    BY <2>2, FrameKeeps
  <2>3. CASE FrameLast
    BY <2>3, LastFrameKeeps
  <2>4. ASSUME NEW i \in Drawables, EnterWithRunway(i) \/ LayManeuver(i) PROVE RouteInv'
    BY <2>4, IconsOfRide, EnterKeeps, LayKeeps
  <2> QED  BY <2>1, <2>2, <2>3, <2>4 DEF RouteNext
<1>3. RouteInv => ArrowTrue
  BY RouteInvEnough
<1> QED  BY <1>1, <1>2, <1>3, PTL DEF RouteSpec
=============================================================================
