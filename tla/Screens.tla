------------------------------- MODULE Screens -------------------------------
(***************************************************************************)
(* Which page the terminal shows, gui_app.cpp: calls, Add friend, the        *)
(* odometer page, navigation and idle, by rank; the transitions between      *)
(* them; what a tap, a hold and the time do.  Around it, what it draws from: *)
(* countdown_task, which publishes a packet's view and finishes it later in  *)
(* its pass, and may be preempted in between by gui_task; and mesh_task,     *)
(* which hears of the menu and has the prompt.                              *)
(*                                                                          *)
(* A timer or an animation is a state it leaves by itself.  There is one     *)
(* other rider.                                                             *)
(***************************************************************************)
EXTENDS Naturals

CONSTANTS
    MaxEvents    \* bound: changes of the ride, calls and requests, double taps and presses

ASSUME ScreensAssumption == MaxEvents \in Nat

VARIABLES
    ride,      \* what the pipeline and call_state know: the route, a call, the speed
    mesh,      \* mesh_core's prompt, its handshake past withdrawing, prompt_visible, menu_open;
               \* s_prompt_allowed, and whether mesh_task has run since that was set
    shared,    \* shared_view: its route and call, its prompt, friend_menu_allowed; drawn since
    halfway,   \* countdown_task has published a packet and not finished its pass
    splash,    \* "up", or "over" once its time has passed
    page,      \* s_active, s_pending, s_leaving, whether idle has landed, and its floor
    menu,      \* s_menu_open, s_menu_auto, s_seen_prompt; missed: a view published halfway
               \* has closed Add friend or taken an edge
    press,     \* s_hold_armed: a finger that may open Add friend by its hold
    odometer,  \* s_page_override, s_odo_over_nav, s_odo_auto, s_was_riding, the time stopped
    events     \* events so far

worldVars == <<ride, events>>
guiVars == <<splash, page, menu, press, odometer>>
screenVars == <<worldVars, mesh, shared, halfway, guiVars>>

\* "far" is a route whose next turn is not near, or is stale.
Routes == {"idle", "far", "near", "arrived"}
Speeds == {"unknown", "stopped", "riding"}

\* mesh_core_prompt_gate and turn_near: within 50 m of a turn, on a live route.
TurnNear(v) == v.route = "near"
Gate(v) == ~v.call /\ ~TurnNear(v)

ScreensInit ==
    /\ ride \in [route : {"idle", "far"}, call : {FALSE}, speed : {"unknown"}]
    /\ mesh = [prompt |-> "none", sure |-> FALSE, visible |-> FALSE, menu |-> FALSE, allowed |-> FALSE, ran |-> TRUE]
    /\ shared = [view |-> [ride EXCEPT !.route = "idle"], prompt |-> "none", allowed |-> FALSE, drawn |-> TRUE]
    /\ halfway = FALSE /\ splash = "up"
    /\ page = [active |-> "splash", pending |-> "splash", leaving |-> FALSE, landed |-> FALSE, floor |-> "unseen"]
    /\ menu = [open |-> FALSE, auto |-> FALSE, seen |-> "none", missed |-> FALSE]
    /\ press = FALSE
    /\ odometer = [up |-> FALSE, overNav |-> FALSE, auto |-> FALSE, was |-> FALSE, stop |-> "no"]
    /\ events = 0

-----------------------------------------------------------------------------
(* The ride, and the other rider's part in the handshake.                   *)

Event == events < MaxEvents /\ events' = events + 1

RideChanges ==
    /\ Event
    /\ \/ \E r \in Routes : ride' = [ride EXCEPT !.route = r]
       \/ ride' = [ride EXCEPT !.call = ~@]
       \/ \E s \in Speeds : ride' = [ride EXCEPT !.speed = s]
    /\ UNCHANGED <<mesh, shared, halfway, guiVars>>

\* A request arrives, hidden while the gate is closed.  The same rider's next
\* frame comes after the end of a page has been seen.
Asked ==
    /\ Event /\ mesh.prompt = "none" /\ menu.seen = "none"
    /\ mesh' = [mesh EXCEPT !.prompt = "offer", !.sure = FALSE]
    /\ UNCHANGED <<ride, shared, halfway, guiVars>>

\* The rider holds; the other terminal sends its key; the friendship is kept
\* and said; or the prompt has been on screen long enough, or they rode apart.
PromptMoves ==
    /\ \/ mesh.prompt = "offer" /\ page.active = "friend" /\ mesh' = [mesh EXCEPT !.prompt = "waiting"]
       \/ mesh.prompt = "waiting" /\ mesh' = [mesh EXCEPT !.sure = TRUE]
       \/ mesh.prompt = "waiting" /\ mesh.sure /\ mesh' = [mesh EXCEPT !.prompt = "done"]
       \/ mesh.prompt # "none" /\ mesh' = [mesh EXCEPT !.prompt = "none", !.sure = FALSE]
    /\ UNCHANGED <<worldVars, shared, halfway, guiVars>>

-----------------------------------------------------------------------------
(* mesh_task and countdown_task.                                            *)

\* mesh_core_set_menu_open withdraws what has not gone too far; run_prompt.
MeshPass ==
    /\ LET withdrawn == mesh.menu /\ ~menu.open /\ mesh.prompt \in {"offer", "waiting"} /\ ~mesh.sure
       IN  mesh' = [mesh EXCEPT !.menu = menu.open, !.visible = mesh.allowed, !.ran = TRUE,
                                !.prompt = IF withdrawn THEN "none" ELSE @]
    /\ UNCHANGED <<worldVars, shared, halfway, guiVars>>

ShownPrompt == IF mesh.visible THEN mesh.prompt ELSE "none"

\* A packet's view is made from nothing; whether the menu may show comes later.
PublishPacket ==
    /\ shared.drawn \/ halfway
    /\ shared' = [view |-> [ride EXCEPT !.call = shared.view.call], prompt |-> ShownPrompt,
                   allowed |-> FALSE, drawn |-> TRUE]
    /\ halfway' = TRUE
    /\ UNCHANGED <<worldVars, mesh, guiVars>>

\* The end of a pass.  A pass comes every 100 ms: mesh_task has run since the
\* last one, which is every 50 ms, and a frame been drawn, which is every 16.
FinishPass ==
    /\ mesh.ran /\ (shared.drawn \/ halfway)
    /\ shared' = [view |-> ride, prompt |-> ShownPrompt, allowed |-> Gate(ride), drawn |-> splash = "up"]
    /\ mesh' = [mesh EXCEPT !.allowed = Gate(ride), !.ran = FALSE]
    /\ halfway' = FALSE
    /\ UNCHANGED <<worldVars, guiVars>>

-----------------------------------------------------------------------------
(* gui_app_update, one frame.                                               *)

QuietAnyway(seen, prompt, minute) == minute /\ seen = prompt
Quiet(seen, prompt, minute) == minute /\ prompt = "none" /\ seen = "none"

\* update_friend_menu; minute: a minute has passed without a touch or an edge.
MenuOpen(s, minute) ==
    LET edge == s.prompt # menu.seen
        over == s.prompt = "none" /\ (menu.seen = "done" \/ (menu.seen = "offer" /\ menu.auto))
    IN  /\ s.allowed
        /\ IF menu.open THEN ~over /\ ~Quiet(menu.seen, s.prompt, minute) ELSE edge /\ s.prompt # "none"

\* check_menu_hold; held: the finger has stayed five seconds.
Held(s, held) == held /\ page.active # "call" /\ s.allowed

OdometerDown(o) == [o EXCEPT !.up = FALSE, !.overNav = FALSE, !.auto = FALSE]

\* update_auto_odometer.
Rolled(v) ==
    LET riding == v.speed = "riding"
        raised == riding /\ ~odometer.was /\ v.route = "idle" /\ ~odometer.up
        o == [odometer EXCEPT !.up = @ \/ raised, !.auto = @ \/ raised,
                              !.was = IF v.speed = "unknown" THEN @ ELSE riding]
    IN  IF ~o.auto \/ ~o.up THEN [o EXCEPT !.auto = FALSE, !.stop = "no"]
        ELSE IF riding THEN [o EXCEPT !.stop = "no"]
        ELSE IF o.stop = "over" THEN OdometerDown(o)
        ELSE [o EXCEPT !.stop = "running"]

\* screen_for_state: whether the odometer page stays up ...
KeepsNear(o, v) == v.route = "idle" \/ (v.route # "arrived" /\ o.overNav)
Keeps(o, v) == v.route = "idle" \/ (v.route # "arrived" /\ o.overNav /\ ~TurnNear(v))
Stays(o, v) == o.up /\ Keeps(o, v)

\* ... what is left of it, and the page of a state.
Odometer(o, v) ==
    IF ~o.up THEN o
    ELSE IF Stays(o, v) THEN [o EXCEPT !.overNav = @ /\ v.route # "idle"]
    ELSE OdometerDown(o)
RoutePage(o, v) ==
    IF Stays(o, v) THEN "odometer" ELSE IF v.route \in {"idle", "arrived"} THEN v.route ELSE "dial"

\* may_leave: only idle holds, and not against a call, a rider or a choice.
MayLeave(next) ==
    page.active # "idle" \/ next \in {"call", "friend", "odometer"} \/ (page.landed /\ page.floor = "over")

\* on_leave_done: the page is loaded and plays its entry.
Entered(next) == [active |-> next, pending |-> next, leaving |-> FALSE, landed |-> FALSE, floor |-> "unseen"]

PageAfter(next) ==
    IF page.leaving THEN [page EXCEPT !.pending = next]
    ELSE IF next = page.active THEN page
    ELSE IF ~MayLeave(next) THEN [page EXCEPT !.floor = IF page.landed /\ @ = "unseen" THEN "running" ELSE @]
    ELSE IF next = "arrived" THEN Entered(next)
    ELSE [page EXCEPT !.pending = next, !.leaving = TRUE]

Frame(minute, held) ==
    /\ splash = "over" /\ (held => press)
    /\ LET s == shared
           asked == MenuOpen(s, minute)
           open == asked \/ Held(s, held)
           o == Rolled(s.view)
           routed == ~s.view.call /\ ~open
           next == IF page.active = "splash" THEN "idle"
                   ELSE IF s.view.call THEN "call"
                   ELSE IF open THEN "friend" ELSE RoutePage(o, s.view)
       IN  /\ menu' = [open |-> open,
                       auto |-> IF asked THEN menu.auto \/ ~menu.open ELSE FALSE,
                       seen |-> s.prompt,
                       missed |-> menu.missed \/ (halfway /\ (menu.open \/ s.prompt # menu.seen))]
           /\ press' = (press /\ ~held /\ page.active # "call")
           /\ shared' = [s EXCEPT !.drawn = TRUE]
           /\ odometer' = IF routed THEN Odometer(o, s.view) ELSE o
           /\ page' = PageAfter(next)
    /\ UNCHANGED <<worldVars, mesh, halfway, splash>>

-----------------------------------------------------------------------------
(* Animations, timers and touches, all on gui_task between two frames.      *)

SplashTime == splash = "up" /\ splash' = "over"
              /\ UNCHANGED <<worldVars, mesh, shared, halfway, page, menu, press, odometer>>

LeaveDone == page.leaving /\ page' = Entered(page.pending)
             /\ UNCHANGED <<worldVars, mesh, shared, halfway, splash, menu, press, odometer>>

\* Idle's entry ends; the floor under it has passed.
Land ==
    /\ page.active = "idle" /\ ~page.leaving
    /\ \/ ~page.landed /\ page' = [page EXCEPT !.landed = TRUE]
       \/ page.floor = "running" /\ page' = [page EXCEPT !.floor = "over"]
    /\ UNCHANGED <<worldVars, mesh, shared, halfway, splash, menu, press, odometer>>

StopPasses == odometer.stop = "running" /\ odometer' = [odometer EXCEPT !.stop = "over"]
              /\ UNCHANGED <<worldVars, mesh, shared, halfway, splash, page, menu, press>>

\* mesh_task has heard of the menu by the time it can be tapped away.
DoubleTap ==
    /\ Event
    /\ splash = "over" /\ ~page.leaving
    /\ \/ page.active = "friend" /\ mesh.menu /\ menu' = [menu EXCEPT !.open = FALSE, !.auto = FALSE] /\ UNCHANGED odometer
       \/ page.active = "odometer" /\ odometer' = OdometerDown(odometer) /\ UNCHANGED menu
       \/ page.active = "idle" /\ odometer' = [odometer EXCEPT !.up = TRUE, !.auto = FALSE] /\ UNCHANGED menu
       \/ page.active = "dial" /\ odometer' = [odometer EXCEPT !.up = TRUE, !.auto = FALSE, !.overNav = TRUE]
          /\ UNCHANGED menu
    /\ UNCHANGED <<ride, mesh, shared, halfway, splash, page, press>>

\* A finger goes down; it moves or lifts.
Press ==
    /\ Event
    /\ splash = "over" /\ page.active \notin {"call", "friend"}
    /\ press' = TRUE
    /\ UNCHANGED <<ride, mesh, shared, halfway, splash, page, menu, odometer>>
Lift ==
    /\ press /\ press' = FALSE
    /\ UNCHANGED <<worldVars, mesh, shared, halfway, splash, page, menu, odometer>>

Timers == SplashTime \/ LeaveDone \/ Land \/ StopPasses
Draw == \E minute, held \in BOOLEAN : Frame(minute, held)
ScreensNext ==
    \/ RideChanges \/ Asked \/ PromptMoves
    \/ MeshPass \/ PublishPacket \/ FinishPass
    \/ Draw \/ Timers \/ DoubleTap \/ Press \/ Lift

-----------------------------------------------------------------------------
\* Once the ride settles and the splash has had its time, the page is the one of its rank: a call over all,
\* then Add friend, a near turn's dial over the odometer, the odometer only
\* while asked for or riding.  A request that may show has its page, unless a
\* frame was drawn from a view published halfway, which may eat its edge.
RightPage ==
    <>[] LET v == shared.view IN splash = "over" =>
         /\ v.call => page.active = "call"
         /\ ~v.call /\ menu.open => page.active = "friend"
         /\ ~v.call /\ ~menu.open =>
                page.active \in (IF v.route \in {"idle", "arrived"} THEN {v.route} ELSE {"dial"})
                                \cup (IF v.route # "arrived" /\ ~TurnNear(v) THEN {"odometer"} ELSE {})
         /\ page.active = "odometer" => odometer.up /\ (odometer.auto => v.speed = "riding")
         /\ mesh.prompt = "offer" /\ Gate(ride) => menu.open \/ menu.missed

\* Nothing but the rider, a call or a turn closes Add friend over a handshake
\* that shows, while the view it closes by is a finished one.
MenuKept ==
    [][menu.open /\ ~menu'.open /\ menu.seen = shared.prompt /\ shared.prompt # "none"
         => events' # events \/ ~Gate(shared.view) \/ halfway]_screenVars

\* The right page in the end, and Add friend's held until then.
PagesKept == RightPage /\ MenuKept
=============================================================================
