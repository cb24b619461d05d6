------------------------------ MODULE DialFace ------------------------------
(***************************************************************************)
(* The turn-by-turn page, dial_screen.cpp, and its arrow, nav_renderer.cpp:  *)
(* the staged entry, the maneuvers that follow one another along the route,  *)
(* the ring a hold swaps for the trip's arc, and the exit.  gui_app_update    *)
(* brings it up, takes it down or covers it; the phone may choose the ring.   *)
(*                                                                          *)
(* The route is how many segments it holds, those of the newest maneuver      *)
(* apart: where they lie and how they are drawn is left out.  Entry is by     *)
(* elements; only the simulator asks for the fade.                           *)
(***************************************************************************)
EXTENDS Motion

CONSTANTS
    MaxTwists    \* bound: maneuvers, comings and goings of the page, choices of the ring, presses

ASSUME DialFaceAssumption == MaxTwists \in Nat

VARIABLES
    dialPage,    \* "away", "up", "leaving", or "covered": left without its leave()
    dial,        \* DialScreen's flags; eta: the ETA is in place; stray: the arc was chosen under way
    swings,      \* its animations; ring and swap move the same ring_in_
    arrow,       \* the renderer's route: segments before the newest maneuver and of it; whether the
                 \* tween runs; burst: maneuvers since it last rested
    grip,        \* a finger: "up", "down", or "long": past the long press, swap_armed_
    cut,         \* history: a swap has taken the place of a leave's first animation
    twists       \* events so far

dialVars == <<dialPage, dial, swings, arrow, grip, cut, twists>>

\* Straights, turns, roundabouts by their exits, and what has no geometry.
SegmentCount == [straight |-> 1, turn |-> 3, round_left |-> 5, round_right |-> 5]
Drawable == DOMAIN SegmentCount
Pictures == Drawable \cup {"unknown"}
LongestRun == 5
RouteCapacity == 2 * LongestRun + 4
Runway == 2 * SegmentCount["straight"]

Rested == [ring |-> Still(1), swap |-> Still(1), text |-> Still(1), out |-> Still(0)]

DialInit ==
    /\ dialPage = "away"
    /\ dial = [last |-> "fresh", pending |-> FALSE, outer |-> "compass", swapping |-> FALSE,
               eta |-> 1, stray |-> FALSE]
    /\ swings = Rested
    /\ arrow = [old |-> 0, new |-> 0, runs |-> FALSE, burst |-> 0]
    /\ grip = "up" /\ cut = FALSE /\ twists = 0

Twist == twists < MaxTwists /\ twists' = twists + 1

-----------------------------------------------------------------------------
(* NavRenderer.                                                             *)

\* append_segments stops at the route's capacity.
Fitting(held, n) == IF held + n > RouteCapacity THEN RouteCapacity - held ELSE n

AddManeuver(a, i) ==
    LET held == a.old + a.new
    IN  [old |-> held, new |-> Fitting(held, SegmentCount[i]), runs |-> TRUE,
         burst |-> IF a.runs THEN a.burst + 1 ELSE 1]
EnterManeuver(i) == [old |-> Runway, new |-> SegmentCount[i], runs |-> TRUE, burst |-> 1]

Unpruned(a) == [a EXCEPT !.runs = FALSE]
\* The end of a tween: prune_before keeps the segment the arrow's base is on.
Pruned(a) == [a EXCEPT !.runs = FALSE, !.old = IF @ > 1 THEN 1 ELSE @]

TweenLands ==
    /\ arrow.runs /\ (dialPage = "leaving" \/ (dialPage = "up" /\ dial.last \in Drawable))
    /\ arrow' = Pruned(arrow)
    /\ UNCHANGED <<dialPage, dial, swings, grip, cut, twists>>

-----------------------------------------------------------------------------
(* DialScreen.                                                              *)

\* update(): the text and the ring come on with the first maneuver that can
\* be drawn; what has no geometry gets a glyph, and the route stands still.
DrawDial(i) ==
    /\ dialPage = "up" /\ i # dial.last
    /\ IF dial.last = "fresh" THEN UNCHANGED twists ELSE Twist
    /\ IF i \notin Drawable THEN dial' = [dial EXCEPT !.last = i] /\ UNCHANGED <<swings, arrow>>
       ELSE IF dial.pending
       THEN /\ dial' = [dial EXCEPT !.last = i, !.pending = FALSE, !.eta = 0]
            /\ arrow' = EnterManeuver(i)
            /\ swings' = [swings EXCEPT !["text"] = Tween(Still(0), 1, "rest"), !["ring"] = Tween(Still(0), 1, "rest")]
       ELSE dial' = [dial EXCEPT !.last = i] /\ arrow' = AddManeuver(arrow, i) /\ UNCHANGED swings
    /\ UNCHANGED <<dialPage, grip, cut>>

StartedThere(d) == [d EXCEPT !.last = "fresh", !.swapping = FALSE, !.eta = 0, !.stray = FALSE]
\* enter(): everything off screen, and the next maneuver runs on.
Started(d) == [d EXCEPT !.last = "fresh", !.pending = TRUE, !.swapping = FALSE, !.eta = 0, !.stray = FALSE]
EnterDial ==
    /\ dialPage \in {"away", "covered"} /\ Twist
    /\ dialPage' = "up"
    /\ dial' = Started(dial)
    /\ swings' = [ring |-> Still(0), swap |-> Still(0), text |-> Still(0), out |-> Still(0)]
    /\ UNCHANGED <<arrow, grip, cut>>

\* leave(): the ring first, then the text, then the arrow.
LeaveDial ==
    /\ dialPage = "up" /\ Twist
    /\ dialPage' = "leaving"
    /\ dial' = [dial EXCEPT !.swapping = FALSE, !.pending = FALSE]
    /\ swings' = [AllStopped(swings) EXCEPT !["swap"] = Tween(@, 0, "text")]
    /\ UNCHANGED <<arrow, grip, cut>>

\* The arrived page enters over this one.
CoverDial ==
    /\ dialPage = "up" /\ Twist
    /\ dialPage' = "covered"
    /\ UNCHANGED <<dial, swings, arrow, grip, cut>>

\* set_outer, by the phone's setting.
ChooseOuter ==
    /\ Twist
    /\ dial' = [dial EXCEPT !.outer = IF @ = "arc" THEN "compass" ELSE "arc", !.stray = dial.outer = "compass"]
    /\ UNCHANGED <<dialPage, swings, arrow, grip, cut>>

\* An animation ends, and its completion runs.
EtaAfter(x) == IF x = "text" \/ (x = "swap" /\ dial.outer = "arc") THEN swings[x].to ELSE dial.eta
Swing(x) ==
    /\ Runs(swings[x])
    /\ LET m == swings[x]
           s == [y \in DOMAIN swings |-> IF y = x THEN Still(m.to)
                                         ELSE IF {x, y} = {"ring", "swap"} THEN [swings[y] EXCEPT !.at = m.to]
                                         ELSE swings[y]]
       IN  /\ swings' = CASE m.then = "text" -> [s EXCEPT !["text"] = Tween(@, 0, "drop")]
                          [] m.then = "drop" -> [s EXCEPT !["out"] = Tween(@, 1, "gone")]
                          [] m.then = "exchange" -> [s EXCEPT !["swap"] = Tween(@, 1, "rest")]
                          [] OTHER -> s
           /\ dial' = IF m.then # "exchange" THEN [dial EXCEPT !.eta = EtaAfter(x)]
                      ELSE [dial EXCEPT !.outer = IF @ = "arc" THEN "compass" ELSE "arc",
                                        !.swapping = FALSE, !.eta = 0, !.stray = FALSE]
           /\ dialPage' = IF m.then = "gone" THEN "away" ELSE dialPage
    /\ UNCHANGED <<arrow, grip, cut, twists>>

-----------------------------------------------------------------------------
(* The finger: on_long_press and on_touch.                                  *)

\* A press in the 700 ms of a leave's ring is not long before they are over.
PressDial ==
    /\ grip = "up" /\ Twist
    /\ dialPage = "up" \/ (dialPage = "leaving" /\ swings["swap"].then # "text")
    /\ grip' = "down"
    /\ UNCHANGED <<dialPage, dial, swings, arrow, cut>>
LongPress ==
    /\ grip = "down" /\ grip' = "long"
    /\ UNCHANGED <<dialPage, dial, swings, arrow, cut, twists>>

\* It lifts: the ring zooms out, to come back as the other, whatever the page is doing.
LiftDial ==
    /\ grip # "up" /\ grip' = "up"
    /\ IF grip = "long" /\ ~dial.swapping
       THEN /\ dial' = [dial EXCEPT !.swapping = TRUE]
            /\ swings' = [swings EXCEPT !["swap"] = Tween(@, 0, "exchange")]
            /\ cut' = (cut \/ (dialPage = "leaving" /\ swings["swap"].then = "text"))
       ELSE UNCHANGED <<dial, swings, cut>>
    /\ UNCHANGED <<dialPage, arrow, twists>>

\* The press is lost, or Add friend opens over it.
LosePress ==
    /\ grip # "up" /\ grip' = "up"
    /\ UNCHANGED <<dialPage, dial, swings, arrow, cut, twists>>

DialMoves == TweenLands \/ \E x \in DOMAIN swings : Swing(x)
FirstDraw == dial.last = "fresh" /\ \E i \in Pictures : DrawDial(i)
DialNext ==
    \/ DialMoves \/ \E i \in Pictures : DrawDial(i)
    \/ EnterDial \/ LeaveDial \/ CoverDial \/ ChooseOuter
    \/ PressDial \/ LongPress \/ LiftDial \/ LosePress

\* LVGL runs its animations, and gui_task draws.
DialFairness == WF_dialVars(DialMoves) /\ WF_dialVars(FirstDraw)
DialSpec == DialInit /\ [][DialNext]_dialVars /\ DialFairness

-----------------------------------------------------------------------------
\* Once nothing more happens to it, the page is gone or up; up, the ring and
\* the text are in place, the ETA with the arc, no swap is half done, and the
\* arrow is at rest and whole, unless maneuvers came before the last had
\* landed.  Not so if a swap cut a leave short, or the phone chose the arc
\* over an ETA that a swap had sent away.
DialSettled ==
    /\ dialPage = "leaving" => cut
    /\ dialPage = "up" /\ ~dial.pending =>
         /\ swings["ring"].at = 1 /\ swings["text"].at = 1 /\ swings["out"].at = 0 /\ ~dial.swapping
         /\ dial.outer = "arc" => dial.eta = 1 \/ dial.stray
         /\ dial.last \in Drawable =>
              ~arrow.runs /\ (arrow.new = SegmentCount[dial.last] \/ arrow.burst > 1)

\* The page a leave was asked of gives way: gui_app.cpp:217 says every page
\* but idle does, the moment routing asks.
LeavesEnd == dialPage = "leaving" ~> dialPage # "leaving"
=============================================================================
