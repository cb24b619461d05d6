------------------------------ MODULE Compass -------------------------------
(***************************************************************************)
(* The compass, heading_fusion.c: from the course of GPS and the phone's    *)
(* yaw to the way the bike points.  The phone lies in a pocket at an angle   *)
(* to the bike, which the filter learns while it can trust the course.       *)
(*                                                                           *)
(* Headings are the corners of a circle.  A low-pass goes somewhere between  *)
(* where it was and its target; how far is its time constant's affair and is *)
(* left out, and so is the confidence, which no page shows.  last_good_deg is *)
(* the filtered heading's own angle, and ever_valid says that there is one.  *)
(***************************************************************************)
EXTENDS Integers

CONSTANTS
    Circle,      \* headings around the circle
    Slew,        \* MAX_SLEW_DPS, in headings per step of time
    MaxBends,    \* bound: how often the bike turns
    MaxPockets,  \* bound: how often the phone changes its place
    MaxReboots,  \* bound: restarts
    NoHeading

ASSUME CompassAssumption ==
    /\ Circle \in Nat \ {0, 1} /\ Slew \in Nat \ {0}
    /\ {MaxBends, MaxPockets, MaxReboots} \subseteq Nat
    /\ NoHeading \notin 0 .. Circle - 1

VARIABLES
    bike,      \* where the bike points
    pocket,    \* the phone's angle to it: now, those it has had, the changes
    bends,     \* how often the bike has turned
    reboots,   \* restarts so far
    est,       \* state_t
    cached,    \* heading_fusion_state_t in NVS
    misled     \* whether the last packet's course was taken and not the bike's

compassVars == <<bike, pocket, bends, reboots, est, cached, misled>>

Headings == 0 .. Circle - 1
\* angle_delta_deg: how far b is clockwise of a; half a circle counts backwards.
AngleDelta(a, b) == ((b - a + Circle \div 2) % Circle) - Circle \div 2
Apart(a, b) == LET d == AngleDelta(a, b) IN IF d < 0 THEN -d ELSE d
\* What a weighted sum of two directions may be: on the shorter way from one to
\* the other, and anything when they are opposite, where rounding decides.
Between == [a \in Headings |-> [b \in Headings |-> {h \in Headings : Apart(a, h) + Apart(h, b) = Apart(a, b)}]]
Blended(prev, sample, timed) ==
    IF prev = NoHeading \/ ~timed THEN {sample} ELSE Between[prev][sample]

Cold == [filtered |-> NoHeading, offset |-> NoHeading, displayed |-> NoHeading,
         timed |-> FALSE, frozen |-> FALSE]
Uncached == [filtered |-> NoHeading, offset |-> NoHeading]

CompassInit ==
    /\ bike = 0
    /\ pocket = [angle |-> 0, had |-> {0}, changes |-> 0]
    /\ bends = 0 /\ reboots = 0
    /\ est = Cold /\ cached = Uncached
    /\ misled = FALSE

-----------------------------------------------------------------------------
(* A packet's readings, when the bike has come to point at b.               *)

\* What the sensors have to tell: the speed against SPEED_FREEZE_KMH and
\* SPEED_TRUST_KMH, "limit" being the latter, how fast the bike turns, the
\* course of GPS and how good it says it is, which unsaid is good.
Sensed(speeds, rates, courses, accuracy) ==
    [speed : speeds, rate : rates, course : courses \cup {NoHeading}, accuracy : {accuracy}]
Moving == {"slow", "limit", "fast"}

\* A bike that stands has north for its course, whichever way it is pushed round
\* and well though GPS may speak of it; the course lags in a corner, and may be
\* wrong when it is said to be poor; without a speed there is a course or none.
Situations(b, turn) ==
    LET near == {h \in Headings : Apart(h, b) < 2}
        turning == {"swaying", "cornering"}
    IN Sensed(Moving, {"swaying"}, {b}, "good") \cup Sensed(Moving, {"cornering"}, near, "good")
       \cup Sensed({"still"}, turning, {0}, "good")
       \cup (IF turn # 0 THEN {}
             ELSE Sensed(Moving, {"quiet"}, {b}, "good") \cup Sensed(Moving, {"quiet"}, near, "poor")
                  \cup Sensed({"still"}, {"quiet"}, {0}, "good") \cup Sensed({"none"}, {"quiet"}, {b}, "good"))

\* build_heading_input, of a phone that turns with the bike: its yaw when it lies
\* along it, and any of it may be unknown.
HeadingInputs ==
    [b \in Headings |-> [turn \in {0, 1} |->
        UNION {[course : {g.course}, accuracy : {g.accuracy}, speed : {g.speed}, rate : {g.rate, "none"},
                yaw : {NoHeading, b}] : g \in Situations(b, turn)}]]
InPocket(i) == [i EXCEPT !.yaw = IF @ = NoHeading THEN @ ELSE (@ - pocket.angle) % Circle]
Misleads(i, b) == i.speed # "still" /\ i.course \notin {NoHeading, b}

-----------------------------------------------------------------------------
(* heading_fusion_accept.                                                   *)

\* Through corners too.
CanLearnInCorners(i) ==
    /\ i.course # NoHeading /\ i.yaw # NoHeading
    /\ i.speed = "fast" /\ i.accuracy # "poor"
    /\ i.rate # "none"
CanLearnOffset(i) ==
    /\ i.course # NoHeading /\ i.yaw # NoHeading
    /\ i.speed = "fast" /\ i.accuracy # "poor"
    /\ i.rate \in {"quiet", "swaying"}

Offsets(i) ==
    IF CanLearnOffset(i) /\ est.timed
    THEN Blended(est.offset, (i.course - i.yaw) % Circle, TRUE)
    ELSE {est.offset}

\* blend_target: either, or between the two.
BlendTarget(a, b) ==
    IF NoHeading \in {a, b} THEN {a, b} \ {NoHeading} ELSE Between[a][b]

\* By the speed's regime: none is to hold the heading.
Targets(i, own) ==
    CASE i.speed \in {"limit", "fast"} -> IF i.course # NoHeading THEN {i.course} ELSE {own} \ {NoHeading}
      [] i.speed = "still" -> IF i.rate \in {"swaying", "cornering"} THEN {own} \ {NoHeading} ELSE {}
      [] OTHER -> BlendTarget(i.course, own)

\* The bike may have turned since the last packet; to the left is as to the right.
HeadingsAfter(i) ==
    LET own(o) == IF NoHeading \in {i.yaw, o} THEN NoHeading ELSE (i.yaw + o) % Circle
        filtered(ts) == IF ts = {} THEN {est.filtered}
                        ELSE UNION {Blended(est.filtered, t, est.timed) : t \in ts}
    IN UNION {[filtered : filtered(Targets(i, own(o))), offset : {o}, displayed : {est.displayed},
               timed : {TRUE}, frozen : {i.speed = "still" /\ Targets(i, own(o)) = {}}] : o \in Offsets(i)}

AcceptHeading ==
    \E turn \in {0, 1} :
        LET b == (bike + turn) % Circle IN
        /\ bends + turn <= MaxBends
        /\ bends' = bends + turn /\ bike' = b
        /\ \E wrong \in BOOLEAN :
            /\ misled' = wrong
            /\ est' \in UNION {HeadingsAfter(InPocket(i)) : i \in {j \in HeadingInputs[b][turn] : Misleads(j, b) = wrong}}
    /\ UNCHANGED <<pocket, reboots, cached>>

-----------------------------------------------------------------------------
(* The display, the cache and the restart.                                  *)

\* heading_fusion_estimate, some time after it was last asked for.
Estimate ==
    /\ est.filtered # NoHeading
    /\ \E elapsed \in 0..1 :
         LET delta == AngleDelta(est.displayed, est.filtered)
             step == Slew * elapsed
             moved == IF delta > step THEN step ELSE IF delta < -step THEN -step ELSE delta
         IN est' = [est EXCEPT !.displayed =
                      IF @ = NoHeading THEN est.filtered ELSE (@ + moved) % Circle]
    /\ misled' = FALSE
    /\ UNCHANGED <<bike, pocket, bends, reboots, cached>>

\* heading_fusion_get_state, and a write when there is something to keep.
SaveHeading ==
    /\ est.filtered # NoHeading
    /\ cached' = [filtered |-> est.filtered, offset |-> est.offset]
    /\ misled' = FALSE
    /\ UNCHANGED <<bike, pocket, bends, reboots, est>>

\* heading_fusion_restore_state: shown at once, and held till there is better.
RestoreState(saved) == [Cold EXCEPT !.filtered = saved.filtered, !.offset = saved.offset, !.frozen = TRUE]

RestartCompass ==
    /\ reboots < MaxReboots /\ reboots' = reboots + 1
    /\ est' = IF cached.filtered = NoHeading THEN Cold ELSE RestoreState(cached)
    /\ misled' = FALSE
    /\ UNCHANGED <<bike, pocket, bends, cached>>

\* The rider puts the phone elsewhere.
Repocket ==
    /\ pocket.changes < MaxPockets
    /\ LET a == (pocket.angle + 1) % Circle
       IN pocket' = [angle |-> a, had |-> pocket.had \cup {a}, changes |-> pocket.changes + 1]
    /\ misled' = FALSE
    /\ UNCHANGED <<bike, bends, reboots, est, cached>>

CompassNext == AcceptHeading \/ Estimate \/ SaveHeading \/ RestartCompass \/ Repocket

-----------------------------------------------------------------------------
\* What is learnt of the phone's angle is an angle it has had, or between two,
\* through corners, poor courses, stops and restarts; and while it is right no
\* packet takes the compass further from the bike's heading, whatever the course
\* says of a bike that stands and whichever sensor fails, but a wrong course of
\* a bike that moves.  A frame never turns the compass away from the filter.
CompassTrue ==
    /\ [](est.offset # NoHeading => \E a, b \in pocket.had : est.offset \in Between[a][b])
    /\ [][est.filtered # NoHeading /\ ~misled' /\ reboots' = reboots /\ est'.offset \in {NoHeading, pocket.angle}
            => Apart(est'.filtered, bike') <= Apart(est.filtered, bike')]_compassVars
    /\ [][est.displayed # NoHeading /\ est'.displayed # NoHeading
            => Apart(est'.displayed, est.filtered) <= Apart(est.displayed, est.filtered)]_compassVars
=============================================================================
