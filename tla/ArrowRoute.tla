----------------------------- MODULE ArrowRoute -----------------------------
(***************************************************************************)
(* The road under the turn-by-turn page's arrow, nav_renderer.cpp: maneuvers *)
(* laid end to end, the arrow that runs along them, the camera that turns    *)
(* with it, and the pixels its pieces are drawn to.  DialFace has when the   *)
(* page asks for them; here it may at any time.                              *)
(*                                                                          *)
(* Headings are in hundredths of a degree, 0 to the right and a quarter turn *)
(* down, and lengths in tenths of a route unit.  What is added and turned is *)
(* kept as how far it lies along each heading, so that nothing is rounded    *)
(* before it is drawn.                                                      *)
(***************************************************************************)
EXTENDS Integers

LOCAL INSTANCE Sequences
LOCAL Sums == INSTANCE FiniteSetsExt
LOCAL Rows == INSTANCE SequencesExt

CONSTANTS
    Drawables,   \* the maneuvers the ride may show
    HeadDepth,   \* kHeadDepth
    Fine,        \* a pixel, in parts of it
    UnitParts,   \* a tenth of a unit on the panel, in such parts: kDisplayScale
    Middle,      \* half the panel, in pixels
    Raised,      \* kVerticalOffset, upwards
    MaxLegs      \* bound: maneuvers

VARIABLES
    way,         \* route_, to route_count_
    count,       \* route_count_
    pose,        \* cur_
    poseFrom,    \* from_
    poseTo,      \* to_
    revealing,   \* running_
    leading,     \* the maneuver shown last, or "none": has_route_ is false
    hurried,     \* history: it came before the arrow was at rest
    legs         \* maneuvers so far

routeVars == <<way, count, pose, poseFrom, poseTo, revealing, leading, hurried, legs>>

-----------------------------------------------------------------------------
(* Points and headings.                                                     *)

FullTurn == 36000
HalfTurn == 18000
QuarterTurn == 9000

Along(v, h) == IF h \in DOMAIN v THEN v[h] ELSE 0
Origin == [h \in {} |-> 0]
Ahead(dir, n) == IF n = 0 THEN Origin ELSE [h \in {dir % FullTurn} |-> n]
Plus(v, w) ==
    [h \in {h \in DOMAIN v \cup DOMAIN w : Along(v, h) + Along(w, h) # 0} |-> Along(v, h) + Along(w, h)]
Minus(v, w) == Plus(v, [h \in DOMAIN w |-> -w[h]])
Rotated(v, q) == [h \in {(g + q) % FullTurn : g \in DOMAIN v} |-> v[(h - q) % FullTurn]]
Pt(x, y) == Plus(Ahead(0, x), Ahead(QuarterTurn, y))
SameWay(d, e) == (d - e) % FullTurn = 0

\* eval_segment: where a segment is where it has turned so far, or is n units on.
Side(s) == IF s.turn >= 0 THEN 1 ELSE -1
HubOf(s) == Plus(s.at, Ahead(s.dir + QuarterTurn, Side(s) * s.bend))
PointOf(s, n, turned) ==
    IF s.turn = 0 THEN Plus(s.at, Ahead(s.dir, n))
    ELSE Minus(HubOf(s), Ahead(s.dir + turned + QuarterTurn, Side(s) * s.bend))
Tip(s) == PointOf(s, s.till - s.from, s.turn)
TipDir(s) == s.dir + s.turn
TurnedBy(s, n) == (s.turn * n) \div (s.till - s.from)

-----------------------------------------------------------------------------
(* nav_icons_data.h: each piece of a maneuver from where the one before      *)
(* ends, which the data has rounded to a hundredth of a unit.               *)

First(len) == [at |-> Origin, dir |-> -QuarterTurn, bend |-> 0, turn |-> 0, from |-> 0, till |-> len]
Then(s, bend, turn, len) ==
    [at |-> Tip(s), dir |-> TipDir(s), bend |-> bend, turn |-> turn, from |-> s.till, till |-> s.till + len]
Stem == <<First(2600)>>
Bent(stem, bend, turn, len, exit) ==
    LET a == First(stem)
        b == Then(a, bend, turn, len)
    IN  <<a, b, Then(b, 0, 0, exit)>>
\* A roundabout: off to the left, round it, and off to the left again.
Island(stem, veer, short, bend, turn, len, exit) ==
    LET a == First(stem)
        b == Then(a, 200, veer, short)
        c == Then(b, bend, turn, len)
        d == Then(c, 200, veer, short)
    IN  <<a, b, c, d, Then(d, 0, 0, exit)>>

IconData ==
    [straight |-> [body |-> Stem, frame |-> Pt(0, -1300)],
     turn_right |-> [body |-> Bent(1300, 600, 9000, 942, 1400), frame |-> Pt(700, -1200)],
     turn_left |-> [body |-> Bent(1300, 600, -9000, 942, 1400), frame |-> Pt(-700, -1200)],
     turn_slight_right |-> [body |-> Bent(1100, 600, 3500, 367, 1450), frame |-> Pt(346, -1255)],
     turn_slight_left |-> [body |-> Bent(1100, 600, -3500, 367, 1450), frame |-> Pt(-346, -1255)],
     turn_sharp_right |-> [body |-> Bent(1300, 450, 12500, 982, 1250), frame |-> Pt(580, -1120)],
     turn_sharp_left |-> [body |-> Bent(1300, 450, -12500, 982, 1250), frame |-> Pt(-580, -1120)],
     u_turn_right |-> [body |-> Bent(1700, 550, 18000, 1728, 1400), frame |-> Pt(550, -1175)],
     u_turn_left |-> [body |-> Bent(1700, 550, -18000, 1728, 1400), frame |-> Pt(-550, -1175)],
     roundabout_right |->
        [body |-> Island(700, -7846, 274, 800, 24692, 3448, 900), frame |-> Pt(400, -1350)],
     roundabout_straight |->
        [body |-> Island(500, -7716, 269, 700, 15432, 1885, 900), frame |-> Pt(0, -1400)],
     roundabout_left |->
        [body |-> Island(800, -7716, 269, 700, 6432, 786, 1200), frame |-> Pt(-550, -1160)],
     right_merge |-> [body |-> Stem, frame |-> Pt(700, -1300)],
     merge_left |-> [body |-> Stem, frame |-> Pt(-700, -1300)]]
Pieces(i) == CASE i \in {"straight", "right_merge", "merge_left"} -> 1
               [] i \in {"roundabout_right", "roundabout_straight", "roundabout_left"} -> 5
               [] OTHER -> 3
MostPieces == 5
RouteRoom == 2 * MostPieces + 4

-----------------------------------------------------------------------------
(* From headings to the panel: a sine in ten thousandths, from those of the  *)
(* tens of degrees and what lies between.                                   *)

SineOfTens == <<0, 1736, 3420, 5000, 6428, 7660, 8660, 9397, 9848, 10000>>
SmallSine(b) == (b * 174533) \div 10000 - (b * b * b) \div 11285000
SmallCosine(b) == 100000 - (b * b * 1523) \div 1000000
SineFromTens(k, b) == (SineOfTens[k + 1] * SmallCosine(b) + SineOfTens[10 - k] * SmallSine(b)) \div 100000
AcuteSine(d) == SineFromTens((d + 500) \div 1000, d - 1000 * ((d + 500) \div 1000))
SineOfHalf(d) == AcuteSine(IF d > QuarterTurn THEN HalfTurn - d ELSE d)
Sine(d) == (IF d % FullTurn < HalfTurn THEN 1 ELSE -1) * SineOfHalf(d % HalfTurn)
Cosine(d) == Sine(d + QuarterTurn)

Spot(x, y) == [x |-> x, y |-> y]
\* v turned by q, in hundredths.
OnPlane(v, q) ==
    LET Sum(Part(_)) == Sums!MapThenSumSet(LAMBDA h : v[h] * Part(h + q), DOMAIN v) \div 100
    IN  Spot(Sum(Cosine), Sum(Sine))

\* Where the data itself has the later pieces of its maneuvers begin, in tenths.
WrittenAt ==
    [turn_right |-> <<Spot(0, -1300), Spot(600, -1900)>>, turn_left |-> <<Spot(0, -1300), Spot(-600, -1900)>>,
     turn_slight_right |-> <<Spot(0, -1100), Spot(109, -1444)>>,
     turn_slight_left |-> <<Spot(0, -1100), Spot(-109, -1444)>>,
     turn_sharp_right |-> <<Spot(0, -1300), Spot(708, -1669)>>,
     turn_sharp_left |-> <<Spot(0, -1300), Spot(-708, -1669)>>,
     u_turn_right |-> <<Spot(0, -1700), Spot(1100, -1700)>>, u_turn_left |-> <<Spot(0, -1700), Spot(-1100, -1700)>>,
     roundabout_right |-> <<Spot(0, -700), Spot(-160, -896), Spot(784, -1840), Spot(980, -1680)>>,
     roundabout_straight |-> <<Spot(0, -500), Spot(-156, -695), Spot(-156, -2060), Spot(0, -2255)>>,
     roundabout_left |-> <<Spot(0, -800), Spot(-156, -995), Spot(-683, -1522), Spot(-878, -1678)>>]
IsTenth(d) == -100 <= d /\ d <= 100
AsWrittenAt(i, j) ==
    LET p == OnPlane(IconData[i].body[j + 1].at, 0)
    IN  IsTenth(p.x - 100 * WrittenAt[i][j].x) /\ IsTenth(p.y - 100 * WrittenAt[i][j].y)

ASSUME ArrowRouteAssumption ==
    /\ Drawables \subseteq DOMAIN IconData /\ {HeadDepth, MaxLegs, Middle, Raised} \subseteq Nat
    /\ {Fine, UnitParts} \subseteq Nat \ {0}
ASSUME DataAssumption == \A i \in DOMAIN WrittenAt : \A j \in DOMAIN WrittenAt[i] : AsWrittenAt(i, j)

-----------------------------------------------------------------------------
(* The route: a maneuver is laid on at the end of it, turned the way it      *)
(* leaves, as far as there is room.                                         *)

StartDist(w, n) == IF n > 0 THEN w[1].from ELSE 0
TotalDist(w, n) == IF n > 0 THEN w[n].till ELSE 0

\* compute_transform.
TransformUnturned(w, n, first) ==
    IF n = 0 THEN [turn |-> 0, anchor |-> first.at, base |-> first.at]
    ELSE [turn |-> TipDir(w[n]), anchor |-> Tip(w[n]), base |-> first.at]
Transform(w, n, first) ==
    IF n = 0 THEN [turn |-> 0, anchor |-> first.at, base |-> first.at]
    ELSE [turn |-> TipDir(w[n]) - first.dir, anchor |-> Tip(w[n]), base |-> first.at]
TransformPoint(p, t) == Plus(t.anchor, Rotated(Minus(p, t.base), t.turn))

\* append_segments: the data's distances start at 0.
Placed(s, t, base) ==
    [at |-> TransformPoint(s.at, t), dir |-> s.dir + t.turn, bend |-> s.bend, turn |-> s.turn,
     from |-> base + s.from, till |-> base + s.till]
Room(n, i) == IF n + Pieces(i) > RouteRoom THEN RouteRoom - n ELSE Pieces(i)
Extended(w, n, i) ==
    LET t == Transform(w, n, IconData[i].body[1])
        base == TotalDist(w, n)
    IN  [k \in 1 .. n + Room(n, i) |-> IF k <= n THEN w[k] ELSE Placed(IconData[i].body[k - n], t, base)]

\* add_maneuver's and enter_maneuver's target: the camera upright over the
\* maneuver's frame, the arrow over all of it there was room for.
TargetPose(w, n, i) ==
    LET t == Transform(w, n, IconData[i].body[1])
        m == n + Room(n, i)
    IN  [base |-> TotalDist(w, n), head |-> TotalDist(Extended(w, n, i), m),
         centre |-> TransformPoint(IconData[i].frame, t), rot |-> -QuarterTurn - (IconData[i].body[1].dir + t.turn)]

\* norm_angle: the short way round.
NormAngle(q) == IF q % FullTurn > HalfTurn THEN (q % FullTurn) - FullTurn ELSE q % FullTurn
Retarget(from, target) == [target EXCEPT !.rot = from.rot + NormAngle(target.rot - from.rot)]

RouteInit ==
    /\ count = 0 /\ way = <<>>
    /\ pose = [base |-> 0, head |-> 0, centre |-> Origin, rot |-> 0]
    /\ poseFrom = pose /\ poseTo = pose
    /\ revealing = FALSE /\ leading = "none" /\ hurried = FALSE /\ legs = 0

Leg(i) ==
    /\ legs < MaxLegs /\ legs' = legs + 1
    /\ leading' = i /\ revealing' = TRUE

\* enter_maneuver: a runway of two straights, and the arrow at its far end.
Runway1 == Extended(<<>>, 0, "straight")
Runway2 == Extended(Runway1, 1, "straight")
EnterWithRunway(i) ==
    /\ Leg(i) /\ hurried' = FALSE
    /\ way' = Extended(Runway2, 2, i) /\ count' = 2 + Room(2, i)
    /\ LET target == TargetPose(Runway2, 2, i)
       IN  /\ pose' = [target EXCEPT !.base = 0, !.head = 0]
           /\ poseTo' = Retarget(pose', target)
    /\ poseFrom' = pose'

LayManeuver(i) ==
    /\ leading # "none"
    /\ Leg(i) /\ hurried' = revealing
    /\ way' = Extended(way, count, i) /\ count' = count + Room(count, i)
    /\ poseTo' = Retarget(pose, TargetPose(way, count, i))
    /\ poseFrom' = pose /\ UNCHANGED pose

\* tick: a frame somewhere on the way, or the last.
Midway(a, b) == (a + b) \div 2
HalfWay(v, w) ==
    [h \in {h \in DOMAIN v \cup DOMAIN w : Midway(Along(v, h), Along(w, h)) # 0} |-> Midway(Along(v, h), Along(w, h))]
FrameMidway ==
    /\ revealing
    /\ pose' = [base |-> Midway(poseFrom.base, poseTo.base), head |-> Midway(poseFrom.head, poseTo.head),
                centre |-> HalfWay(poseFrom.centre, poseTo.centre),
                rot |-> Midway(poseFrom.rot, poseTo.rot)]
    /\ UNCHANGED <<way, count, poseFrom, poseTo, revealing, leading, hurried, legs>>

\* index_at_dist, and prune_before, which keeps the segment the base is on.
IndexPast(dist) ==
    IF \E k \in 1 .. count : dist < way[k].till
    THEN CHOOSE k \in 1 .. count : dist < way[k].till /\ \A j \in 1 .. k - 1 : way[j].till <= dist
    ELSE count
IndexAt(dist) ==
    IF \E k \in 1 .. count : dist <= way[k].till
    THEN CHOOSE k \in 1 .. count : dist <= way[k].till /\ \A j \in 1 .. k - 1 : way[j].till < dist
    ELSE count
FrameLast ==
    /\ revealing
    /\ revealing' = FALSE
    /\ pose' = poseTo
    /\ LET keep == IndexAt(poseTo.base)
       IN  count' = count - keep + 1 /\ way' = [k \in 1 .. count - keep + 1 |-> way[k + keep - 1]]
    /\ UNCHANGED <<poseFrom, poseTo, leading, hurried, legs>>

RouteNext == FrameMidway \/ FrameLast \/ \E i \in Drawables : EnterWithRunway(i) \/ LayManeuver(i)

-----------------------------------------------------------------------------
(* draw_route_only: the pieces of the route from the arrow's base to its     *)
(* head, which hides the last of it, each from the pixel where the one       *)
(* before has ended.                                                        *)

Least(a, b) == IF a < b THEN a ELSE b
Most(a, b) == IF a > b THEN a ELSE b

\* slice_window and clip_segment.
DrawnFrom == pose.base
DrawnTill == Most(pose.base, pose.head - HeadDepth)
InSlice(s) == s.till > DrawnFrom /\ s.from < DrawnTill
Clipped(s) ==
    LET lo == Most(DrawnFrom, s.from)
        hi == Least(DrawnTill, s.till)
        turned == TurnedBy(s, lo - s.from)
    IN  [s EXCEPT !.at = PointOf(s, lo - s.from, turned), !.dir = s.dir + turned,
                  !.turn = TurnedBy(s, hi - lo), !.from = lo, !.till = hi]
Slice ==
    LET within == SelectSeq(way, InSlice)
    IN  [k \in DOMAIN within |-> Clipped(within[k])]

\* lround of n / d.
Rounded(n, d) == IF n >= 0 THEN (2 * n + d) \div (2 * d) ELSE -((-2 * n + d) \div (2 * d))
Pixel(v) == Spot(Fine * Rounded(v.x, Fine), Fine * Rounded(v.y, Fine))
\* world_to_screen.
OnScreen(p) ==
    LET v == OnPlane(Minus(p, pose.centre), pose.rot)
    IN  Spot(Fine * Middle + (v.x * UnitParts) \div 100, Fine * Middle - Raised * UnitParts + (v.y * UnitParts) \div 100)

StrokeLine(s, anchor) ==
    LET from == OnScreen(s.at)
        Shifted(v) == Pixel(Spot(v.x + anchor.x - Pixel(from).x, v.y + anchor.y - Pixel(from).y))
    IN  [first |-> Shifted(from), last |-> Shifted(OnScreen(Tip(s)))]
\* On the rim, to whole degrees; a curve to the left is swept backwards.
RimAt(hub, r, whole) == Spot(hub.x + (r * Fine * Cosine(whole)) \div 10000, hub.y + (r * Fine * Sine(whole)) \div 10000)
Rim(hub, r, a) == RimAt(hub, r, 100 * Rounded(a, 100))
Swept(hub, r, start, turn) ==
    [first |-> Rim(hub, r, IF turn < 0 THEN start - turn ELSE start),
     last |-> Rim(hub, r, IF turn < 0 THEN start ELSE start + turn)]
HubFrom(a, o, r, ideal) == Fine * Rounded(Rounded(a, Fine) * ideal + (o - a) * r, ideal)
\* stroke_arc: its middle a whole radius from the anchor's pixel, the way the ideal
\* middle lies of the anchor, swept between whole degrees.
StrokeArc(s, anchor) ==
    LET ideal == s.bend * UnitParts
        start == (s.dir - Side(s) * QuarterTurn + pose.rot + (IF s.turn < 0 THEN s.turn ELSE 0)) % FullTurn
        About(r, off) ==
            Swept(Spot(HubFrom(anchor.x, off.x, r, ideal), HubFrom(anchor.y, off.y, r, ideal)), r, start, s.turn)
    IN  About(Most(1, Rounded(ideal, Fine)), OnScreen(HubOf(s)))

\* Each from where the one before was drawn to, the first from its own pixel.
Strokes(pieces) ==
    Rows!FoldLeft(LAMBDA drawn, s :
                LET anchor == IF drawn = <<>> THEN Pixel(OnScreen(s.at)) ELSE drawn[Len(drawn)].last
                IN  Append(drawn, IF s.turn = 0 THEN StrokeLine(s, anchor) ELSE StrokeArc(s, anchor)),
             <<>>, pieces)

-----------------------------------------------------------------------------
Meets(s, t) == t.from = s.till /\ t.at = Tip(s) /\ SameWay(t.dir, TipDir(s))
\* What segment k shows under the camera at rest, and what was drawn for it.
ShownAs(s, i, j) ==
    LET a == IconData[i].body[j]
    IN  /\ Rotated(Minus(s.at, poseTo.centre), poseTo.rot) = Minus(a.at, IconData[i].frame)
        /\ SameWay(s.dir + poseTo.rot, a.dir)
        /\ s.bend = a.bend /\ s.turn = a.turn /\ s.till - s.from = a.till - a.from

\* The route hangs together: each segment begins where, and the way, the one before ends.
\* The arrow is on it, and goes forward.  At rest there is one segment of the past, and the
\* panel shows the maneuver shown last as it was authored, upright in its frame, whatever
\* turns lie behind: all of it, unless it came before the arrow was at rest.
ArrowTrue ==
    /\ \A k \in 1 .. count - 1 : Meets(way[k], way[k + 1])
    /\ leading # "none" =>
         /\ StartDist(way, count) <= pose.base /\ pose.base <= pose.head /\ pose.head <= TotalDist(way, count)
         /\ pose.base <= poseTo.base /\ pose.head <= poseTo.head
    /\ leading # "none" /\ ~revealing =>
         /\ pose = poseTo /\ way[1].till = pose.base /\ TotalDist(way, count) = pose.head
         /\ \A k \in 2 .. count : k - 1 <= Pieces(leading) /\ ShownAs(way[k], leading, k - 1)
         /\ ~hurried => count = 1 + Pieces(leading)

\* How far a curve may be off, in parts of a pixel, and how far a piece from the one before it.
Leeway == IF revealing THEN (5 * Fine) \div 2 ELSE (3 * Fine) \div 2
Gap(s, t) ==
    CASE t.turn = 0 -> Fine
      [] t.turn # 0 /\ s.turn = 0 /\ ~revealing -> 0
      [] OTHER -> Leeway
Offset(v, w) == Most(Most(v.x - w.x, w.x - v.x), Most(v.y - w.y, w.y - v.y))
DrawnOn(drawn, pieces) ==
    \A k \in DOMAIN drawn :
        /\ k > 1 => Offset(drawn[k].first, drawn[k - 1].last) <= Gap(pieces[k - 1], pieces[k])
        /\ Offset(drawn[k].last, OnScreen(Tip(pieces[k]))) <= Leeway

=============================================================================
