------------------------------ MODULE CallFace ------------------------------
(***************************************************************************)
(* The call page, call_screen.cpp, and its ring, hold_ring.cpp: its entry,   *)
(* the hold that accepts, the turn to an answered call, another call on a    *)
(* page already up, and its exit.  What brings it up, takes it down or covers *)
(* it is gui_app_update with the view of that frame.                         *)
(*                                                                          *)
(* The ring is 0 to 2, so that it may be part-way; the bubble, the phone      *)
(* glyph, the caller and the duration are 0 or 1, on their way or at rest.    *)
(***************************************************************************)
EXTENDS Motion

CONSTANTS
    MaxRings     \* bound: calls that come, are answered, change or end, and presses

ASSUME CallFaceAssumption == MaxRings \in Nat

VARIABLES
    callView,    \* the call in the view last drawn: its id, and none, ringing or active
    callPage,    \* "away", "up", "leaving", or "covered": left without its leave()
    face,        \* CallScreen's flags; left: collapses still running
    parts,       \* its ring and its animated values
    thumb,       \* a finger: down; history: the call drawn when it came down, 0 once it has accepted
    accepts,     \* history: accepts sent
    rings        \* events so far

faceVars == <<callView, callPage, face, parts, thumb, accepts, rings>>

NoCall == [id |-> 0, is |-> "none"]
CallViews == {NoCall} \cup [id : {1, 2}, is : {"ringing", "active"}]

NewFace == [id |-> 0, ringing |-> FALSE, active |-> FALSE, landed |-> FALSE, pressed |-> FALSE,
            accepted |-> FALSE, answered |-> FALSE, left |-> 0]
NoParts == [x \in {"ring", "bubble", "phone", "caller", "duration"} |-> Still(0)]

FaceInit ==
    /\ callView = NoCall /\ callPage = "away"
    /\ face = NewFace /\ parts = NoParts
    /\ thumb = [down |-> FALSE, on |-> 0]
    /\ accepts = 0 /\ rings = 0

Ring == rings < MaxRings /\ rings' = rings + 1

-----------------------------------------------------------------------------
\* show_answered: the ring fills if it had not, the glyph goes, then the
\* duration comes.  A ring on its way to an accept is on its way no more.
Answered(f) == [f EXCEPT !.answered = TRUE]
AnsweredParts(f, p) ==
    IF f.answered THEN p
    ELSE [p EXCEPT !["ring"] = IF @.at < 2 THEN Tween(@, 2, "rest") ELSE @,
                   !["phone"] = Tween(@, 0, "duration")]

\* start_hold.
Holds(f) == f.pressed /\ f.landed /\ f.ringing /\ ~f.answered /\ callPage # "leaving"
HeldParts(f, p) == IF Holds(f) THEN [p EXCEPT !["ring"] = Tween(@, 2, "accept")] ELSE p

RenewedKeeping(f, v) ==
    [f EXCEPT !.id = v.id, !.ringing = v.is = "ringing", !.active = v.is = "active"]
\* update(): another call takes the page; an active one is shown answered.
Renewed(f, v) ==
    [f EXCEPT !.id = v.id,
              !.ringing = v.is = "ringing", !.active = v.is = "active",
              !.accepted = @ /\ f.id = v.id, !.pressed = @ /\ f.id = v.id,
              !.answered = @ /\ f.id = v.id]
RenewedParts(f, p, v) ==
    IF f.id = v.id THEN p
    ELSE [p EXCEPT !["phone"] = IF f.answered THEN Tween(@, 1, "rest") ELSE @,
                   !["duration"] = IF f.answered THEN Tween(@, 0, "rest") ELSE @,
                   !["ring"] = IF f.landed THEN Tween(@, 0, "rest") ELSE @]
Updated(f, p, v) ==
    LET g == Renewed(f, v)
        q == RenewedParts(f, p, v)
    IN  IF v.is = "active" /\ f.landed
        THEN face' = Answered(g) /\ parts' = AnsweredParts(g, q)
        ELSE face' = g /\ parts' = q

-----------------------------------------------------------------------------
(* gui_app_update.                                                          *)

\* call_state: a call answered does not ring again.
View(v) ==
    /\ ~(v.is = "ringing" /\ callView = [id |-> v.id, is |-> "active"])
    /\ IF v = callView THEN UNCHANGED rings ELSE Ring
    /\ callView' = v
    /\ UNCHANGED <<thumb, accepts>>

DrawCall(v) ==
    /\ callPage = "up" /\ v # NoCall
    /\ View(v) /\ Updated(face, parts, v) /\ UNCHANGED callPage

\* leave(): the ring traces back before the rest.
LeaveCall ==
    /\ callPage = "up" /\ View(NoCall)
    /\ callPage' = "leaving"
    /\ face' = [face EXCEPT !.pressed = FALSE]
    /\ parts' = [AllStopped(parts) EXCEPT !["ring"] = Tween(parts["ring"], 0, "collapse")]

\* The arrived page enters over this one, whose leave() is not called.
CoverCall ==
    /\ callPage = "up" /\ View(NoCall)
    /\ callPage' = "covered"
    /\ UNCHANGED <<face, parts>>

\* The page on its way out is not drawn anew.
OtherView(v) ==
    /\ callPage # "up" /\ v # callView
    /\ View(v) /\ UNCHANGED <<callPage, face, parts>>

\* enter(), and the first frame drawn of the page.
EnterCall ==
    /\ callPage \in {"away", "covered"} /\ callView # NoCall
    /\ callPage' = "up"
    /\ Updated([NewFace EXCEPT !.id = face.id],
               [NoParts EXCEPT !["bubble"] = Tween(@, 1, "phone")], callView)
    /\ UNCHANGED <<callView, thumb, accepts, rings>>

-----------------------------------------------------------------------------
(* The animations' completions.                                             *)

\* The entry has landed: a finger already down starts the hold.
Landed(p) ==
    LET f == [face EXCEPT !.landed = TRUE]
        q == HeldParts(f, p)
    IN  IF f.active THEN face' = Answered(f) /\ parts' = AnsweredParts(f, q) ELSE face' = f /\ parts' = q

\* The ring has filled under the finger.
Accepted(p) ==
    IF ~face.pressed \/ face.answered THEN parts' = p /\ UNCHANGED <<face, thumb, accepts>>
    ELSE /\ face' = [Answered(face) EXCEPT !.accepted = TRUE]
         /\ parts' = AnsweredParts(face, p)
         /\ accepts' = accepts + 1 /\ thumb' = [thumb EXCEPT !.on = 0]

Collapsing == {"phone", "caller", "duration"}
Collapses(p) == [x \in DOMAIN p |-> IF x \in Collapsing THEN Tween(p[x], 0, "collapsed") ELSE p[x]]

MovePart(x) ==
    /\ Runs(parts[x])
    /\ LET p == [parts EXCEPT ![x] = Moved(@)]
           then == IF Lands(parts[x]) THEN parts[x].then ELSE "rest"
       IN  /\ CASE then = "phone" -> parts' = [p EXCEPT !["phone"] = Tween(@, 1, "caller")] /\ UNCHANGED face
                [] then = "caller" -> parts' = [p EXCEPT !["caller"] = Tween(@, 1, "landed")] /\ UNCHANGED face
                [] then = "landed" -> Landed(p)
                [] then = "duration" -> parts' = [p EXCEPT !["duration"] = Tween(@, 1, "rest")] /\ UNCHANGED face
                [] then = "accept" -> Accepted(p)
                [] then = "collapse" -> parts' = Collapses(p) /\ face' = [face EXCEPT !.left = 3]
                [] then = "collapsed" ->
                     /\ face' = [face EXCEPT !.left = @ - 1]
                     /\ parts' = IF face.left > 1 THEN p ELSE [p EXCEPT !["bubble"] = Tween(@, 0, "gone")]
                [] OTHER -> parts' = p /\ UNCHANGED face
           /\ callPage' = IF then = "gone" THEN "away" ELSE callPage
           /\ then # "accept" => UNCHANGED <<thumb, accepts>>
    /\ UNCHANGED <<callView, rings>>

-----------------------------------------------------------------------------
\* on_press and on_release; an overlay takes presses over a page covered.
PressCall ==
    /\ ~thumb.down /\ callPage \in {"up", "leaving"} /\ Ring
    /\ thumb' = [down |-> TRUE, on |-> callView.id]
    /\ IF callPage = "leaving" THEN UNCHANGED <<face, parts>>
       ELSE LET f == [face EXCEPT !.pressed = TRUE] IN face' = f /\ parts' = HeldParts(f, parts)
    /\ UNCHANGED <<callView, callPage, accepts>>

ReleaseCall ==
    /\ thumb.down
    /\ thumb' = [thumb EXCEPT !.down = FALSE]
    /\ face' = [face EXCEPT !.pressed = FALSE]
    /\ parts' = IF face.pressed /\ ~face.accepted /\ ~face.answered /\ callPage # "leaving"
                THEN [parts EXCEPT !["ring"] = Tween(@, 0, "rest")] ELSE parts
    /\ UNCHANGED <<callView, callPage, accepts, rings>>

CallMoves == \E x \in DOMAIN parts : MovePart(x)
CallDraws == \/ \E v \in CallViews : DrawCall(v) \/ OtherView(v)
             \/ LeaveCall \/ CoverCall \/ EnterCall
FaceNext == CallMoves \/ CallDraws \/ PressCall \/ ReleaseCall

\* An accept goes out only for the call on the page, while it rings, under a
\* finger that came down on that call, and once a press; unless the page was
\* covered in the hold, when nothing stops the ring.
AcceptHeld ==
    [][accepts' # accepts =>
         callPage = "covered" \/ (callPage = "up" /\ callView.is = "ringing" /\ face.id = callView.id
                                  /\ thumb.down /\ thumb.on = callView.id)]_faceVars

\* Once nothing more happens to it, the page is up while there is a call and
\* gone when there is none; a call nobody has accepted shows its glyph, and no
\* ring without a finger; one answered shows its duration.
CallSettled ==
    IF callView = NoCall THEN callPage \in {"away", "covered"}
    ELSE /\ callPage = "up" /\ face.landed /\ face.id = callView.id
         /\ parts["bubble"].at = 1 /\ parts["caller"].at = 1
         /\ LET answered == callView.is = "active" \/ face.accepted IN
            /\ parts["phone"].at = (IF answered THEN 0 ELSE 1)
            /\ parts["duration"].at = (IF answered THEN 1 ELSE 0)
            /\ ~answered /\ ~face.pressed => parts["ring"].at = 0
=============================================================================
