----------------------------- MODULE PageFaces -----------------------------
(***************************************************************************)
(* The quiet pages, each with its entry and its exit: the splash, idle, the  *)
(* odometer page and the arrived page, which grows over the page before it   *)
(* and loads its own root when it has closed.  The dial, a call and Add       *)
(* friend stand for one page that comes and goes at once.  Which page is      *)
(* wanted is any; what idle will not leave for is gui_app.cpp's may_leave.    *)
(***************************************************************************)
EXTENDS Motion

CONSTANTS
    MaxTurnings   \* bound: pages asked for, and times the phone comes or goes

ASSUME PageFacesAssumption == MaxTurnings \in Nat

VARIABLES
    sheet,       \* s_active, whether its leave() runs, and the root LVGL has loaded
    veil,        \* the arrived page's overlay is on the top layer
    bits,        \* the animated values of the pages
    idle,        \* IdleScreen: connected, landed; left: collapses still running
    linked,      \* the phone is connected, in the view
    turnings     \* events so far

sheetVars == <<sheet, veil, bits, idle, linked, turnings>>

Sheets == {"idle", "odometer", "arrived", "other"}

SheetsInit ==
    /\ sheet = [active |-> "splash", leaving |-> FALSE, loaded |-> "splash"]
    /\ veil = FALSE
    /\ bits = [x \in {"logo", "bubble", "link", "progress", "text", "ring", "reveal"} |->
                 IF x = "logo" THEN Tween(Still(0), 1, "rest") ELSE Still(0)]
    /\ idle = [connected |-> FALSE, landed |-> FALSE, left |-> 0]
    /\ linked = FALSE /\ turnings = 0

Turning == turnings < MaxTurnings /\ turnings' = turnings + 1

\* The animations whose variable is a page.
BitsOf(p) ==
    CASE p = "splash" -> {"logo"} [] p = "idle" -> {"bubble", "link", "progress"}
      [] p = "odometer" -> {"text", "ring"} [] p = "arrived" -> {"reveal"} [] OTHER -> {}
Dropped(b, p) == [x \in DOMAIN b |-> IF x \in BitsOf(p) THEN Stopped(b[x]) ELSE b[x]]

-----------------------------------------------------------------------------
(* enter().                                                                 *)

IdleIn(b)     == [b EXCEPT !["bubble"] = Tween(Still(0), 1, "link"), !["link"] = Still(0), !["progress"] = Still(0)]
OdometerIn(b) == [b EXCEPT !["text"] = Tween(Still(0), 1, "rest"), !["ring"] = Tween(Still(0), 1, "rest")]
ArrivedIn(b)  == [b EXCEPT !["reveal"] = Tween(Still(0), 1, "load")]
FirstBit(b, p) ==
    CASE p = "idle" -> IdleIn(b) [] p = "odometer" -> OdometerIn(b) [] p = "arrived" -> ArrivedIn(b)
      [] OTHER -> b

\* on_leave_done and the theme's apply_state_change: a page that enters over
\* the one before it leaves that one loaded.
EnterSheet(p, b) ==
    /\ sheet' = [active |-> p, leaving |-> FALSE, loaded |-> IF p = "arrived" THEN sheet.loaded ELSE p]
    /\ veil' = (p = "arrived")
    /\ bits' = FirstBit(b, p)
    /\ idle' = IF p = "idle" THEN [idle EXCEPT !.landed = FALSE] ELSE idle

\* start_link_tween.
LinkTween(b, connected) == [b EXCEPT !["progress"] = Tween(@, IF connected THEN 1 ELSE 0, "rest")]

-----------------------------------------------------------------------------
(* leave().                                                                 *)

\* IdleScreen::entered().
IdleEntered == idle.landed /\ ~Runs(bits["progress"]) /\ bits["progress"].at = (IF idle.connected THEN 1 ELSE 0)

MayTurn(p) ==
    /\ p # sheet.active /\ (sheet.active = "splash" => p = "idle")
    /\ sheet.active = "idle" /\ p = "arrived" => IdleEntered

SplashOut(b)   == [b EXCEPT !["logo"] = Tween(@, 0, "gone")]
IdleOut(b)     == [b EXCEPT !["progress"] = Tween(@, 0, "collapsed"), !["link"] = Tween(@, 0, "collapsed")]
OdometerOut(b) == [b EXCEPT !["ring"] = Tween(@, 0, "text")]
LastBit(b, p) ==
    CASE p = "splash" -> SplashOut(b) [] p = "idle" -> IdleOut(b) [] OTHER -> OdometerOut(b)

StillVeiled(b) == b
\* end_reveal: the overlay goes, and with it what would load the page.
Unveiled(b) == Dropped(b, "arrived")

TurnTo(p) ==
    /\ ~sheet.leaving /\ MayTurn(p) /\ Turning
    /\ CASE p = "arrived" \/ sheet.active = "other" -> EnterSheet(p, bits)
         [] p # "arrived" /\ sheet.active = "arrived" -> EnterSheet(p, Unveiled(bits))
         [] OTHER -> /\ sheet' = [sheet EXCEPT !.leaving = TRUE]
                     /\ bits' = LastBit(Dropped(bits, sheet.active), sheet.active)
                     /\ idle' = IF sheet.active = "idle" THEN [idle EXCEPT !.left = 2] ELSE idle
                     /\ UNCHANGED veil
    /\ UNCHANGED linked

-----------------------------------------------------------------------------
(* Animations, and idle's update().                                         *)

MoveBit(x) ==
    /\ Runs(bits[x])
    /\ LET b == [bits EXCEPT ![x] = Moved(@)]
           Rest == UNCHANGED <<sheet, veil, idle>>
       IN  CASE bits[x].then = "link" -> bits' = [b EXCEPT !["link"] = Tween(@, 1, "landed")] /\ Rest
             [] bits[x].then = "landed" -> /\ idle' = [idle EXCEPT !.landed = TRUE]
                                           /\ bits' = IF idle.connected THEN LinkTween(b, TRUE) ELSE b
                                           /\ UNCHANGED <<sheet, veil>>
             [] bits[x].then = "collapsed" ->
                  /\ idle' = [idle EXCEPT !.left = @ - 1]
                  /\ bits' = IF idle.left > 1 THEN b ELSE [b EXCEPT !["bubble"] = Tween(@, 0, "gone")]
                  /\ UNCHANGED <<sheet, veil>>
             [] bits[x].then = "text" -> bits' = [b EXCEPT !["text"] = Tween(@, 0, "gone")] /\ Rest
             [] bits[x].then = "load" -> /\ sheet' = [sheet EXCEPT !.loaded = "arrived"]
                                         /\ veil' = FALSE
                                         /\ bits' = Unveiled(b) /\ UNCHANGED idle
             [] bits[x].then = "gone" ->
                  \E p \in IF sheet.active = "splash" THEN {"idle"} ELSE Sheets : EnterSheet(p, b)
             [] OTHER -> bits' = b /\ Rest
    /\ UNCHANGED <<linked, turnings>>

\* The layout follows the link once landed, and never while leaving.
IdleUpdate ==
    /\ sheet.active = "idle" /\ idle.connected # linked
    /\ idle' = [idle EXCEPT !.connected = linked]
    /\ bits' = IF idle.landed /\ ~sheet.leaving THEN LinkTween(bits, linked) ELSE bits
    /\ UNCHANGED <<sheet, veil, linked, turnings>>

PhoneTurns == Turning /\ linked' = ~linked /\ UNCHANGED <<sheet, veil, bits, idle>>

SheetMoves == IdleUpdate \/ \E x \in DOMAIN bits : MoveBit(x)
SheetsNext == SheetMoves \/ PhoneTurns \/ \E p \in Sheets : TurnTo(p)

-----------------------------------------------------------------------------
\* Once nothing more is asked of them, the page that is up is the one LVGL has
\* loaded, with no veil over it, and its parts are where they rest: idle's
\* clock shows while the phone is there.
SheetsSettled ==
    /\ ~sheet.leaving /\ ~veil /\ sheet.loaded = sheet.active
    /\ sheet.active = "splash" => bits["logo"].at = 1
    /\ sheet.active = "idle" => /\ bits["bubble"].at = 1 /\ bits["link"].at = 1
                                /\ bits["progress"].at = (IF linked THEN 1 ELSE 0)
    /\ sheet.active = "odometer" => bits["text"].at = 1 /\ bits["ring"].at = 1
=============================================================================
