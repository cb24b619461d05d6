----------------------------- MODULE FriendCard -----------------------------
(***************************************************************************)
(* Add friend's card, friend_screen.cpp: the riders who may be asked, the   *)
(* one in the centre, the ring a hold fills, and what a finger does to them  *)
(* while mesh_core reorders the list, drops riders from it and moves the     *)
(* prompt underneath.                                                       *)
(*                                                                          *)
(* Riders are numbered as in the peer table; 0 is nobody.  What the card     *)
(* slides through is abstract: it is on its way or it rests.  Touches and    *)
(* frames alternate, both being gui_task's: at most one touch is read        *)
(* between two of its frames.                                               *)
(***************************************************************************)
EXTENDS Naturals, Sequences, Functions, Selection

CONSTANTS
    Riders,      \* other riders: MESH_MAX_PEERS
    MaxCard,     \* VIEW_CANDIDATES_MAX
    MaxTurns     \* bound: what the other riders, the finger and the page do

ASSUME CardAssumption == {Riders, MaxCard} \subseteq Nat \ {0} /\ MaxTurns \in Nat

Rider == 1 .. Riders
Taken == Riders + 1

VARIABLES
    heard,       \* per rider: not heard lately, heard, discoverable and far, or near
    prompt,      \* mesh_core: the prompt, whom it is about, the keys are moving
    friends,     \* riders in the friend list
    hold,        \* in s_request_queue: a rider, or 0; Taken until a view shows what came of it
    view,        \* the published prompt and candidates, which mesh_core remembers too
    card,        \* friend_screen's card
    ring,        \* its HoldRing
    finger,      \* "up", "down" or "drag"; a touch the card has not been drawn since
    turns,
    astray       \* history: a rider was asked that was not the one in the centre

meshVars == <<heard, prompt, friends, hold>>
cardVars == <<card, ring, finger, astray>>
friendVars == <<meshVars, view, cardVars, turns>>

NoPrompt == [is |-> "none", of |-> 0]
Closed == [is |-> "none", of |-> 0, sure |-> FALSE]

\* enter(): page is "entering", then "up", "leaving" and "down".  held: whom the
\* grace after a full ring is for; snap: who is to be snapped to.  History: gone, the
\* rider of the ring has left the card; swiped, the rider has moved on from an offer; late, the
\* ring of a press was left to run, or to stay, when the press had become a step.
FreshCard ==
    [page |-> "entering", items |-> <<>>, centre |-> 0, moving |-> FALSE, prompt |-> NoPrompt,
     snap |-> 0, held |-> 0, gone |-> FALSE, swiped |-> FALSE]
FreshRing == [full |-> FALSE, runs |-> FALSE, asks |-> FALSE, of |-> 0, late |-> FALSE]

CardInit ==
    /\ heard = [r \in Rider |-> "far"] /\ prompt = Closed /\ friends = {} /\ hold = 0
    /\ view = [prompt |-> NoPrompt, list |-> <<>>]
    /\ card = FreshCard /\ ring = FreshRing /\ finger = [at |-> "up", drawn |-> TRUE]
    /\ turns = 0 /\ astray = FALSE

-----------------------------------------------------------------------------
(* mesh_core: the candidates.                                               *)

Offers(r) == prompt.is = "offer" /\ prompt.of = r
Requested(r) == prompt.is = "waiting" /\ prompt.of = r /\ ~prompt.sure

\* candidate_ok: one that asks, or is asked, stays on the card.
CandidateOk(r) ==
    /\ heard[r] # "away" /\ r \notin friends
    /\ Offers(r) \/ Requested(r) \/ heard[r] \in {"far", "near"}

\* card_rank, in steps above MESH_PAIR_REORDER_DB.
Rank(r) == IF Offers(r) THEN 2 ELSE IF heard[r] = "near" THEN 1 ELSE 0

\* mesh_core_candidates: the order they had, then newcomers, one that is clearly
\* ahead in front.
Candidates ==
    LET ok == {r \in Rider : CandidateOk(r)}
        all == Chosen(view.list, ok) \o Chosen([r \in Rider |-> r], ok \ Range(view.list))
        ranked(n) == Chosen(all, {r \in Rider : Rank(r) = n})
    IN  ranked(2) \o ranked(1) \o ranked(0)

-----------------------------------------------------------------------------
(* mesh_core: the other riders, and the holds of ours.                      *)

Turn == turns < MaxTurns /\ turns' = turns + 1

\* Heard nearer or farther, no longer discoverable, or not at all, which closes
\* its prompt: they rode apart.
Ride(r) ==
    /\ Turn
    /\ \E h \in {"away", "closed", "far", "near"} \ {heard[r]} :
           /\ heard' = [heard EXCEPT ![r] = h]
           /\ prompt' = IF h = "away" /\ prompt.of = r /\ prompt.is # "done" THEN Closed ELSE prompt
    /\ UNCHANGED <<friends, hold, view, cardVars>>

\* on_request.
Asks(r) ==
    /\ Turn
    /\ heard[r] # "away" /\ r \notin friends
    /\ \/ prompt.is = "none" /\ prompt' = [is |-> "offer", of |-> r, sure |-> FALSE]
       \/ Requested(r) /\ prompt' = [prompt EXCEPT !.sure = TRUE]
    /\ UNCHANGED <<heard, friends, hold, view, cardVars>>

\* complete: the other's key has come.
Befriends ==
    /\ Turn
    /\ prompt.is = "waiting"
    /\ friends' = friends \cup {prompt.of}
    /\ prompt' = [prompt EXCEPT !.is = "done", !.sure = FALSE]
    /\ UNCHANGED <<heard, hold, view, cardVars>>

\* The prompt's time, its retries or its last two seconds are over.
PromptEnds ==
    /\ Turn
    /\ prompt.is # "none" /\ prompt' = Closed
    /\ UNCHANGED <<heard, friends, hold, view, cardVars>>

\* mesh_core_hold: an accept, or a request that takes the place of the prompt
\* unless keys are moving.
HoldTaken(r) ==
    LET busy == prompt.is = "done" \/ (prompt.is # "none" /\ (prompt.sure \/ prompt.of = r))
        free == heard[r] # "away" /\ r \notin friends
    IN  IF Offers(r) THEN [prompt EXCEPT !.is = "waiting", !.sure = TRUE]
        ELSE IF busy THEN prompt
        ELSE IF free THEN [is |-> "waiting", of |-> r, sure |-> FALSE] ELSE Closed
MeshHold ==
    /\ hold \in Rider
    /\ prompt' = HoldTaken(hold) /\ hold' = Taken
    /\ UNCHANGED <<heard, friends, view, cardVars, turns>>

-----------------------------------------------------------------------------
(* The card.                                                                *)

IndexIn(s, r) == CHOOSE i \in DOMAIN s : s[i] = r
Nearest(s, i) == s[IF i <= Len(s) THEN i ELSE Len(s)]

\* build_items.
ItemsOf(v) ==
    IF v.prompt.is = "done" THEN <<v.prompt.of>>
    ELSE SubSeq(v.list, 1, IF Len(v.list) < MaxCard THEN Len(v.list) ELSE MaxCard)

\* go_to: the card slides, unless it is there.
GoTo(c, r) == [c EXCEPT !.centre = r, !.moving = @ \/ r # c.centre]

\* follow_centre: the same rider, wherever the list has it now; if it has left, whoever
\* has its place, or the last.
FollowPlace(c, items) ==
    LET followed == [c EXCEPT !.items = items]
    IN  IF items = <<>> THEN [followed EXCEPT !.centre = 0, !.moving = FALSE]
        ELSE IF c.centre = 0 THEN [followed EXCEPT !.centre = items[1]]
        ELSE [followed EXCEPT !.centre = Nearest(items, IndexIn(c.items, c.centre))]
FollowCentre(c, items) ==
    LET followed == [c EXCEPT !.items = items]
    IN  IF items = <<>> THEN [followed EXCEPT !.centre = 0, !.moving = FALSE]
        ELSE IF c.centre \in Range(items) THEN followed
        ELSE IF c.centre = 0 THEN [followed EXCEPT !.centre = items[1]]
        ELSE LET place == IndexIn(c.items, c.centre)
             IN  [followed EXCEPT !.centre = Nearest(items, place), !.moving = @ \/ place > Len(items)]

\* track_prompt: what an edge leaves to be done, and the snap, never under a
\* finger.
Edge(c, p) ==
    IF p = c.prompt THEN c
    ELSE [c EXCEPT !.prompt = p, !.swiped = FALSE,
                   !.snap = IF p.is = "offer" THEN p.of ELSE 0,
                   !.held = IF p.is = "none" THEN @ ELSE 0]
SnapNow(c) ==
    IF c.snap = 0 \/ c.snap \notin Range(c.items) THEN c
    ELSE [GoTo(c, c.snap) EXCEPT !.snap = 0]
Snap(c) == IF finger.at = "up" THEN SnapNow(c) ELSE c

\* ring_wants_full.
WantsFullRing(c) == c.items # <<>> /\ (ring.full \/ c.held = c.centre)
WantsFull(c) ==
    c.items # <<>> /\ \/ c.prompt.is \in {"waiting", "done"} /\ c.prompt.of = c.centre
                      \/ c.held = c.centre

\* reconcile_ring: at rest it shows the handshake; a finger that holds drives it.
Reconciled(c) ==
    LET want == WantsFull(c) /\ finger.at # "drag"
    IN  IF finger.at = "down" \/ want = ring.full THEN ring
        ELSE [full |-> want, runs |-> TRUE, asks |-> FALSE, of |-> IF want THEN c.centre ELSE ring.of, late |-> FALSE]

\* update, from the view it was or from a new one.
CardFrame(new) ==
    /\ card.page \in {"entering", "up"}
    /\ view' = IF new THEN [prompt |-> [is |-> prompt.is, of |-> prompt.of], list |-> Candidates] ELSE view
    /\ LET items == ItemsOf(view')
           c == Snap(Edge(FollowCentre(card, items), view'.prompt))
       IN  /\ card' = [c EXCEPT !.gone = @ \/ ring.of \notin Range(items)]
           /\ ring' = Reconciled(c)
    /\ finger' = [finger EXCEPT !.drawn = TRUE]
    /\ hold' = IF new /\ hold = Taken THEN 0 ELSE hold
    /\ UNCHANGED <<heard, prompt, friends, astray, turns>>

-----------------------------------------------------------------------------
(* Touches.                                                                 *)

Touched(at) == finger.drawn /\ finger' = [at |-> at, drawn |-> FALSE]

\* on_press: a hold begins on a rider at rest in the centre, not asked already.
\* mesh_task, every 50 ms, has taken the last one, and countdown_task, every
\* 100 ms, published what came of it, before a finger is back.
MayHold ==
    /\ card.page = "up" /\ card.items # <<>> /\ card.prompt.is # "done" /\ ~card.moving
    /\ ~(card.prompt = [is |-> "waiting", of |-> card.centre]) /\ card.held # card.centre
Touch ==
    /\ Turn /\ finger.at = "up" /\ Touched("down") /\ hold = 0
    /\ card.page \in {"entering", "up"}
    /\ IF MayHold
       THEN ring' = [full |-> TRUE, runs |-> TRUE, asks |-> TRUE, of |-> card.centre, late |-> FALSE]
            /\ card' = [card EXCEPT !.gone = FALSE]
       ELSE UNCHANGED <<ring, card>>
    /\ UNCHANGED <<meshVars, view, astray>>

\* on_pressing, past kDragStart: the rider chooses, and the card follows.
Drag ==
    /\ Turn /\ finger.at # "up" /\ Touched("drag")
    /\ card.items # <<>> /\ card.prompt.is # "done"
    /\ \E r \in Range(card.items) :
           card' = [card EXCEPT !.centre = r, !.snap = 0, !.swiped = @ \/ card.prompt.is = "offer",
                                !.moving = finger.at = "drag" /\ @]
    /\ UNCHANGED <<meshVars, view, ring, astray>>

\* The one beside it, or itself at the end.
Beside(c) ==
    LET i == IndexIn(c.items, c.centre) IN {c.items[j] : j \in {i - 1, i, i + 1} \cap DOMAIN c.items}

\* on_release: a drag ends on the nearest rider, or beside it by a flick; a short press at an
\* edge steps, on_short_click.  PRESS_LOST is a release too.
Lifted ==
    /\ finger.at # "up" /\ Touched("up")
    /\ \/ finger.at = "drag" /\ card.items # <<>>
          /\ \E r \in Beside(card) : card' = [card EXCEPT !.centre = r, !.moving = TRUE]
       \/ finger.at = "down" /\ Len(card.items) >= 2 /\ card.prompt.is # "done"
          /\ \E r \in Beside(card) :
                 card' = [GoTo(card, r) EXCEPT !.swiped = @ \/ (card.prompt.is = "offer" /\ card.snap = 0)]
       \/ finger.at = "down" /\ UNCHANGED card
       \/ card.items = <<>> /\ UNCHANGED card
    /\ ring' = [ring EXCEPT !.late = @ \/ ring.asks \/ (ring.full /\ ring.of # card'.centre)]
    /\ UNCHANGED <<meshVars, view, astray, turns>>

-----------------------------------------------------------------------------
(* Animations and timers.                                                   *)

\* on_ring_full, if the run was a hold's.
AsksAnyway == ring.full /\ ring.asks /\ finger.at # "up"
AsksNow == ring.full /\ ring.asks /\ finger.at = "down"
RingDone ==
    /\ ring.runs
    /\ ring' = [ring EXCEPT !.runs = FALSE, !.asks = FALSE]
    /\ IF AsksNow
       THEN /\ hold' = ring.of
            /\ card' = [card EXCEPT !.held = ring.of]
            /\ astray' = (astray \/ (ring.of # card.centre /\ ~card.gone /\ ~ring.late))
       ELSE UNCHANGED <<hold, card, astray>>
    /\ UNCHANGED <<heard, prompt, friends, view, finger, turns>>

CardTimes ==
    /\ \/ card.moving /\ card' = [card EXCEPT !.moving = FALSE]
       \/ card.held # 0 /\ card' = [card EXCEPT !.held = 0]
       \/ card.page = "entering" /\ card' = [card EXCEPT !.page = "up"]
       \/ card.page = "leaving" /\ card' = [card EXCEPT !.page = "down"]
    /\ UNCHANGED <<meshVars, view, ring, finger, turns, astray>>

\* leave(): an unfinished ring runs back, a friend's stays; then enter(), later.
CardLeaves ==
    /\ Turn /\ card.page \in {"entering", "up"}
    /\ card' = [card EXCEPT !.page = "leaving", !.moving = FALSE]
    /\ ring' = IF card.prompt.is = "done" THEN ring
               ELSE [ring EXCEPT !.full = FALSE, !.runs = TRUE, !.asks = FALSE, !.late = FALSE]
    /\ finger' = [at |-> "up", drawn |-> TRUE]
    /\ UNCHANGED <<meshVars, view, astray>>
CardEnters ==
    /\ Turn /\ card.page = "down"
    /\ card' = FreshCard /\ ring' = FreshRing /\ finger' = [at |-> "up", drawn |-> TRUE]
    /\ UNCHANGED <<meshVars, view, astray>>

CardDraw == \E new \in BOOLEAN : CardFrame(new)
CardNext ==
    \/ \E r \in Rider : Ride(r) \/ Asks(r)
    \/ Befriends \/ PromptEnds \/ MeshHold
    \/ CardDraw \/ RingDone \/ CardTimes
    \/ Touch \/ Drag \/ Lifted \/ CardLeaves \/ CardEnters

-----------------------------------------------------------------------------
\* Who is asked is who is in the centre when the ring fills, however the list
\* was reordered and whoever asked us during the hold; but for a rider who left
\* the card during it.
AsksShown == ~astray

\* The card changes rider only by a touch, because its rider left, or to one who
\* asks us, and then not under a finger.
CardHolds ==
    [][card.page = "up" /\ card'.centre # card.centre =>
         \/ ~finger'.drawn
         \/ card.centre \notin Range(card'.items)
         \/ card'.prompt = [is |-> "offer", of |-> card'.centre] /\ finger.at = "up"]_friendVars

\* Nothing is left to be done by mesh_task, a timer or an animation, and a new
\* frame would look as the last one did.
AtRest ==
    /\ card.page = "up" /\ finger = [at |-> "up", drawn |-> TRUE] /\ hold = 0
    /\ ~ring.runs /\ ~card.moving /\ card.held = 0
    /\ view = [prompt |-> [is |-> prompt.is, of |-> prompt.of], list |-> Candidates]
    /\ card.prompt = view.prompt /\ card.items = ItemsOf(view)
    /\ Snap(card) = card /\ Reconciled(card) = ring

\* At rest the ring is full, in the colour of the rider in the centre, if the
\* handshake is with that rider, and empty if not; and a rider who asks us is in
\* the centre, unless ours has moved on.  The colour may be left from a press that
\* became a step, or from a rider who has left the card.
CardRests ==
    AtRest => /\ ring.full <=> prompt.is \in {"waiting", "done"} /\ prompt.of = card.centre
              /\ ring.full => ring.of = card.centre \/ ring.late \/ card.gone
              /\ prompt.is = "offer" => card.centre = prompt.of \/ card.swiped

\* Both: what is asked for and what is shown are of the rider in the centre.
CardTrue == AsksShown /\ CardRests
=============================================================================
