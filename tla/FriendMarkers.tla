---------------------------- MODULE FriendMarkers ----------------------------
(***************************************************************************)
(* The friends on the compass, friend_markers.cpp: each pass of gui_task      *)
(* takes the friends of the view, draws anew the art of those whose look has *)
(* changed and has the page redrawn when the markers on it would change; the *)
(* page draws them when LVGL comes to it.  LVGL keeps what it has decoded of *)
(* an image for as long as it likes, or until it is told to drop it.         *)
(*                                                                          *)
(* Bearings and headings are whole degrees, Round of them to the circle.     *)
(***************************************************************************)
EXTENDS Integers, Sequences

CONSTANTS
    MaxMarkers,   \* VIEW_FRIENDS_MAX
    Round,        \* 360
    Presets,      \* AVATAR_PRESET_COUNT
    Fallback,     \* SETTINGS_AVATAR_DEFAULT_PRESET
    Avatars,      \* avatar bytes a rider's look may have
    Accents,      \* accents it may have
    MaxWhims      \* bound: how often the friends, the settings or the heading change

ASSUME FriendMarkersAssumption ==
    /\ MaxMarkers \in Nat /\ {Round, Presets} \subseteq Nat \ {0} /\ Fallback \in 1 .. Presets
    /\ Avatars \subseteq Nat /\ Accents \subseteq Nat /\ MaxWhims \in Nat

VARIABLES
    near,      \* friends, of the view
    ringSet,   \* friends_on_compass and friend_marker
    course,    \* heading_deg, -1 unknown
    tokens,    \* s_markers
    ringNow,   \* s_count, s_show, s_dot
    north,     \* north_heading_rad_ in degrees, or -1: not north_known_
    restale,   \* the page is to be drawn again
    inked,     \* the markers on the panel
    passed,    \* history: what the last pass was given
    whims      \* changes so far

markerVars == <<near, ringSet, course, tokens, ringNow, north, restale, inked, passed, whims>>

LooksAbout == [avatar : Avatars, accent : Accents]
FriendLists == UNION {[1 .. n -> [look : LooksAbout, bearing : 0 .. Round - 1]] : n \in 0 .. MaxMarkers}

\* avatar_art_draw_small, with no upload: a preset's art, the default's for any other avatar.
Art(look) == <<IF look.avatar \in 1 .. Presets THEN look.avatar ELSE Fallback, look.accent>>
NoArt == <<0, 0>>
\* Zeroed; `decoded` is what LVGL keeps of the image.
BlankToken == [bearing |-> 0, avatar |-> 0, accent |-> 0, art |-> NoArt, described |-> FALSE, decoded |-> NoArt]

MarkersInit ==
    /\ near \in FriendLists /\ ringSet \in [show : BOOLEAN, dot : BOOLEAN] /\ course \in -1 .. Round - 1
    /\ tokens = [i \in 1 .. MaxMarkers |-> BlankToken]
    /\ ringNow = [count |-> 0, show |-> FALSE, dot |-> FALSE] /\ north = -1
    /\ restale = FALSE /\ inked = <<>>
    /\ passed = [near |-> <<>>, set |-> [show |-> FALSE, dot |-> FALSE], course |-> -1]
    /\ whims = 0

\* countdown_task has filled the view, or a setting has been written.
ThingsChange ==
    /\ whims < MaxWhims /\ whims' = whims + 1
    /\ \/ near' \in FriendLists /\ UNCHANGED <<ringSet, course>>
       \/ ringSet' \in [show : BOOLEAN, dot : BOOLEAN] /\ UNCHANGED <<near, course>>
       \/ course' \in -1 .. Round - 1 /\ UNCHANGED <<near, ringSet>>
    /\ UNCHANGED <<tokens, ringNow, north, restale, inked, passed>>

-----------------------------------------------------------------------------
(* A pass: friend_markers_update, then the page's update.                   *)

SameLookOnly(m, look) == m.avatar = look.avatar /\ m.accent = look.accent
SameLook(m, look) == m.avatar = look.avatar /\ m.accent = look.accent /\ m.described
DescribedOver(m) == [m EXCEPT !.described = TRUE]
\* avatar_art_describe drops what LVGL keeps of an image described before.
Described(m) == [m EXCEPT !.described = TRUE, !.decoded = IF m.described THEN NoArt ELSE m.decoded]
TokenFor(m, f) ==
    LET b == [m EXCEPT !.bearing = f.bearing]
    IN  IF SameLook(m, f.look) THEN b
        ELSE Described([b EXCEPT !.avatar = f.look.avatar, !.accent = f.look.accent, !.art = Art(f.look)])
Remarked(m, f) == m.bearing # f.bearing \/ ~SameLook(m, f.look)
RingChanges ==
    \/ ringSet.show # ringNow.show \/ ringSet.dot # ringNow.dot \/ Len(near) # ringNow.count
    \/ \E i \in 1 .. Len(near) : Remarked(tokens[i], near[i])
MarkersPass ==
    /\ ringNow' = [count |-> Len(near), show |-> ringSet.show, dot |-> ringSet.dot]
    /\ tokens' = [i \in 1 .. MaxMarkers |-> IF i <= Len(near) THEN TokenFor(tokens[i], near[i]) ELSE tokens[i]]
    /\ north' = course
    /\ restale' = (restale \/ RingChanges \/ course # north)
    /\ passed' = [near |-> near, set |-> ringSet, course |-> course]
    /\ UNCHANGED <<near, ringSet, course, inked, whims>>

\* friend_markers_draw, heading-up, of a compass that knows where north is.
Ink(m, dot) == IF dot THEN <<0, m.accent>> ELSE IF m.decoded # NoArt THEN m.decoded ELSE m.art
Drawn ==
    IF north < 0 \/ ~ringNow.show THEN <<>>
    ELSE [i \in 1 .. ringNow.count |->
             [at |-> (tokens[i].bearing - north) % Round, ink |-> Ink(tokens[i], ringNow.dot)]]
Decodes(m) == [m EXCEPT !.decoded = IF m.decoded # NoArt THEN m.decoded ELSE m.art]
RingDraws ==
    /\ restale /\ restale' = FALSE
    /\ inked' = Drawn
    /\ tokens' = IF north < 0 \/ ~ringNow.show \/ ringNow.dot THEN tokens
                 ELSE [i \in 1 .. MaxMarkers |->
                          IF i <= ringNow.count THEN Decodes(tokens[i]) ELSE tokens[i]]
    /\ UNCHANGED <<near, ringSet, course, ringNow, north, passed, whims>>
\* Something else has the page drawn again, and LVGL makes room.
Elsewhere == restale' = TRUE /\ UNCHANGED <<near, ringSet, course, tokens, ringNow, north, inked, passed, whims>>
CacheDrops(i) ==
    /\ tokens' = [tokens EXCEPT ![i].decoded = NoArt]
    /\ UNCHANGED <<near, ringSet, course, ringNow, north, restale, inked, passed, whims>>

MarkersNext ==
    \/ ThingsChange \/ MarkersPass \/ RingDraws \/ Elsewhere
    \/ \E i \in 1 .. MaxMarkers : CacheDrops(i)

-----------------------------------------------------------------------------
\* What the view and the settings of the last pass call for.
CalledFor ==
    IF passed.course < 0 \/ ~passed.set.show THEN <<>>
    ELSE [i \in 1 .. Len(passed.near) |->
             [at |-> (passed.near[i].bearing - passed.course) % Round,
              ink |-> IF passed.set.dot THEN <<0, passed.near[i].look.accent>> ELSE Art(passed.near[i].look)]]

\* While no drawing is due the panel shows the friends, the settings and the heading of the last
\* pass: each of them, at their bearing and with their own look, whoever had the slot before and
\* whatever LVGL still keeps of it.
MarkersTrue == ~restale => inked = CalledFor
=============================================================================
