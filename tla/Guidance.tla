------------------------------ MODULE Guidance ------------------------------
(***************************************************************************)
(* A navigation's notification on its way to the pages, from an Android     *)
(* phone or an iPhone.  What it means is known beforehand, and so are its   *)
(* words: an instruction, often with a street, a distance, an arrival time, *)
(* a picture, progress and the traffic ahead.                               *)
(***************************************************************************)
EXTENDS Normalize

CONSTANT Ignored    \* of a notification nothing was made

VARIABLES
    guide,   \* the notification: what it means, how it says so and where it comes
    raw,     \* raw_notif_t
    model,   \* nav_model_t
    labels   \* the clock and the ETA of terminal_view_state_t

readVars == <<guide, raw, model, labels>>

-----------------------------------------------------------------------------
(* What navigations say.                                                    *)

\* An instruction: its words, whether a street follows, what it means, what is
\* left of that without its picture, and the picture's angle.
Saying(text, named, means, bare, angle) ==
    [text |-> text, named |-> named, means |-> means, bare |-> bare, angle |-> angle]
Plainly(text, named, means, angle) == Saying(text, named, means, means, angle)
TurnLeft == Plainly("turn left onto ", TRUE, "turn_left", 113)
Home == Saying("home", FALSE, "destination", "unknown", 133)
\* The side is told with the word that streets are found by.
Sided == {Plainly("your destination is on the left", FALSE, "turn_left", 133),
          Plainly("destination will be on the right", FALSE, "turn_right", 133)}
Sayings == Sided \cup {TurnLeft, Home,
    Plainly("turn right onto ", TRUE, "turn_right", 247),
    Plainly("turn slightly left onto ", TRUE, "slight_left", 325),
    Plainly("slight right onto ", TRUE, "slight_right", 0),
    Plainly("sharp right onto ", TRUE, "sharp_right", 283),
    Plainly("sharp left onto ", TRUE, "sharp_left", 57),
    Plainly("keep right onto ", TRUE, "slight_right", 0),
    Plainly("merge onto ", TRUE, "straight", 181),
    Plainly("continue straight onto ", TRUE, "straight", 0),
    Plainly("continue on ", TRUE, "straight", 0),
    Plainly("use any lane to turn right onto ", TRUE, "turn_right", 247),
    Plainly("use the left 2 lanes to take the ramp onto ", TRUE, "slight_left", 325),
    Plainly("make a u-turn onto ", TRUE, "u_turn", 57),
    Plainly("at the roundabout, continue straight onto ", TRUE, "roundabout_straight", 169),
    Saying("at the roundabout, take the 1st exit onto ", TRUE, "roundabout_left", "roundabout_straight", 135),
    Saying("at the roundabout, take the 2nd exit onto ", TRUE, "roundabout_right", "roundabout_straight", 208),
    Saying("bitte abbiegen", FALSE, "turn_left", "unknown", 113),
    Plainly("use the left 2 lanes to take exit 412", FALSE, "slight_left", 325),
    Plainly("use the right lanes to take the rte 31 ramp", FALSE, "slight_right", 0),
    Plainly("arriving at home", FALSE, "destination", 133),
    Plainly("you have arrived", FALSE, "arrived", 133),
    Plainly("you have reached your destination", FALSE, "arrived", 133)}

\* A street: the words of its name, and the route it is too, if any, said first
\* or last.  Names made of the instructions' own words, long ones, plain ones.
Street(words) == [words |-> words, route |-> "", first |-> FALSE]
Main == Street(<<"main", "street">>)
Streets == {Main} \cup {Street(w) : w \in {
        <<"wright", "street">>, <<"left", "bank", "road">>, <<"straight", "road">>,
        <<"mount", "exit", "lane">>, <<"north", "road">>, <<"esplanade">>, <<"lanesborough", "avenue">>,
        <<"great", "western", "highway">>, <<"st", "kilda", "road", "north">>, <<"u-turn", "ramp">>,
        <<"wellington", "harbour", "esplanade", "road">>, <<"kirkpatrickwellingtonshire", "street">>,
        <<"te", "kopua", "o", "tamaki", "harbour", "route">>, <<"on", "ramp", "road">>,
        <<"kirkpatrickwellingtonshire">>, <<"merge", "left", "or", "right", "lane">>}}
    \cup [words : {<<"greville", "road">>, <<"5th", "avenue">>}, route : {"sh 17", "state highway 1"},
          first : BOOLEAN]
StreetText(s) ==
    LET name == Joined(s.words)
    IN IF s.route = "" THEN name
       ELSE IF s.first THEN s.route \o "/" \o name ELSE name \o "/" \o s.route

\* A distance and its metres: a number is Android's alone, feet the iPhone's.
Distances == {[text |-> t[1], metres |-> t[2], from |-> t[3]] : t \in {
    <<"", -1, {"android", "iphone"}>>, <<"250", 250, {"android"}>>, <<"500 ft", -1, {"iphone"}>>,
    <<"0.3 mi", -1, {"iphone"}>>, <<"250_m", 250, {"android", "iphone"}>>,
    <<"50m", 50, {"android", "iphone"}>>, <<"1.1 km", 1100, {"android", "iphone"}>>,
    <<"1,1_km", 1100, {"android", "iphone"}>>, <<"0.05 km", 50, {"android", "iphone"}>>,
    <<"2 km", 2000, {"android", "iphone"}>>, <<"12.3456 m", 12, {"android", "iphone"}>>,
    <<"900 metres", 900, {"iphone"}>>}}
\* A time, what is left of it, and the minute of the day that it means, if any.
Times == {[text |-> t[1], shown |-> t[2], minute |-> t[3]] : t \in {
    <<"", "", -1>>, <<"12 min", "12 min", -1>>, <<"5 minutes", "5 minutes", -1>>, <<"arrive 12:45", "12:45", 765>>,
    <<"arrive at 12:45 pm", "12:45 pm", 765>>, <<"12:45 arrival", "12:45", 765>>, <<"0:10 arrival", "0:10", 10>>,
    <<"arrive 12:10 am", "12:10 am", 10>>, <<"arrive 9:05 pm", "9:05 pm", 1265>>,
    <<"12:45 at home", "12:45 at home", 765>>, <<"25:10", "25:10", -1>>}}
\* The phone's clock and zone, how long ago it told them, and the settings.
Clocks == {[utc |-> t[1], zone |-> t[2], since |-> t[3], left |-> l, twelve |-> h] : l \in BOOLEAN, h \in BOOLEAN,
    t \in {<<Absent, 600, 0>>, <<120, Absent, 0>>, <<120, 600, 0>>, <<120, 600, 50>>, <<830, 600, 0>>,
           <<830, 600, 40>>, <<150, -300, 0>>}}

\* Maps' colours, and what each says of the road.
Colors == [teal |-> <<0, 154, 166>>, blue |-> <<26, 115, 232>>, green |-> <<30, 142, 62>>,
    amber |-> <<242, 153, 0>>, orange |-> <<232, 113, 10>>, red |-> <<234, 67, 53>>,
    deep |-> <<217, 48, 37>>, dark |-> <<165, 14, 14>>, maroon |-> <<139, 0, 0>>,
    grey |-> <<128, 134, 139>>, pale |-> <<227, 227, 227>>, black |-> <<0, 0, 0>>]
Level(c) == CASE c \in {"teal", "blue", "green"} -> "free" [] c \in {"amber", "orange"} -> "slow"
              [] c \in {"red", "deep"} -> "heavy" [] c \in {"dark", "maroon"} -> "stopped" [] OTHER -> "unknown"
Stretch(length, color) == [length |-> length, color |-> color]
RouteAhead == {<<>>} \cup {<<Stretch(900, c)>> : c \in DOMAIN Colors}
    \cup {<<Stretch(a, "teal"), Stretch(b, "red"), Stretch(c, "grey")>> : a \in {0, 3, 700}, b \in {3, 900}, c \in {2, 3300}}
    \cup {[i \in 1..9 |-> Stretch(400, IF i % 2 = 0 THEN "teal" ELSE "amber")]}

Unmeasured == [text |-> "", metres |-> -1, from |-> {"android", "iphone"}]
Wordless == Plainly("", FALSE, "unknown", 57)
Ordinary == [via |-> "android", app |-> "google maps", removed |-> FALSE, category |-> "location", saying |-> TurnLeft,
    street |-> Main, angle |-> Absent, distance |-> [text |-> "250_m", metres |-> 250, from |-> {"android", "iphone"}],
    time |-> [text |-> "12 min", shown |-> "12 min", minute |-> -1], timeFirst |-> FALSE,
    clock |-> [utc |-> 120, zone |-> 600, since |-> 0, left |-> TRUE, twelve |-> FALSE],
    progress |-> Absent, max |-> Absent, route |-> <<>>]
Vias == {"android", "iphone"}
Guides ==
    {[Ordinary EXCEPT !.via = v, !.saying = s, !.street = r] : v \in Vias, s \in {t \in Sayings : t.named}, r \in Streets}
    \cup UNION {{[Ordinary EXCEPT !.saying = s, !.angle = a] :
                    a \in {Absent, 57} \cup {(s.angle + d) % 360 : d \in -4..4}} : s \in Sayings}
    \cup UNION {{[Ordinary EXCEPT !.via = v, !.distance = d, !.time = t, !.timeFirst = f] :
                    v \in d.from, t \in Times, f \in BOOLEAN} : d \in Distances}
    \cup {[Ordinary EXCEPT !.time = t, !.clock = c] : t \in Times, c \in Clocks}
    \cup {[Ordinary EXCEPT !.progress = p[1], !.max = p[2], !.route = r] :
              p \in {<<0, 1000>>, <<250, 1000>>, <<1000, 1000>>, <<1001, 1000>>, <<0, 0>>, <<5, Absent>>}, r \in RouteAhead}
    \cup {[Ordinary EXCEPT !.via = v, !.saying = Wordless, !.distance = d, !.time = t, !.progress = p] : v \in Vias,
              d \in {Ordinary.distance, Unmeasured}, t \in {Ordinary.time, [text |-> "", shown |-> "", minute |-> -1]}, p \in {Absent, 250}}
    \cup {[Ordinary EXCEPT !.via = v, !.app = a, !.category = c, !.removed = r] : v \in Vias,
              a \in {"google maps", "waze", "apple maps", "a messenger"},
              c \in {"location", "social", "incoming call", "missed call"}, r \in BOOLEAN}

GuideInit == guide \in Guides /\ raw = Absent /\ model = Absent /\ labels = Absent
GuideRest == guide = Absent /\ raw = Absent /\ model = Absent /\ labels = Absent

Title(g) == IF g.saying.named THEN g.saying.text \o StreetText(g.street) ELSE g.saying.text

\* putString and copy_bounded: a text and its end in a field of so many bytes.
Fitted(text, size) == SubSeq(text, 1, AtMost(text, size - 1))
TitleSize == 64
EtaSize == 32
DistanceSize == 16

-----------------------------------------------------------------------------
(* The Android phone, relayIfNav, and the packet's table of segments.       *)

SegmentEnds(route) ==
    LET valid == SelectSeq(route, LAMBDA s : s.length > 0)
        sum[i \in 0..Len(valid)] == IF i = 0 THEN 0 ELSE sum[i - 1] + valid[i].length
    IN [i \in 1..Min({Len(valid), 8}) |->
            [end |-> (1000 * sum[i]) \div sum[Len(valid)], rgb |-> Colors[valid[i].color]]]

RelayIfNav ==
    /\ guide.via = "android" /\ raw = Absent
    /\ raw' = IF \/ guide.app # "google maps"
                 \/ Title(guide) = "" /\ guide.distance.text = "" /\ guide.progress = Absent
              THEN Ignored
              ELSE [title |-> Fitted(Title(guide), TitleSize), eta |-> Fitted(guide.time.text, EtaSize),
                    distance |-> Fitted(guide.distance.text, DistanceSize),
                    progress |-> guide.progress, max |-> guide.max, icon |-> guide.angle,
                    segments |-> SegmentEnds(guide.route)]
    /\ UNCHANGED <<guide, model, labels>>

-----------------------------------------------------------------------------
(* The iPhone, ancs_bridge_on_notification: until a real one has been       *)
(* recorded, any app is let through.                                        *)

Permissive == TRUE
CallCategories == {"incoming call", "missed call"}
IsNavigation(n) ==
    /\ n.category \notin CallCategories
    /\ \/ n.app \in {"google maps", "waze"}
       \/ n.app # "apple maps" /\ n.category = "location"
       \/ Permissive

\* A number with a unit that the normalizer knows; not "5 min".
LineStatesDistance(s) ==
    LET line == Onward(s, RunOf(s, {" "}) + 1)
        rest == Onward(line, RunOf(line, Digits \cup {".", ","}) + 1)
        unit == Onward(rest, RunOf(rest, Separators) + 1)
    IN /\ CharAt(line, 1) \in Digits
       /\ \E u \in {"km", "m", "kilometres", "kilometers", "metres", "meters"} :
             Starts(unit, u) /\ CharAt(unit, Len(u) + 1) \notin Alphabet

\* Which line says what is read from the lines; nothing else comes with them.
AncsNavToRaw(title, subtitle, message) ==
    LET lines == IF LineStatesDistance(subtitle) THEN [distance |-> subtitle, eta |-> message]
                 ELSE IF LineStatesDistance(message) THEN [distance |-> message, eta |-> subtitle]
                 ELSE [distance |-> "", eta |-> IF subtitle # "" THEN subtitle ELSE message]
    IN [title |-> Fitted(title, TitleSize), eta |-> Fitted(lines.eta, EtaSize),
        distance |-> Fitted(lines.distance, DistanceSize),
        progress |-> Absent, max |-> Absent, icon |-> Absent, segments |-> <<>>]

OnNotification ==
    /\ guide.via = "iphone" /\ raw = Absent
    /\ raw' = LET said == IF guide.timeFirst THEN <<guide.time.text, guide.distance.text>>
                          ELSE <<guide.distance.text, guide.time.text>>
              IN IF guide.removed \/ ~IsNavigation(guide) \/ (Title(guide) = "" /\ said = <<"", "">>) THEN Ignored
                 ELSE AncsNavToRaw(Title(guide), said[1], said[2])
    /\ UNCHANGED <<guide, model, labels>>

NormalizeNext ==
    /\ raw \notin {Absent, Ignored} /\ model = Absent
    /\ model' = NormalizePacket(raw)
    /\ UNCHANGED <<guide, raw, labels>>

-----------------------------------------------------------------------------
(* The clock and the arrival, pipeline.c, minutes of a day by hours and      *)
(* minutes; how they are written is left out.                               *)

\* accept_time and pipeline_set_wall_clock: neither is known of a zero-filled
\* or unknown field.  local_minute_of_day: carried forward since.
LocalMinuteOfDay(c) ==
    IF Absent \in {c.utc, c.zone} THEN -1 ELSE (c.utc + c.zone + c.since) % 1440

FormatHhmm(minute, twelve) ==
    LET h == (minute \div 60) % 24
    IN [hour |-> IF ~twelve THEN h ELSE IF h % 12 = 0 THEN 12 ELSE h % 12, minute |-> minute % 60]

\* The first hour and minute in a text, and the half of the day it says; -1 for
\* what is none.
ParseArrivalMinute(eta) ==
    LET hour(i) == SubSeq(eta, i, i - 1 + RunOf(Onward(eta, i), Digits))
        rest(i) == Onward(eta, i + Len(hour(i)))
        met == {i \in 1..Len(eta) : hour(i) # "" /\ CharAt(rest(i), 1) = ":" /\ CharAt(rest(i), 2) \in Digits}
        first == Min(met)
        h == NumberOf(hour(first))
        minutes == SubSeq(rest(first), 2, 1 + AtMost(SubSeq(rest(first), 2, 1 + RunOf(Onward(rest(first), 2), Digits)), 2))
        after == Onward(rest(first), 2 + Len(minutes))
        half == CharAt(after, RunOf(after, {" "}) + 1)
        of24 == IF half = "p" /\ h < 12 THEN h + 12 ELSE IF half = "a" /\ h = 12 THEN 0 ELSE h
    IN IF met = {} THEN -1
       ELSE IF h > 23 \/ NumberOf(minutes) > 59 THEN -1
       ELSE of24 * 60 + NumberOf(minutes)

MinutesLeft(arrive, now) == LET left == (arrive - now) % 1440 IN IF left > 720 THEN 0 ELSE left
FormatEta(eta, c) ==
    LET arrive == ParseArrivalMinute(eta)
        now == LocalMinuteOfDay(c)
    IN IF arrive = -1 THEN [is |-> "text", text |-> eta]
       ELSE IF ~c.left \/ now = -1 THEN [is |-> "time", at |-> FormatHhmm(arrive, c.twelve)]
       ELSE [is |-> "left", minutes |-> MinutesLeft(arrive, now)]

\* view_state_tick, of these two.
TickLabels ==
    /\ model # Absent /\ labels = Absent
    /\ labels' = [clock |-> IF LocalMinuteOfDay(guide.clock) = -1 THEN Absent
                            ELSE FormatHhmm(LocalMinuteOfDay(guide.clock), guide.clock.twelve),
                  eta |-> FormatEta(model.eta, guide.clock)]
    /\ UNCHANGED <<guide, raw, model>>

GuideNext == RelayIfNav \/ OnNotification \/ NormalizeNext \/ TickLabels

-----------------------------------------------------------------------------
(* What a rider should be shown of it.                                      *)

\* The picture speaks where the words do not.
IconMeant(g) ==
    IF g.via = "android" /\ g.angle # Absent /\ \E d \in -3..3 : (g.angle + d) % 360 = g.saying.angle
    THEN g.saying.means ELSE g.saying.bare

\* What of the street is within the title: its name, but the number before it
\* when no more of the name is left than could be a number's.
WordsTold(g) ==
    LET room == TitleSize - 1 - Len(g.saying.text)
        rest == IF g.street.first THEN room - Len(g.street.route) - 1 ELSE room
        name == Trim(Fitted(Joined(g.street.words), rest + 1))
    IN WordsOf(IF g.street.first /\ (name = "" \/ IsRouteName(name)) THEN g.street.route ELSE name)

\* Its last word if that is a kind of street, a word cut short not, unless it
\* reads as one's abbreviation, and as many whole words before it as there is
\* room for.
StreetMeant(g) ==
    LET said == WordsTold(g)
        words == [i \in DOMAIN said |->
                    IF i > 1 /\ said[i] \in DOMAIN kStreetAbbrevs THEN kStreetAbbrevs[said[i]] ELSE said[i]]
        last == Len(words)
        typed == last > 1 /\ words[last] \in {kStreetAbbrevs[w] : w \in DOMAIN kStreetAbbrevs}
        kind == IF typed THEN <<words[last]>> ELSE <<>>
        names(n) == Joined(SubSeq(words, 1, n) \o kind)
        fit == {n \in 1..(IF typed THEN last - 1 ELSE last) : Len(names(n)) <= 18}
    IN IF ~g.saying.named THEN ""
       ELSE IF fit # {} THEN names(Max(fit))
       ELSE Joined(<<SubSeq(words[1], 1, 18 - (IF typed THEN Len(kind[1]) + 1 ELSE 0))>> \o kind)

\* The colours of the eight first stretches, a stretch of less than a thousandth
\* of the way, and what is after it, left out.
TrafficMeant(route) ==
    LET ends == SegmentEnds(route)
        colors == [i \in DOMAIN ends |-> SelectSeq(route, LAMBDA s : s.length > 0)[i].color]
        seen == {n \in 0..Len(ends) : \A i \in 1..n : ends[i].end > (IF i = 1 THEN 0 ELSE ends[i - 1].end)}
    IN [i \in 1..Max(seen) |-> Level(colors[i])]

\* A clock's face at a minute of the day.
Reads(at, minute, twelve) ==
    /\ (60 * at.hour + at.minute - minute) % (IF twelve THEN 720 ELSE 1440) = 0
    /\ at.hour \in IF twelve THEN 1..12 ELSE 0..23
\* The minutes to an arrival within half a day, none to one just missed; its
\* time when that is asked for or the time is not known; or what was said.
EtaMeant(label, g) ==
    LET known == Absent \notin {g.clock.utc, g.clock.zone}
        now == g.clock.utc + g.clock.zone + g.clock.since
    IN CASE g.time.minute = -1 -> label = [is |-> "text", text |-> g.time.shown]
         [] g.time.minute # -1 /\ g.clock.left /\ known ->
              /\ label.is = "left" /\ label.minutes \in 0..720
              /\ \/ (now + label.minutes - g.time.minute) % 1440 = 0
                 \/ label.minutes = 0 /\ (now - g.time.minute) % 1440 < 720
         [] OTHER -> label.is = "time" /\ Reads(label.at, g.time.minute, g.clock.twelve)

Tells(g) ==
    IF g.via = "android"
    THEN g.app = "google maps" /\ ~(g.saying.text = "" /\ g.distance.text = "" /\ g.progress = Absent)
    ELSE ~g.removed /\ g.category \notin CallCategories /\ <<Title(g), g.distance.text, g.time.text>> # <<"", "", "">>

\* Whatever the street is called, the arrow is the instruction's; the distance is
\* in metres or not known; the road's name as far as the title has it, not its number,
\* is shown, its kind last, cut between words; the arrival time loses the words around it; what is left of
\* the way is known when both counts are sound; the traffic's spans have Maps'
\* levels, one after the other; and a call never reaches the pages this way.  The
\* clock is the phone's, and the arrival is the time it was given as, or how far
\* off that is, past midnight too.  The side of a destination is shown as a street
\* too, feet as a time, and a word after the time is read by its first letter.
Understood ==
    /\ raw # Absent => (raw # Ignored <=> Tells(guide))
    /\ model # Absent =>
         /\ model.icon = IconMeant(guide)
         /\ model.distance = guide.distance.metres
         /\ model.street = StreetMeant(guide) \/ guide.saying \in Sided
         /\ model.eta = guide.time.shown \/ (guide.distance.metres = -1 /\ model.eta = guide.distance.text)
         /\ model.remaining =
                IF guide.via = "android" /\ Absent \notin {guide.progress, guide.max} /\ guide.progress < guide.max + 1 /\ guide.max > 0
                THEN guide.max - guide.progress ELSE -1
         /\ (model.remaining = -1) <=> (model.progress = Absent)
         /\ [i \in DOMAIN model.traffic |-> model.traffic[i].level] =
                IF guide.via = "android" THEN TrafficMeant(guide.route) ELSE <<>>
         /\ \A i \in 2..Len(model.traffic) : model.traffic[i].start = model.traffic[i - 1].end
    /\ labels # Absent =>
         /\ IF Absent \in {guide.clock.utc, guide.clock.zone} THEN labels.clock = Absent
            ELSE Reads(labels.clock, guide.clock.utc + guide.clock.zone + guide.clock.since, guide.clock.twelve)
         /\ \/ EtaMeant(labels.eta, guide) \/ guide.time.text = "12:45 at home"
            \/ guide.distance.metres = -1 /\ labels.eta = [is |-> "text", text |-> guide.distance.text]
=============================================================================
