----------------------------- MODULE Normalize ------------------------------
(***************************************************************************)
(* The normalizer, normalize.c: from the words of a navigation notification *)
(* to what the pages show of it, for both kinds of phone.                   *)
(*                                                                          *)
(* Texts are strings in lower case, "_" being the no-break space Maps puts  *)
(* before a unit; the empty string also stands for an absent text.          *)
(***************************************************************************)
EXTENDS Integers, Sequences, FiniteSetsExt

CONSTANT Absent    \* no number, no route, nothing read

-----------------------------------------------------------------------------
(* Texts.                                                                   *)

AtMost(s, n) == IF Len(s) < n THEN Len(s) ELSE n
Onward(s, i) == SubSeq(s, i, Len(s))
CharAt(s, i) == IF i \in 1..Len(s) THEN SubSeq(s, i, i) ELSE ""
\* strstr: where a text occurs in another.
Occurs(s, t) == {i \in 1..(Len(s) - Len(t) + 1) : SubSeq(s, i, i + Len(t) - 1) = t}
Has(s, t) == Occurs(s, t) # {}
HasAny(s, ts) == \E t \in ts : Has(s, t)
Until(s, t) == IF Has(s, t) THEN SubSeq(s, 1, Min(Occurs(s, t)) - 1) ELSE s
Past(s, t) == Onward(s, Min(Occurs(s, t)) + Len(t))
\* The end of the longest beginning made of these characters.
RunOf(s, chars) == Max({n \in 0..Len(s) : \A i \in 1..n : CharAt(s, i) \in chars})
Digits == {"0", "1", "2", "3", "4", "5", "6", "7", "8", "9"}
NumberOf(s) ==
    LET value[n \in 0..Len(s)] ==
            IF n = 0 THEN 0
            ELSE 10 * value[n - 1] + (Min(Occurs("0123456789", CharAt(s, n))) - 1)
    IN value[Len(s)]
WordsOf(s) ==
    LET from[i \in 1..(Len(s) + 1)] ==
            IF i > Len(s) THEN <<>>
            ELSE IF CharAt(s, i) = " " THEN from[i + 1]
            ELSE LET word == Until(Onward(s, i), " ") IN <<word>> \o from[i + Len(word)]
    IN from[1]
Joined(words) ==
    LET text[n \in 0..Len(words)] ==
            IF n = 0 THEN "" ELSE IF n = 1 THEN words[1] ELSE text[n - 1] \o " " \o words[n]
    IN text[Len(words)]
Trim(s) == Joined(WordsOf(s))

-----------------------------------------------------------------------------
(* The maneuver.                                                            *)

\* The answer of the first rule one of whose keywords the text has.
Ruled(s, rules, otherwise) ==
    LET met == {k \in DOMAIN rules : HasAny(s, rules[k][1])}
    IN IF met = {} THEN otherwise ELSE rules[Min(met)][2]

ArrivalRules == <<
    <<{"arrived", "reached"}, "arrived">>,
    <<{"on the left", "on your left"}, "turn_left">>,
    <<{"on the right", "on your right"}, "turn_right">> >>
RoundaboutRules == <<
    <<{"straight"}, "roundabout_straight">>,
    <<{"left"}, "roundabout_left">>,
    <<{"right"}, "roundabout_right">> >>
SlightRules == <<
    <<{"sharp right"}, "sharp_right">>,
    <<{"sharp left"}, "sharp_left">>,
    <<{"slight right", "slightly right", "keep right", "exit right", "fork right", "merge right",
       "ramp on the right"}, "slight_right">>,
    <<{"slight left", "slightly left", "keep left", "exit left", "fork left", "merge left",
       "ramp on the left"}, "slight_left">> >>
LaneRules == << <<{"right"}, "slight_right">>, <<{"left"}, "slight_left">> >>
TurnRules == <<
    <<{"right"}, "turn_right">>,
    <<{"left"}, "turn_left">>,
    <<{"straight", "continue", "head ", "depart", "merge"}, "straight">> >>

\* Were the street's name read too.
WholeTitle(title) == title
\* Without the street, where a separator tells it.
ManeuverClause(title) == IF Has(title, " onto ") THEN Until(title, " onto ") ELSE Until(title, " on ")

DeriveManeuver(title) ==
    LET clause == ManeuverClause(title)
        lanes == Has(clause, "lane") /\ HasAny(clause, {"exit", "ramp"})
    IN IF HasAny(title, {"arrived", "reached", "arriv", "destination"})
       THEN Ruled(title, ArrivalRules, "destination")
       ELSE IF HasAny(clause, {"u-turn", "u turn"}) THEN "u_turn"
       ELSE IF Has(clause, "roundabout") THEN Ruled(clause, RoundaboutRules, "unknown")
       ELSE Ruled(clause, SlightRules \o (IF lanes THEN LaneRules ELSE <<>>) \o TurnRules, "unknown")

\* The icon's angle, as the phone measures it, names the picture.
Glyphs == {<<0, "straight">>, <<113, "turn_left">>, <<133, "destination">>, <<181, "straight">>,
           <<247, "turn_right">>, <<283, "sharp_right">>, <<325, "slight_left">>}
RoundaboutGlyphs == {<<169, "roundabout_straight">>, <<87, "roundabout_right">>,
                     <<208, "roundabout_right">>, <<135, "roundabout_left">>}

AngleSeparation(a, b) == LET d == (a - b) % 360 IN IF d > 180 THEN 360 - d ELSE d
GlyphLookup(table, angle, fallback) ==
    LET near == {g \in table : AngleSeparation(angle, g[1]) <= 3}
    IN IF near = {} THEN fallback
       ELSE (CHOOSE g \in near :
                \A h \in near : AngleSeparation(angle, g[1]) <= AngleSeparation(angle, h[1]))[2]

ManeuverIcon(r) ==
    LET text == DeriveManeuver(r.title)
    IN IF Has(r.title, "roundabout")
       THEN IF text \in {"roundabout_left", "roundabout_right", "roundabout_straight"} THEN text
            ELSE IF r.icon = Absent THEN "roundabout_straight"
            ELSE GlyphLookup(RoundaboutGlyphs, r.icon, "roundabout_straight")
       ELSE IF text # "unknown" THEN text
       ELSE IF r.icon = Absent THEN "unknown"
       ELSE GlyphLookup(Glyphs, r.icon, "unknown")

-----------------------------------------------------------------------------
(* The street.                                                              *)

kStreetAbbrevs == [street |-> "st", road |-> "rd", avenue |-> "ave", lane |-> "ln", drive |-> "dr",
    court |-> "ct", place |-> "pl", boulevard |-> "blvd", highway |-> "hwy", parade |-> "pde",
    crescent |-> "cres", terrace |-> "tce", circuit |-> "cct", close |-> "cl", grove |-> "gr",
    square |-> "sq", esplanade |-> "esp", parkway |-> "pkwy", freeway |-> "fwy", motorway |-> "mwy",
    expressway |-> "expy", circle |-> "cir", mount |-> "mt", north |-> "n", south |-> "s", east |-> "e",
    west |-> "w"]

ExtractStreet(title) ==
    IF Has(title, "onto ") THEN Past(title, "onto ")
    ELSE IF Has(title, " on ") THEN Past(title, " on ")
    ELSE ""

Alphabet == {"a", "b", "c", "d", "e", "f", "g", "h", "i", "j", "k", "l", "m", "n", "o", "p", "q", "r",
            "s", "t", "u", "v", "w", "x", "y", "z"}
CountOf(s, chars) == Cardinality({i \in 1..Len(s) : CharAt(s, i) \in chars})
Starts(s, t) == 1 \in Occurs(s, t)
IsRouteName(s) ==
    \/ \E t \in {"state highway", "route ", "highway ", "hwy "} : Starts(s, t)
    \/ CountOf(s, Digits) > 0 /\ CountOf(s, Alphabet) <= 3

\* Of two names joined by a slash, the one that is not a route's number.
PickStreetName(s) ==
    IF ~Has(s, "/") THEN s
    ELSE LET first  == Trim(Until(s, "/"))
             second == Trim(Until(Past(s, "/"), "/"))
             keep   == IF IsRouteName(first) /\ ~IsRouteName(second) THEN second ELSE first
         IN IF keep # "" THEN keep ELSE IF keep = first THEN second ELSE first

AbbreviateStreet(s) ==
    LET words == WordsOf(s)
    IN Joined([i \in DOMAIN words |-> IF i > 1 /\ words[i] \in DOMAIN kStreetAbbrevs
                                      THEN kStreetAbbrevs[words[i]] ELSE words[i]])
       \o (IF CharAt(s, Len(s)) = " " THEN " " ELSE "")

\* 18 characters: the kind of street stays, whole words go before letters do.
TruncateStreet(s) ==
    IF Len(s) <= 18 THEN s
    ELSE LET words  == WordsOf(s)
             typed  == /\ Len(words) > 1 /\ CharAt(s, Len(s)) # " "
                       /\ words[Len(words)] \in {kStreetAbbrevs[w] : w \in DOMAIN kStreetAbbrevs}
             suffix == IF typed THEN " " \o words[Len(words)] ELSE ""
             body   == SubSeq(s, 1, Len(s) - Len(suffix))
             room   == 18 - Len(suffix)
             cut    == SubSeq(body, 1, room)
             split  == CharAt(body, room + 1) # " "
         IN IF split /\ Has(cut, " ") THEN Trim(SubSeq(cut, 1, Max(Occurs(cut, " ")) - 1)) \o suffix
            ELSE Trim(cut) \o suffix

-----------------------------------------------------------------------------
(* Distances, times, traffic.                                               *)

Separators == {" ", "_"}
\* -1 for what does not begin with a number.
ParseDistanceMetres(text) ==
    LET s     == Onward(text, RunOf(text, {" "}) + 1)
        whole == RunOf(s, Digits)
        point == CharAt(s, whole + 1) \in {".", ","}
        fraction == IF point THEN Onward(s, whole + 2) ELSE ""
        read  == AtMost(SubSeq(fraction, 1, RunOf(fraction, Digits)), 3)
        milli == NumberOf(SubSeq(fraction, 1, read)) * (10 ^ (3 - read))
        rest  == IF point THEN Onward(fraction, read + 1) ELSE Onward(s, whole + 1)
        unit  == Onward(rest, RunOf(rest, Separators) + 1)
    IN IF whole = 0 THEN -1
       ELSE IF Starts(unit, "k") THEN 1000 * NumberOf(SubSeq(s, 1, whole)) + milli
       ELSE NumberOf(SubSeq(s, 1, whole))

\* Every arrival word goes, and an "at" right after one.
ShortenEta(s) ==
    LET words == WordsOf(s)
        arrive(i) == i \in DOMAIN words /\ Starts(words[i], "arriv")
        kept[i \in 1..(Len(words) + 1)] ==
            IF i > Len(words) THEN <<>>
            ELSE IF arrive(i) \/ (arrive(i - 1) /\ words[i] = "at") THEN kept[i + 1]
            ELSE <<words[i]>> \o kept[i + 1]
    IN IF \E i \in DOMAIN words : arrive(i) THEN Joined(kept[1]) ELSE s

\* C's division.
Quotient(a, b) == IF a < 0 THEN 0 - ((0 - a) \div b) ELSE a \div b
TrafficColor(r, g, b) ==
    LET top == Max({r, g, b})
        chroma == top - Min({r, g, b})
        hue == IF top = r THEN (Quotient(60 * (g - b), chroma) + 360) % 360
               ELSE IF top = g THEN Quotient(60 * (b - r), chroma) + 120
               ELSE Quotient(60 * (r - g), chroma) + 240
    IN IF top < 48 \/ chroma * 4 < top THEN "unknown"
       ELSE IF hue \in 80..279 THEN "free"
       ELSE IF hue \in 18..79 THEN "slow"
       ELSE IF hue \in 280..329 THEN "unknown"
       ELSE IF top >= 192 THEN "heavy" ELSE "stopped"

\* Spans one after the other, up to the first that does not come after the last.
Traffic(segments) ==
    LET start(i) == IF i = 1 THEN 0 ELSE segments[i - 1].end
        sound == Max({n \in 0..Len(segments) :
                        \A i \in 1..n : segments[i].end > start(i) /\ segments[i].end <= 1000})
    IN [i \in 1..sound |-> [start |-> start(i), end |-> segments[i].end,
            level |-> TrafficColor(segments[i].rgb[1], segments[i].rgb[2], segments[i].rgb[3])]]

NormalizePacket(r) ==
    LET distance == ParseDistanceMetres(r.distance)
        ordered == r.progress # Absent /\ r.max # Absent /\ r.max > 0 /\ r.progress <= r.max
    IN [icon |-> ManeuverIcon(r),
        distance |-> IF distance >= 0 THEN distance ELSE ParseDistanceMetres(r.title),
        remaining |-> IF ordered THEN r.max - r.progress ELSE -1,
        progress |-> IF ordered THEN (r.progress * 1000) \div r.max ELSE Absent,
        traffic |-> Traffic(r.segments),
        street |-> TruncateStreet(AbbreviateStreet(PickStreetName(ExtractStreet(r.title)))),
        eta |-> ShortenEta(r.eta)]
=============================================================================
