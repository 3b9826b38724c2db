------------------------------ MODULE TimeText ------------------------------
(***************************************************************************)
(* The store keeps every timestamp (expires_at, queued_at, updated_at, ...) *)
(* as TEXT in the layout time.RFC3339Nano, and the SQL compares the texts.  *)
(* RFC3339Nano drops the trailing zeros of the fraction, and the dot with   *)
(* them when nothing is left, so the text order is not the time order:      *)
(* "...:05Z" sorts after "...:05.5Z" because '.' < 'Z'.                     *)
(*                                                                          *)
(* A time is a number of ticks.  TicksPerSecond divides 10, so that the     *)
(* fraction of a second takes at most one digit.                            *)
(***************************************************************************)
EXTENDS Integers

CONSTANT TicksPerSecond

ASSUME TicksPerSecondAssumption == TicksPerSecond \in Nat \ {0}

Second(t) == t \div TicksPerSecond

Fraction(t) == t % TicksPerSecond

\* The place of a time's text among the texts of the same second: the whole
\* second, whose text has no fraction, comes last.
RankInSecond(t) == IF Fraction(t) = 0 THEN TicksPerSecond ELSE Fraction(t)

\* The SQL comparison  text(s) < text(t).
TextLess(s, t) ==
  \/ Second(s) < Second(t)
  \/ Second(s) = Second(t) /\ RankInSecond(s) < RankInSecond(t)

\* What the comparisons were written for: the time order.
TimeLess(s, t) == s < t
-----------------------------------------------------------------------------
(* Times that keep the zone their sender gave them.  The text is that of    *)
(* the sender's wall clock, followed by the zone: "Z", or "+02:00", or      *)
(* "-05:00".                                                                *)

\* at: the instant; zone: what the wall clock is ahead of UTC by, in ticks.
Zoned == [at : Int, zone : Int]

Wall(z) == z.at + z.zone

\* '+' < '-' < '.' < the digits < 'Z': a whole second comes last among the
\* texts of its second in UTC, and first in any other zone.
RankOfZoned(z) ==
  IF Fraction(Wall(z)) = 0 /\ z.zone # 0 THEN 0 ELSE RankInSecond(Wall(z))

\* The order of the zones' texts: "+01:00", "+02:00", "-01:00", "-02:00", "Z".
ZoneLess(y, z) ==
  \/ y > 0 /\ (z <= 0 \/ y < z)
  \/ y < 0 /\ (z = 0 \/ (z < 0 /\ z < y))

ZonedTextLess(y, z) ==
  \/ Second(Wall(y)) < Second(Wall(z))
  \/ /\ Second(Wall(y)) = Second(Wall(z))
     /\ \/ RankOfZoned(y) < RankOfZoned(z)
        \/ RankOfZoned(y) = RankOfZoned(z) /\ ZoneLess(y.zone, z.zone)
=============================================================================
