--------------------------- MODULE TimeTextProofs ---------------------------
(***************************************************************************)
(* What the order of the texts says of the times, for every TicksPerSecond. *)
(***************************************************************************)
EXTENDS TimeText, NaturalsInduction, WellFoundedInduction, TLAPS

USE TicksPerSecondAssumption
-----------------------------------------------------------------------------
\* An earlier second, or the same, is earlier by the clock, up to a second.
LEMMA TextClose ==
  ASSUME NEW s \in Int, NEW t \in Int, Second(s) <= Second(t)
  PROVE  s < t + TicksPerSecond
<1>1. TicksPerSecond \in Int /\ TicksPerSecond > 0
  OBVIOUS
<1>2. /\ s = TicksPerSecond * (s \div TicksPerSecond) + (s % TicksPerSecond)
      /\ t = TicksPerSecond * (t \div TicksPerSecond) + (t % TicksPerSecond)
      /\ s % TicksPerSecond \in 0 .. TicksPerSecond - 1
      /\ t % TicksPerSecond \in 0 .. TicksPerSecond - 1
      /\ s \div TicksPerSecond \in Int /\ t \div TicksPerSecond \in Int
  BY <1>1
<1>3. TicksPerSecond * (s \div TicksPerSecond) <= TicksPerSecond * (t \div TicksPerSecond)
  BY <1>1, <1>2 DEF Second
<1>4. QED  BY <1>1, <1>2, <1>3

LEMMA TextLessClose ==
  ASSUME NEW s \in Int, NEW t \in Int
  PROVE  /\ TextLess(s, t) => s < t + TicksPerSecond
         /\ ~TextLess(s, t) => t < s + TicksPerSecond
<1>1. Second(s) \in Int /\ Second(t) \in Int
  BY DEF Second
<1>2. TextLess(s, t) => Second(s) <= Second(t)
  BY <1>1 DEF TextLess
<1>3. ~TextLess(s, t) => Second(t) <= Second(s)
  BY <1>1 DEF TextLess
<1>4. QED  BY <1>2, <1>3, TextClose
-----------------------------------------------------------------------------
\* Every set of naturals that is not empty has a least element.
LEMMA LeastNat ==
  ASSUME NEW T, T \subseteq Nat, T # {}
  PROVE  \E m \in T : \A n \in T : m <= n
<1>1. PICK m \in T : \A n \in T : <<n, m>> \notin OpToRel(<, Nat)
  BY NatLessThanWellFounded, WFMin, Zenon
<1>2. \A n \in T : ~ (n < m)
  BY <1>1 DEF OpToRel
<1> QED
  BY <1>2

\* So has its image under a function to the naturals.
LEMMA LeastImage ==
  ASSUME NEW T, T # {}, NEW f, \A x \in T : f[x] \in Nat
  PROVE  \E m \in T : \A x \in T : f[m] <= f[x]
<1> DEFINE image == {f[x] : x \in T}
<1>1. image \subseteq Nat /\ image # {}
  OBVIOUS
<1>2. PICK n \in image : \A k \in image : n <= k
  BY <1>1, LeastNat
<1> QED
  BY <1>2

\* Of times (since the epoch) one has the first text: ORDER BY ... LIMIT 1
\* finds a row if there is one.
LEMMA FirstText ==
  ASSUME NEW T, T # {}, NEW at, \A x \in T : at[x] \in Nat
  PROVE  \E m \in T : \A x \in T : ~TextLess(at[x], at[m])
<1> DEFINE second == [x \in T |-> Second(at[x])]
           rank == [x \in T |-> RankInSecond(at[x])]
<1>1. \A x \in T : second[x] \in Nat /\ rank[x] \in Nat
  <2> SUFFICES ASSUME NEW x \in T PROVE second[x] \in Nat /\ rank[x] \in Nat
    OBVIOUS
  <2>1. TicksPerSecond \in Int /\ TicksPerSecond > 0 /\ at[x] \in Nat
    OBVIOUS
  <2>2. at[x] \div TicksPerSecond \in Nat /\ at[x] % TicksPerSecond \in Nat
    BY <2>1
  <2>3. QED  BY <2>2 DEF Second, RankInSecond, Fraction
<1>2. PICK s \in T : \A x \in T : second[s] <= second[x]
  BY <1>1, LeastImage
<1> DEFINE U == {x \in T : second[x] = second[s]}
<1>3. PICK m \in U : \A x \in U : rank[m] <= rank[x]
  <2> HIDE DEF second, rank
  <2>1. U # {} /\ \A x \in U : rank[x] \in Nat
    BY <1>1
  <2>2. QED  BY <2>1, LeastImage
<1>4. ASSUME NEW x \in T PROVE ~TextLess(at[x], at[m])
  <2>1. second[m] <= second[x] /\ (second[x] = second[m] => rank[m] <= rank[x])
    BY <1>2, <1>3
  <2>2. QED  BY <1>1, <2>1 DEF TextLess
<1> QED
  BY <1>3, <1>4
-----------------------------------------------------------------------------
\* Times of all zones: the text order (ListCapturedSessions' filter and order)
\* is as wrong as the wall clocks of the zones are apart, and a second.
THEOREM ZonedTextClose ==
  ASSUME NEW y \in Zoned, NEW z \in Zoned
  PROVE  /\ ZonedTextLess(y, z) => y.at + y.zone < z.at + z.zone + TicksPerSecond
         /\ ~ZonedTextLess(y, z) => z.at + z.zone < y.at + y.zone + TicksPerSecond
<1>1. /\ Wall(y) = y.at + y.zone /\ Wall(z) = z.at + z.zone
      /\ Wall(y) \in Int /\ Wall(z) \in Int
  BY DEF Wall, Zoned
<1>2. Second(Wall(y)) \in Int /\ Second(Wall(z)) \in Int
  BY <1>1 DEF Second
<1>3. ZonedTextLess(y, z) => Second(Wall(y)) <= Second(Wall(z))
  BY <1>2 DEF ZonedTextLess
<1>4. ~ZonedTextLess(y, z) => Second(Wall(z)) <= Second(Wall(y))
  BY <1>2 DEF ZonedTextLess
<1> QED
  BY <1>1, <1>3, <1>4, TextClose

\* In UTC, where the store's own timestamps are, the order of zoned texts is
\* the order of TextLess.
THEOREM UTCText ==
  ASSUME NEW y \in Zoned, NEW z \in Zoned, y.zone = 0, z.zone = 0
  PROVE  ZonedTextLess(y, z) <=> TextLess(y.at, z.at)
<1>1. Wall(y) = y.at /\ Wall(z) = z.at
  BY DEF Wall, Zoned
<1>2. ~ZoneLess(0, 0)
  BY DEF ZoneLess
<1> QED
  BY <1>1, <1>2 DEF ZonedTextLess, TextLess, RankOfZoned
=============================================================================
