---------------------------- MODULE MCDriveLoop ----------------------------
(***************************************************************************)
(* Frames that differ in all that loop() tells apart: both pilot modes and *)
(* none, headless on and off, every speed switch range, sticks aslant and  *)
(* turned.  From where it starts, the robot turns to one of three other    *)
(* headings, and from then on between these: two are two degrees apart,    *)
(* and the third is so far from both that the short way from the one is    *)
(* over the seam, and from the other it is not.                            *)
(***************************************************************************)
EXTENDS DriveLoop

\* Angles are given in degrees where that is possible.
Degrees(S) == {d * DEGREE : d \in S}

\* The sines of 0 to 90 degrees.
Table ==
  << 0, 175, 349, 523, 698, 872, 1045, 1219, 1392, 1564, 1736, 1908, 2079,
     2250, 2419, 2588, 2756, 2924, 3090, 3256, 3420, 3584, 3746, 3907, 4067,
     4226, 4384, 4540, 4695, 4848, 5000, 5150, 5299, 5446, 5592, 5736, 5878,
     6018, 6157, 6293, 6428, 6561, 6691, 6820, 6947, 7071, 7193, 7314, 7431,
     7547, 7660, 7771, 7880, 7986, 8090, 8192, 8290, 8387, 8480, 8572, 8660,
     8746, 8829, 8910, 8988, 9063, 9135, 9205, 9272, 9336, 9397, 9455, 9511,
     9563, 9613, 9659, 9703, 9744, 9781, 9816, 9848, 9877, 9903, 9925, 9945,
     9962, 9976, 9986, 9994, 9998, 10000 >>

\* The sine of 0 to 90 degrees, between two entries in proportion.
Rising(a) ==
  LET d == a \div DEGREE
      k == a % DEGREE
  IN  IF k = 0 THEN Table[d + 1]
      ELSE (Table[d + 1] * (DEGREE - k) + Table[d + 2] * k) \div DEGREE

MCSine ==
  LET Half(a) == IF a <= 90 * DEGREE THEN Rising(a) ELSE Rising(180 * DEGREE - a)
  IN  [a \in 0 .. CIRCLE - 1 |->
         IF a <= 180 * DEGREE THEN Half(a) ELSE -Half(a - 180 * DEGREE)]

TurnedTo == Degrees({-62, -60, 119})
MCHeadings == {0} \cup TurnedTo
MCRates == TurnedTo \cup {Wrapped(a - b) : a, b \in TurnedTo}

Frame(s0, s1, s2, s3, pilot, headless, switch) ==
  [c \in 0 .. 15 |->
     CASE c = 0 -> s0 [] c = 1 -> s1 [] c = 2 -> s2 [] c = 3 -> s3
       [] c = 5 -> pilot [] c = 7 -> headless [] c \in {10, 11} -> switch
       [] OTHER -> 1500]

MCRcInputs ==
  { Frame(1200, 2000, 1500, 1500, 1500, 1000, 1000),  \* aslant, headless
    Frame(1500, 1500, 1500, 1000, 1500, 1000, 1900),  \* turn left, headless
    Frame(1000, 1500, 1800, 2000, 1000, 2000, 1500),  \* turn, forward, aside
    Frame(1500, 1500, 1500, 1500, 2000, 1000, 1700) } \* no mode

=============================================================================
