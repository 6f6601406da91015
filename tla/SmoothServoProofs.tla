--------------------------- MODULE SmoothServoProofs ---------------------------
(***************************************************************************)
(* Proofs about SmoothServo, for every range of widths, every speed and    *)
(* every sequence of targets.  The curve of a move grows from 0 to 1, and  *)
(* rounding keeps the order of what it rounds; so along a move, whose      *)
(* start and target are fixed and whose time grows, the widths are in      *)
(* order.  What has to be known is that the width is always the one at     *)
(* time t of the move the thread remembers.                                *)
(***************************************************************************)
EXTENDS SmoothServo, TLAPS

-------------------------------------------------------------------------------
(* Rounding.                                                               *)

\* Products of naturals grow with their factors.
LEMMA ProductGrows ==
  ASSUME NEW c \in Nat, NEW x \in Int, NEW y \in Int, x <= y
  PROVE  c * x <= c * y
OBVIOUS

\* A positive factor can be taken away.
LEMMA FactorGoes ==
  ASSUME NEW c \in Nat \ {0}, NEW x \in Int, NEW y \in Int, c * x < c * y
  PROVE  x < y
<1> SUFFICES ASSUME y <= x PROVE FALSE
  OBVIOUS
<1>1. c * y <= c * x
  BY ProductGrows
<1> QED
  BY <1>1

\* What \div returns.
LEMMA QuotientIs ==
  ASSUME NEW p \in Int, NEW q \in Nat \ {0}
  PROVE  /\ p \div q \in Int
         /\ q * (p \div q) <= p /\ p < q * (p \div q) + q
OBVIOUS

\* Rounding keeps the order.
LEMMA RoundedGrows ==
  ASSUME NEW p1 \in Int, NEW p2 \in Int, p1 <= p2, NEW q \in Nat \ {0}
  PROVE  Rounded(p1, q) \in Int /\ Rounded(p2, q) \in Int /\ Rounded(p1, q) <= Rounded(p2, q)
<1> DEFINE c == 2 * q
           x == (2 * p1 + q) \div c
           y == (2 * p2 + q) \div c
<1>1. c \in Nat \ {0} /\ 2 * p1 + q \in Int /\ 2 * p2 + q \in Int /\ 2 * p1 + q <= 2 * p2 + q
  OBVIOUS
<1> HIDE DEF c
<1>2. /\ x \in Int /\ c * x <= 2 * p1 + q
      /\ y \in Int /\ 2 * p2 + q < c * y + c
  BY <1>1, QuotientIs
<1>3. Rounded(p1, q) = x /\ Rounded(p2, q) = y
  BY DEF Rounded, c
<1> HIDE DEF x, y
<1>4. c * x < c * (y + 1)
  <2>1. c * (y + 1) = c * y + c /\ c * x \in Int /\ c * y \in Int
    BY <1>1, <1>2
  <2> QED
    BY <1>1, <1>2, <2>1
<1>5. x < y + 1
  BY <1>1, <1>2, <1>4, FactorGoes
<1> QED
  BY <1>2, <1>3, <1>5

\* A whole number is rounded to itself.
LEMMA RoundedWhole ==
  ASSUME NEW w \in Int, NEW q \in Nat \ {0}
  PROVE  Rounded(w * q, q) = w
<1> DEFINE c == 2 * q
           x == (2 * (w * q) + q) \div c
<1>1. c \in Nat \ {0} /\ 2 * (w * q) + q \in Int /\ 2 * (w * q) = c * w
  OBVIOUS
<1>2. q \in Nat /\ q > 0 /\ c = q + q
  OBVIOUS
<1> HIDE DEF c
<1>3. x \in Int /\ c * x <= c * w + q /\ c * w + q < c * x + c
  BY <1>1, QuotientIs
<1>4. Rounded(w * q, q) = x
  BY DEF Rounded, c
<1> HIDE DEF x
<1>5. c * x \in Int /\ c * w \in Int /\ c * (x + 1) = c * x + c /\ c * (w + 1) = c * w + c
  BY <1>1, <1>3
<1>6. c * w < c * (x + 1) /\ c * x < c * (w + 1)
  BY <1>1, <1>2, <1>3, <1>5
<1>7. w < x + 1 /\ x < w + 1
  BY <1>1, <1>3, <1>6, FactorGoes
<1> QED
  BY <1>3, <1>4, <1>7

-------------------------------------------------------------------------------
(* The curve of a move.                                                    *)

Height(n, d) == 3 * n * n * d - 2 * n * n * n

\* It grows, from 0 at the start to d^3 at the end.
LEMMA CurveGrows ==
  ASSUME NEW d \in Nat, NEW m \in Nat, NEW n \in Nat, m <= n, n <= d
  PROVE  /\ Height(m, d) \in Int /\ Height(n, d) \in Int
         /\ Height(m, d) <= Height(n, d)
<1>1. Height(n, d) - Height(m, d) = (n - m) * (3 * (d * (m + n)) - 2 * (m * m + m * n + n * n))
  BY DEF Height
<1>2. 3 * (d * (m + n)) - 2 * (m * m + m * n + n * n) \in Nat
  <2>1. (m + n) * n <= (m + n) * d
    BY ProductGrows
  <2>2. m * m <= m * n /\ n * m <= n * n
    BY ProductGrows
  <2>3. /\ (m + n) * n = m * n + n * n /\ (m + n) * d = d * (m + n) /\ n * m = m * n
        /\ m * m \in Int /\ m * n \in Int /\ n * n \in Int /\ d * (m + n) \in Int
    OBVIOUS
  <2> QED
    BY <2>1, <2>2, <2>3
<1>3. \A a, b \in Nat : a * b \in Nat
  OBVIOUS
<1>4. n - m \in Nat
  OBVIOUS
<1>5. Height(n, d) - Height(m, d) \in Nat
  BY <1>1, <1>2, <1>3, <1>4
<1>6. Height(n, d) \in Int /\ Height(m, d) \in Int
  BY DEF Height
<1> QED
  BY <1>5, <1>6

\* So it stays between them.
LEMMA CurveEnds ==
  ASSUME NEW d \in Nat, NEW n \in Nat, n <= d
  PROVE  Height(0, d) = 0 /\ 0 <= Height(n, d) /\ Height(n, d) <= d * d * d
<1>1. Height(0, d) = 0 /\ Height(d, d) = d * d * d
  BY DEF Height
<1>2. Height(0, d) <= Height(n, d) /\ Height(n, d) <= Height(d, d)
  BY CurveGrows
<1> QED
  BY <1>1, <1>2

-------------------------------------------------------------------------------
(* Where a move is at a time.                                              *)

Duration(from, to) == T_MAX * Abs(to - from)
Elapsed(time) == time * (max_width - min_width)
Cube(d) == d * d * d
Sum(from, to, n, d) == from * Cube(d) + (to - from) * Height(n, d)

\* The two cases of Interpolate.
LEMMA InterpolateIs ==
  ASSUME NEW from \in Int, NEW to \in Int, NEW k \in Nat
  PROVE  /\ Duration(from, to) \in Nat /\ Elapsed(k) \in Nat
         /\ Elapsed(k) >= Duration(from, to) => Interpolate(from, to, k) = to
         /\ Elapsed(k) < Duration(from, to)
              => Interpolate(from, to, k)
                   = Rounded(Sum(from, to, Elapsed(k), Duration(from, to)),
                             Cube(Duration(from, to)))
<1> DEFINE d == Duration(from, to)
           n == Elapsed(k)
<1>1. \A a, b \in Nat : a * b \in Nat
  OBVIOUS
<1>2. Abs(to - from) \in Nat /\ max_width - min_width \in Nat /\ T_MAX \in Nat
  BY ServoAssumption DEF Abs
<1>3. d \in Nat /\ n \in Nat
  BY <1>1, <1>2 DEF Duration, Elapsed
<1>4. Interpolate(from, to, k)
        = IF n >= d THEN to
          ELSE Rounded(from * d * d * d + (to - from) * Height(n, d), d * d * d)
  BY DEF Interpolate, Duration, Elapsed, Height
<1> HIDE DEF d, n
<1>5. from * d * d * d = from * (d * d * d)
  BY <1>3
<1>6. ~(n >= d) <=> n < d
  BY <1>3
<1> QED
  BY <1>3, <1>4, <1>5, <1>6 DEF Sum, Cube, d, n

\* The sum that is rounded goes from the start to the target with the curve.
LEMMA SumIsBetween ==
  ASSUME NEW from \in Int, NEW to \in Int, NEW d \in Nat \ {0},
         NEW m \in Nat, NEW n \in Nat, m <= n, n <= d
  PROVE  /\ Cube(d) \in Nat \ {0}
         /\ Sum(from, to, m, d) \in Int /\ Sum(from, to, n, d) \in Int
         /\ from <= to => /\ from * Cube(d) <= Sum(from, to, m, d)
                          /\ Sum(from, to, m, d) <= Sum(from, to, n, d)
                          /\ Sum(from, to, n, d) <= to * Cube(d)
         /\ to <= from => /\ Sum(from, to, m, d) <= from * Cube(d)
                          /\ Sum(from, to, n, d) <= Sum(from, to, m, d)
                          /\ to * Cube(d) <= Sum(from, to, n, d)
<1> DEFINE x == Height(m, d)
           y == Height(n, d)
           c == Cube(d)
           g == to - from
<1>1. x \in Int /\ y \in Int /\ 0 <= x /\ x <= y /\ y <= c
  BY CurveGrows, CurveEnds DEF Cube
<1>2. c \in Nat \ {0}
  <2>1. \A a, b \in Nat \ {0} : a * b \in Nat \ {0}
    OBVIOUS
  <2> QED
    BY <2>1 DEF Cube
<1>3. g \in Int /\ Sum(from, to, m, d) = from * c + g * x /\ Sum(from, to, n, d) = from * c + g * y
  BY DEF Sum
<1>4. from * c \in Int /\ to * c \in Int /\ to * c = from * c + g * c
  BY <1>2
<1>5. from <= to <=> g >= 0
  OBVIOUS
<1>6. to <= from <=> -g >= 0
  OBVIOUS
<1> HIDE DEF x, y, c, g
<1>7. g * x \in Int /\ g * y \in Int /\ g * c \in Int
  BY <1>1, <1>2, <1>3
<1>8. g >= 0 => 0 <= g * x /\ g * x <= g * y /\ g * y <= g * c
  <2> SUFFICES ASSUME g >= 0 PROVE 0 <= g * x /\ g * x <= g * y /\ g * y <= g * c
    OBVIOUS
  <2>1. g \in Nat /\ g * 0 = 0
    BY <1>3
  <2> QED
    BY <1>1, <1>2, <2>1, ProductGrows
<1>9. -g >= 0 => g * x <= 0 /\ g * y <= g * x /\ g * c <= g * y
  <2> SUFFICES ASSUME -g >= 0 PROVE g * x <= 0 /\ g * y <= g * x /\ g * c <= g * y
    OBVIOUS
  <2>1. -g \in Nat /\ (-g) * 0 = 0
    BY <1>3
  <2>2. (-g) * 0 <= (-g) * x /\ (-g) * x <= (-g) * y /\ (-g) * y <= (-g) * c
    BY <1>1, <1>2, <2>1, ProductGrows
  <2>3. (-g) * x = -(g * x) /\ (-g) * y = -(g * y) /\ (-g) * c = -(g * c)
    BY <1>1, <1>2, <1>3
  <2> QED
    BY <1>7, <2>1, <2>2, <2>3
<1> QED
  BY <1>2, <1>3, <1>4, <1>5, <1>6, <1>7, <1>8, <1>9 DEF c

\* Four widths that follow each other in one direction.
InOrder(a, b, c, d) == \/ a <= b /\ b <= c /\ c <= d
                       \/ d <= c /\ c <= b /\ b <= a

\* The widths at two times of a move.
LEMMA MoveInOrder ==
  ASSUME NEW from \in Int, NEW to \in Int, NEW j \in Nat, NEW k \in Nat, j <= k
  PROVE  /\ Interpolate(from, to, j) \in Int /\ Interpolate(from, to, k) \in Int
         /\ InOrder(from, Interpolate(from, to, j), Interpolate(from, to, k), to)
<1> DEFINE d == Duration(from, to)
           m == Elapsed(j)
           n == Elapsed(k)
           v == Interpolate(from, to, j)
           w == Interpolate(from, to, k)
<1>1. d \in Nat /\ m \in Nat /\ n \in Nat
  BY InterpolateIs
<1>2. m <= n
  <2>1. max_width - min_width \in Nat
    BY ServoAssumption
  <2>2. (max_width - min_width) * j <= (max_width - min_width) * k
    BY <2>1, ProductGrows
  <2> QED
    BY <2>1, <2>2 DEF Elapsed
<1>3. /\ m >= d => v = to
      /\ m < d => v = Rounded(Sum(from, to, m, d), Cube(d))
      /\ n >= d => w = to
      /\ n < d => w = Rounded(Sum(from, to, n, d), Cube(d))
  BY InterpolateIs
<1> HIDE DEF d, m, n, v, w
<1>4. CASE m >= d
  BY <1>1, <1>2, <1>3, <1>4 DEF InOrder, v, w
<1>5. CASE m < d
  <2> DEFINE c == Cube(d)
             x == Sum(from, to, m, d)
  <2>1. /\ c \in Nat \ {0} /\ x \in Int /\ v = Rounded(x, c)
        /\ from <= to => from * c <= x /\ x <= to * c
        /\ to <= from => x <= from * c /\ to * c <= x
    <3>1. d \in Nat \ {0} /\ m <= m /\ m <= d
      BY <1>1, <1>5
    <3> QED
      BY <1>1, <1>3, <1>5, <3>1, SumIsBetween
  <2> HIDE DEF c, x
  <2>2. from * c \in Int /\ to * c \in Int
    BY <2>1
  <2>3. Rounded(from * c, c) = from /\ Rounded(to * c, c) = to
    BY <2>1, RoundedWhole
  <2>4. v \in Int /\ (from <= to => from <= v /\ v <= to) /\ (to <= from => v <= from /\ to <= v)
    BY <2>1, <2>2, <2>3, RoundedGrows
  <2>5. CASE n >= d
    BY <1>3, <2>4, <2>5 DEF InOrder, v, w
  <2>6. CASE n < d
    <3> DEFINE y == Sum(from, to, n, d)
    <3>1. /\ y \in Int /\ w = Rounded(y, c)
          /\ from <= to => x <= y /\ y <= to * c
          /\ to <= from => y <= x /\ to * c <= y
      <4>1. d \in Nat \ {0} /\ n <= d
        BY <1>1, <2>6
      <4> QED
        BY <1>1, <1>2, <1>3, <2>6, <4>1, SumIsBetween DEF c, x
    <3> HIDE DEF y
    <3>2. w \in Int /\ (from <= to => v <= w /\ w <= to) /\ (to <= from => w <= v /\ to <= w)
      BY <2>1, <2>2, <2>3, <3>1, RoundedGrows
    <3> QED
      BY <2>4, <3>2 DEF InOrder, v, w
  <2> QED
    BY <1>1, <2>5, <2>6
<1> QED
  BY <1>1, <1>4, <1>5

\* At time 0 a move is where it starts.
LEMMA MoveStarts ==
  ASSUME NEW from \in Int, NEW to \in Int
  PROVE  Interpolate(from, to, 0) = from
<1> DEFINE d == Duration(from, to)
<1>1. d \in Nat /\ Elapsed(0) = 0
  BY InterpolateIs, ServoAssumption DEF Elapsed
<1>2. CASE d = 0
  <2>1. Interpolate(from, to, 0) = to
    BY <1>1, <1>2, InterpolateIs
  <2>2. to = from
    <3>1. \A a, b \in Nat : a * b = 0 => a = 0 \/ b = 0
      OBVIOUS
    <3>2. Abs(to - from) \in Nat /\ T_MAX \in Nat \ {0}
      BY ServoAssumption DEF Abs
    <3>3. Abs(to - from) = 0
      BY <1>2, <3>1, <3>2 DEF Duration
    <3> QED
      BY <3>3 DEF Abs
  <2> QED
    BY <2>1, <2>2
<1>3. CASE d > 0
  <2>1. Interpolate(from, to, 0) = Rounded(Sum(from, to, 0, d), Cube(d))
    BY <1>1, <1>3, InterpolateIs
  <2>2. Cube(d) \in Nat \ {0} /\ Height(0, d) = 0
    <3>1. d \in Nat \ {0} /\ 0 \in Nat /\ 0 <= 0 /\ 0 <= d
      BY <1>1, <1>3
    <3> HIDE DEF d
    <3> QED
      BY <3>1, SumIsBetween, CurveEnds
  <2>3. Sum(from, to, 0, d) = from * Cube(d)
    BY <2>2 DEF Sum
  <2> QED
    BY <2>1, <2>2, <2>3, RoundedWhole
<1> QED
  BY <1>1, <1>2, <1>3

-------------------------------------------------------------------------------
(* The thread.                                                             *)

\* Until main has reset the arm, the servo is in the middle and is to stay there.
NotMovedYet ==
  main = "reset" => /\ cur_width = MidWidth /\ target_angle = MidWidth
                    /\ at = "compare" => targetw = MidWidth
                    /\ at # "move"

\* The width is where the remembered move is at time t, or that move has no
\* way to go: so at the very first, when a target of default_width is not a
\* new one to the thread.
OnTheMove ==
  /\ at # "move" => \/ prev_reached_targetw = targetw_prev
                    \/ cur_width = Interpolate(prev_reached_targetw, targetw_prev, t)
  /\ at = "move" => /\ t >= 1
                    /\ \/ prev_reached_targetw = targetw
                       \/ cur_width = Interpolate(prev_reached_targetw, targetw, t - 1)

ServoInv == TypeOK /\ NotMovedYet /\ OnTheMove

\* What NeverBackwards says of a step.
MovesToTarget == \/ cur_width <= cur_width' /\ cur_width' <= targetw
                 \/ targetw <= cur_width' /\ cur_width' <= cur_width

\* The middle is a width.
LEMMA WidthsAre == Widths \subseteq Nat /\ MidWidth \in Widths
<1>1. Widths \subseteq Nat
  BY ServoAssumption DEF Widths
<1>2. MidWidth \in Int /\ 2 * MidWidth <= min_width + max_width /\ min_width + max_width < 2 * MidWidth + 2
  BY ServoAssumption, QuotientIs DEF MidWidth
<1> QED
  BY <1>1, <1>2, ServoAssumption DEF Widths

\* Every width is a number.
LEMMA AllWidths ==
  ASSUME TypeOK
  PROVE  /\ cur_width \in Widths /\ targetw \in Widths
         /\ targetw_prev \in Widths /\ prev_reached_targetw \in Widths
         /\ cur_width \in Int /\ targetw \in Int
         /\ targetw_prev \in Int /\ prev_reached_targetw \in Int
<1>1. /\ cur_width \in Widths /\ targetw \in Widths
      /\ targetw_prev \in Widths /\ prev_reached_targetw \in Widths
  BY DEF TypeOK
<1>2. \A w \in Widths : w \in Int
  BY WidthsAre
<1> QED
  BY <1>1, <1>2

\* The thread starts with the servo in the middle.
LEMMA ServoInit == Init => ServoInv
BY WidthsAre, ServoAssumption DEF Init, ServoInv, TypeOK, NotMovedYet, OnTheMove, Widths

\* The step that moves the servo keeps within the move, and within its range.
LEMMA MoveStep ==
  ASSUME ServoInv, Move
  PROVE  ServoInv' /\ MovesToTarget
<1>0. TypeOK
  BY DEF ServoInv
<1>1. /\ at = "move" /\ at' = "loop"
      /\ cur_width' = Clamp(Interpolate(prev_reached_targetw, targetw, t))
      /\ targetw_prev' = targetw
      /\ UNCHANGED <<main, run, target_angle, targetw, prev_reached_targetw, t>>
  BY DEF Move
<1>2. /\ main \in {"updating", "join", "done"} /\ run \in BOOLEAN /\ t \in Nat /\ t >= 1
      /\ {target_angle, cur_width, targetw, targetw_prev, prev_reached_targetw} \subseteq Widths
      /\ \/ prev_reached_targetw = targetw
         \/ cur_width = Interpolate(prev_reached_targetw, targetw, t - 1)
  BY <1>1 DEF ServoInv, TypeOK, NotMovedYet, OnTheMove
<1> DEFINE from == prev_reached_targetw
           to == targetw
           v == Interpolate(from, to, t - 1)
           w == Interpolate(from, to, t)
<1>3. from \in Widths /\ to \in Widths /\ from \in Int /\ to \in Int
  BY <1>0, AllWidths
<1>4. t - 1 \in Nat /\ t - 1 <= t
  BY <1>2
<1> HIDE DEF from, to
<1>5. v \in Int /\ w \in Int /\ InOrder(from, v, w, to)
  BY <1>2, <1>3, <1>4, MoveInOrder
<1> HIDE DEF v, w
<1>6. w \in Widths /\ Clamp(w) = w
  BY <1>3, <1>5, ServoAssumption DEF InOrder, Widths, Clamp
<1>7. cur_width' = w
  BY <1>1, <1>6 DEF w, from, to
<1>8. MovesToTarget
  <2>1. CASE from = to
    <3>1. w = to
      BY <1>3, <1>5, <2>1 DEF InOrder
    <3>2. cur_width \in Int
      BY <1>0, AllWidths
    <3> QED
      BY <1>3, <1>7, <3>1, <3>2 DEF MovesToTarget, to
  <2>2. CASE cur_width = v
    BY <1>5, <1>7, <2>2 DEF InOrder, MovesToTarget, to
  <2> QED
    BY <1>2, <2>1, <2>2 DEF v, from, to
<1>9. TypeOK'
  BY <1>1, <1>2, <1>6, <1>7 DEF TypeOK
<1>10. NotMovedYet' /\ OnTheMove'
  BY <1>1, <1>2, <1>7 DEF NotMovedYet, OnTheMove, w, from, to
<1> QED
  BY <1>8, <1>9, <1>10 DEF ServoInv

\* Deciding whether to move, and from where.
LEMMA CompareStep ==
  ASSUME ServoInv, Idle \/ Compare
  PROVE  ServoInv'
<1>1. /\ at = "compare" /\ t \in Nat
      /\ {target_angle, cur_width, targetw, targetw_prev, prev_reached_targetw} \subseteq Widths
      /\ \/ prev_reached_targetw = targetw_prev
         \/ cur_width = Interpolate(prev_reached_targetw, targetw_prev, t)
  BY DEF ServoInv, TypeOK, OnTheMove, Idle, Compare
<1>2. CASE Idle
  BY <1>1, <1>2 DEF Idle, ServoInv, TypeOK, NotMovedYet, OnTheMove
<1>3. CASE Compare /\ targetw # targetw_prev
  <2>1. /\ at' = "move" /\ prev_reached_targetw' = cur_width /\ t' = 1
        /\ UNCHANGED <<main, run, target_angle, cur_width, targetw, targetw_prev>>
        /\ cur_width # targetw
    BY <1>3 DEF Compare
  <2>2. cur_width = Interpolate(cur_width, targetw, 0) /\ t' - 1 = 0
    <3>1. cur_width \in Int /\ targetw \in Int
      BY AllWidths DEF ServoInv
    <3> QED
      BY <2>1, <3>1, MoveStarts
  <2>3. OnTheMove'
    BY <2>1, <2>2 DEF OnTheMove
  <2>4. TypeOK' /\ NotMovedYet'
    BY <1>1, <2>1 DEF ServoInv, TypeOK, NotMovedYet
  <2> QED
    BY <2>3, <2>4 DEF ServoInv
<1>4. CASE Compare /\ targetw = targetw_prev
  <2>1. /\ at' = "move" /\ prev_reached_targetw' = prev_reached_targetw /\ t' = t + 1
        /\ UNCHANGED <<main, run, target_angle, cur_width, targetw, targetw_prev>>
        /\ cur_width # targetw
    BY <1>4 DEF Compare
  <2>2. t' - 1 = t /\ t' >= 1 /\ t' \in Nat
    BY <1>1, <2>1
  <2>3. OnTheMove'
    BY <1>1, <1>4, <2>1, <2>2 DEF OnTheMove
  <2>4. TypeOK' /\ NotMovedYet'
    BY <1>1, <2>1, <2>2 DEF ServoInv, TypeOK, NotMovedYet
  <2> QED
    BY <2>3, <2>4 DEF ServoInv
<1> QED
  BY <1>2, <1>3, <1>4

\* No step of main or of the thread breaks the invariant.
LEMMA ServoStep == ServoInv /\ [Next]_vars => ServoInv'
<1> SUFFICES ASSUME ServoInv, [Next]_vars PROVE ServoInv'
  OBVIOUS
<1> USE DEF ServoInv, TypeOK, NotMovedYet, OnTheMove, moveVars
<1>1. CASE Reset
  BY <1>1, WidthsAre DEF Reset
<1>2. ASSUME NEW w \in Widths, SetTarget(w) PROVE ServoInv'
  BY <1>2 DEF SetTarget
<1>3. CASE CloseWindow \/ Join \/ stop
  BY <1>3 DEF CloseWindow, Join, stop
<1>4. CASE TestRun
  BY <1>4 DEF TestRun
<1>5. CASE ReadTarget
  BY <1>5 DEF ReadTarget
<1>6. CASE UNCHANGED vars
  BY <1>6 DEF vars
<1> QED
  BY <1>1, <1>2, <1>3, <1>4, <1>5, <1>6, CompareStep, MoveStep DEF Next, Servo, update

(***************************************************************************)
(* The width is always where the thread's move is at its time, whenever    *)
(* main changes the target.                                                *)
(***************************************************************************)
THEOREM ServoInvariant == Spec => []ServoInv
BY ServoInit, ServoStep, PTL DEF Spec

(***************************************************************************)
(* The servo never turns back on its way to a target and never passes it   *)
(* (SmoothServo::update of xn_gpio.hpp).                                   *)
(***************************************************************************)
THEOREM ServoNeverTurnsBack == Spec => NeverBackwards
<1>1. ServoInv /\ [Next]_vars
        => [at = "move" => MovesToTarget]_vars
  <2> SUFFICES ASSUME ServoInv, Next, at = "move" PROVE MovesToTarget \/ UNCHANGED vars
    OBVIOUS
  <2>1. CASE Move
    BY <2>1, MoveStep
  <2>2. CASE ~Move
    <3>1. main # "reset" /\ TypeOK
      BY DEF ServoInv, NotMovedYet
    <3>2. cur_width' = cur_width
      BY <2>2, <3>1 DEF Next, Servo, update, Reset, SetTarget, CloseWindow, Join, stop,
                        TestRun, ReadTarget, Idle, Compare
    <3>3. cur_width \in Int /\ targetw \in Int
      BY <3>1, AllWidths
    <3> QED
      BY <3>2, <3>3 DEF MovesToTarget
  <2> QED
    BY <2>1, <2>2
<1> QED
  BY <1>1, ServoInvariant, PTL DEF Spec, NeverBackwards, MovesToTarget
===============================================================================
