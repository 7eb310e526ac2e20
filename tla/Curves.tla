------------------------------- MODULE Curves -------------------------------
(***************************************************************************)
(* The easing functions of src/easing.c that are rational: the powers      *)
(* (Quad, Cubic, Quart, Quint), Back and Bounce, each In, Out, InOut and   *)
(* OutIn, with the parameters a curve gets when it is created              *)
(* (src/motioncurve.c).  The progress is i / n, the value a fraction       *)
(* <<numerator, denominator>>.  Sine, Expo, Circ, Elastic and the "curve"  *)
(* family take sines, roots and exponentials and are not here.             *)
(***************************************************************************)
EXTENDS Integers

Degree == [Quad |-> 2, Cubic |-> 3, Quart |-> 4, Quint |-> 5]
Ways == {"In", "Out", "InOut", "OutIn"}
Linear == [way |-> "In", shape |-> "Linear"]
AllCurves == {Linear} \cup [way : Ways, shape : DOMAIN Degree \cup {"Back", "Bounce"}]

(* f / 2, f / 2 + 1 / 2 and 1 - f. *)
Lower(f) == <<f[1], 2 * f[2]>>
Upper(f) == <<f[1] + f[2], 2 * f[2]>>
FromOne(f) == <<f[2] - f[1], f[2]>>

(* x to the k, as the code multiplies it out. *)
Power(x, k) == CASE k = 2 -> x * x         [] k = 3 -> x * x * x
                 [] k = 4 -> x * x * x * x [] OTHER -> x * x * x * x * x

Sign(k) == IF k % 2 = 0 THEN -1 ELSE 1

PowerIn(k, i, n)  == <<Power(i, k), Power(n, k)>>
PowerOut(k, i, n) == <<Sign(k) * Power(i - n, k) + Power(n, k), Power(n, k)>>
PowerInOut(k, i, n) ==
    IF 2 * i < n THEN <<Power(2 * i, k), 2 * Power(n, k)>>
                 ELSE <<Sign(k) * Power(2 * i - 2 * n, k) + 2 * Power(n, k), 2 * Power(n, k)>>

(* The overshoot is 1.7 (1.70158 in the code), times 1.525 in InOut: p / q. *)
BackIn(i, n)  == <<i * i * (27 * i - 17 * n), 10 * n * n * n>>
BackOut(i, n) ==
    LET t == i - n IN <<t * t * (27 * t + 17 * n) + 10 * n * n * n, 10 * n * n * n>>
BackInOut(i, n) ==
    LET p == 1037
        q == 400
        t == IF 2 * i < n THEN 2 * i ELSE 2 * i - 2 * n
        whole == 2 * q * n * n * n
    IN  IF 2 * i < n THEN <<t * t * ((p + q) * t - p * n), whole>>
                     ELSE <<t * t * ((p + q) * t + p * n) + whole, whole>>

(* Up to 1 / c, with amplitude 1. *)
Bounce_OneBranch(i, n, c) ==                   \* mutated: 10/11 taken for 8/11
    LET of(x) == <<(1 - c) * 64 * n * n + c * x, 64 * n * n * c>> IN
    CASE i = n                          -> <<64 * n * n, 64 * n * n * c>>
      [] i # n /\ 11 * i < 4 * n        -> <<4 * (11 * i) * (11 * i), 64 * n * n * c>>
      [] i # n /\ 11 * i \in 4 * n .. 10 * n - 1 ->
            of(4 * (11 * i - 6 * n) * (11 * i - 6 * n) + 48 * n * n)
      [] OTHER                          -> of((22 * i - 21 * n) * (22 * i - 21 * n) + 63 * n * n)

Bounce(i, n, c) ==
    LET of(x) == <<(1 - c) * 64 * n * n + c * x, 64 * n * n * c>> IN
    CASE i = n                          -> <<64 * n * n, 64 * n * n * c>>
      [] i # n /\ 11 * i < 4 * n        -> <<4 * (11 * i) * (11 * i), 64 * n * n * c>>
      [] i # n /\ 11 * i \in 4 * n .. 8 * n - 1  ->
            of(4 * (11 * i - 6 * n) * (11 * i - 6 * n) + 48 * n * n)
      [] i # n /\ 11 * i \in 8 * n .. 10 * n - 1 ->
            of(4 * (11 * i - 9 * n) * (11 * i - 9 * n) + 60 * n * n)
      [] OTHER                          -> of((22 * i - 21 * n) * (22 * i - 21 * n) + 63 * n * n)

In(shape, i, n) ==
    CASE shape = "Back"   -> BackIn(i, n)
      [] shape = "Bounce" -> FromOne(Bounce(n - i, n, 1))
      [] OTHER            -> PowerIn(Degree[shape], i, n)
Out(shape, i, n) ==
    CASE shape = "Back"   -> BackOut(i, n)
      [] shape = "Bounce" -> Bounce(i, n, 1)
      [] OTHER            -> PowerOut(Degree[shape], i, n)
InOut(shape, i, n) ==
    CASE shape = "Back"   -> BackInOut(i, n)
      [] shape = "Bounce" -> IF 2 * i < n THEN Lower(In(shape, 2 * i, n))
                                          ELSE Upper(Out(shape, 2 * i - n, n))
      [] OTHER            -> PowerInOut(Degree[shape], i, n)
OutIn(shape, i, n) ==
    CASE shape = "Bounce" -> IF 2 * i < n THEN Bounce(2 * i, n, 2)
                                          ELSE FromOne(Bounce(2 * n - 2 * i, n, 2))
      [] OTHER            -> IF 2 * i < n THEN Lower(Out(shape, 2 * i, n))
                                          ELSE Upper(In(shape, 2 * i - n, n))

(* __mgeffmotioncurve_calcvalue *)
CurveValue(curve, i, n) ==
    CASE curve = Linear                            -> <<i, n>>
      [] curve # Linear /\ curve.way = "In"        -> In(curve.shape, i, n)
      [] curve # Linear /\ curve.way = "Out"       -> Out(curve.shape, i, n)
      [] curve # Linear /\ curve.way = "InOut"     -> InOut(curve.shape, i, n)
      [] OTHER                                     -> OutIn(curve.shape, i, n)

----------------------------------------------------------------------------
(* What the curves are for, over the grid 0 / n .. n / n. *)

Monotone(curve) == curve.shape \notin {"Back", "Bounce"}
Overshoots(curve) == curve.shape = "Back"
Opposite(way) == CASE way = "In" -> "Out" [] way = "Out" -> "In" [] OTHER -> way

StartsAndEnds(curve, n) ==
    /\ CurveValue(curve, 0, n)[1] = 0
    /\ CurveValue(curve, n, n)[1] = CurveValue(curve, n, n)[2]

Mirrors(curve, n) ==
    \A i \in 0..n :
        LET f == CurveValue(curve, i, n)
            g == CurveValue([curve EXCEPT !.way = IF curve = Linear THEN "In" ELSE Opposite(@)],
                            n - i, n)
        IN  f[2] = g[2] /\ f[1] + g[1] = f[2]

StaysInside(curve, n) ==
    Overshoots(curve) \/ \A i \in 0..n : CurveValue(curve, i, n)[1] \in 0..CurveValue(curve, i, n)[2]

(* No step of 1 / n is steeper than 6; a monotone curve never goes back. *)
Smooth(curve, n) ==
    \A i \in 0..(n - 1) :
        LET f == CurveValue(curve, i, n)
            g == CurveValue(curve, i + 1, n)
            d == g[1] - f[1]
        IN  /\ f[2] = g[2] /\ n * d <= 6 * f[2] /\ n * (-d) <= 6 * f[2]
            /\ Monotone(curve) => d >= 0
=============================================================================
