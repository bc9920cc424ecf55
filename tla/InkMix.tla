------------------------------- MODULE InkMix -------------------------------
(* How a picture becomes inks (epd_image.py, ADR-0004).  Each pixel takes   *)
(* the ink nearest to it and leaves its error to the pixels right of it and *)
(* below (Floyd-Steinberg); a saturated colour outside of what the six inks *)
(* can mix is painted with two inks instead, in the proportion that comes   *)
(* nearest, or nearer to the coloured one of them where the owner asked for *)
(* a bias.  A channel has the values 0..64, a unit being four of the 256    *)
(* levels of the code; Sub parts of a unit stand for its floating point.    *)
EXTENDS Integers, Sequences, FiniteSets

CONSTANTS Palettes,     \* the colours six inks can have: functions on Inks
          Colours       \* the colours pixels have

Inks == 0..5            \* black, white, yellow, red, blue, green
Top == 64
Sub == 256
Whole == 1024           \* a share of one
Snap == 56              \* PURE_SNAP2, thirty levels

ASSUME InkMixAssumption ==
    \A c \in Colours \cup UNION {{t[i] : i \in Inks} : t \in Palettes} :
        c \in (0..Top) \X (0..Top) \X (0..Top)

Least(a, b) == IF a <= b THEN a ELSE b
Most(a, b) == IF a >= b THEN a ELSE b
Clamp(v) == Most(0, Least(Top * Sub, v))

Minus(u, v) == <<u[1] - v[1], u[2] - v[2], u[3] - v[3]>>
Dot(u, v) == u[1] * v[1] + u[2] * v[2] + u[3] * v[3]
Cross(u, v) == <<u[2] * v[3] - u[3] * v[2],
                 u[3] * v[1] - u[1] * v[3],
                 u[1] * v[2] - u[2] * v[1]>>
Scale(k, u) == <<k * u[1], k * u[2], k * u[3]>>
Zero == <<0, 0, 0>>
Dist2(u, v) == Dot(Minus(u, v), Minus(u, v))

\* The first of the inks nearest to c.
NearestIndex(c, t) ==
    LET d == [i \in Inks |-> Dist2(c, t[i])]
    IN  CHOOSE i \in Inks : \A j \in Inks : d[i] < d[j] \/ (d[i] = d[j] /\ i <= j)

Hi(c) == Most(c[1], Most(c[2], c[3]))
Lo(c) == Least(c[1], Least(c[2], c[3]))
Saturated(c) == 20 * (Hi(c) - Lo(c)) > 7 * Hi(c)

\* The planes through three inks with all the others on one side.
HullFacets(t) ==
    LET Normal(f) == Cross(Minus(t[f[2]], t[f[1]]), Minus(t[f[3]], t[f[1]]))
        Side(f, i) == f[4] * Dot(Normal(f), t[i])
    IN  {<<Scale(f[4], Normal(f)), Side(f, f[1])>> :
            f \in {g \in Inks \X Inks \X Inks \X {1, -1} :
                    /\ g[1] < g[2] /\ g[2] < g[3]
                    /\ Normal(g) # Zero
                    /\ \A i \in Inks : Side(g, i) <= Side(g, g[1])}}

Facets == [t \in Palettes |-> HullFacets(t)]
OutsideHull(c, t) == \E f \in Facets[t] : Dot(f[1], c) > f[2]

\* The mixture of two inks that comes nearest to c: num of den parts of ink
\* i, the rest of ink j; what is left to c, in Wholes.
Mixture(c, t, i, j) ==
    LET d == Minus(t[i], t[j])
        dd == Dot(d, d)
        v == Minus(c, t[j])
        along == Dot(v, d)
        rest == Dot(v, v) * dd - along * along
        exact == dd = 0 \/ along <= 0 \/ along >= dd
        end == IF dd = 0 \/ along >= dd THEN i ELSE j
        chromatic == {Dist2(c, t[k]) : k \in {i, j} \ {0, 1}}
    IN  [i |-> i, j |-> j,
         num |-> IF dd = 0 THEN 1 ELSE Most(0, Least(dd, along)),
         den |-> IF dd = 0 THEN 1 ELSE dd,
         res |-> IF exact THEN Whole * Dist2(c, t[end])
                          ELSE Whole * (rest \div dd) + (Whole * (rest % dd)) \div dd,
         tie |-> CHOOSE m \in chromatic : \A n \in chromatic : m <= n]

Pairs == {p \in Inks \X Inks : p[1] <= p[2] /\ p[2] > 1}

\* The pair with a coloured ink that leaves least.
BestPair(c, t) ==
    LET all == {Mixture(c, t, p[1], p[2]) : p \in Pairs}
        Before(x, y) == \/ x.res < y.res
                        \/ x.res = y.res /\ x.tie < y.tie
                        \/ x.res = y.res /\ x.tie = y.tie
                           /\ (x.i < y.i \/ (x.i = y.i /\ x.j <= y.j))
    IN  CHOOSE x \in all : \A y \in all : Before(x, y)

NoPlan == [a |-> 0, c |-> 0, mixed |-> FALSE, share |-> 0, none |-> TRUE]
Bucket(v) == 2 * (Least(v, Top - 1) \div 2) + 1

\* Variant: the shares of the two inks change places.
PlanOfSwapped(best) ==
    LET a == IF best.i <= 1 THEN best.i ELSE best.j
    IN  [a |-> a, c |-> IF a = best.i THEN best.j ELSE best.i,
         mixed |-> best.i <= 1, share |-> (Whole * best.num) \div best.den, none |-> FALSE]

\* Ink c is the coloured one of the two, or the first of two coloured ones.
PlanOf(best) ==
    LET a == IF best.i <= 1 THEN best.i ELSE best.j
        part == IF a = best.i /\ best.i # best.j THEN best.den - best.num ELSE best.num
    IN  [a |-> a, c |-> IF a = best.i THEN best.j ELSE best.i,
         mixed |-> best.i <= 1, share |-> (Whole * part) \div best.den, none |-> FALSE]

\* The two inks for a colour, computed for the middle of the eight levels it
\* lies in.
InterventionPlan(src, t) ==
    LET mid == <<Bucket(src[1]), Bucket(src[2]), Bucket(src[3])>>
    IN  IF OutsideHull(mid, t) THEN PlanOf(BestPair(mid, t)) ELSE NoPlan

Plans == [t \in Palettes |-> [c \in Colours |-> InterventionPlan(c, t)]]

\* Variant: the bias takes the other ink's side.
BiasedShareDown(plan, src, chroma) ==
    IF plan.mixed
    THEN Most(0, (plan.share * (Hi(src) - chroma * (Hi(src) - Lo(src)))) \div Hi(src))
    ELSE plan.share

\* The share of the coloured ink with the bias, in Wholes.
BiasedShare(plan, src, chroma) ==
    IF plan.mixed
    THEN Least(Whole, (plan.share * (Hi(src) + chroma * (Hi(src) - Lo(src)))) \div Hi(src))
    ELSE plan.share

\* A pixel of colour src, adj with the error left to it, painted by a plan:
\* its ink, and the colour its own error is measured from.
PlannedInk(src, adj, t, plan, eff) ==
    LET va == Scale(Sub, t[plan.a])
        axis == Minus(t[plan.c], t[plan.a])
        base == [k \in 1..3 |-> Clamp(va[k] + (eff * axis[k]) \div (Whole \div Sub)
                                      + adj[k] - Sub * src[k])]
    IN  IF axis = Zero THEN [ink |-> plan.a, base |-> adj]
        ELSE [ink |-> IF 2 * Dot(Minus(base, va), axis) > Sub * Dot(axis, axis)
                      THEN plan.c ELSE plan.a,
              base |-> base]

PickInk(src, adj, t, chroma) ==
    LET near == [ink |-> NearestIndex(adj, [i \in Inks |-> Scale(Sub, t[i])]), base |-> adj]
        pure == NearestIndex(src, t)
        plan == Plans[t][src]
    IN  IF ~Saturated(src) \/ ~OutsideHull(src, t) THEN near
        ELSE IF Dist2(src, t[pure]) <= Snap THEN [ink |-> pure, base |-> adj]
        ELSE IF plan.none THEN near
        ELSE PlannedInk(src, adj, t, plan, BiasedShare(plan, src, chroma))

\* The next pixel of a picture, after the inks of those before it and what is
\* left of them.  The error left to a pixel is gathered from those that leave
\* it some, which the code pushes to it.
NextPixel(before, pic, n, width, t, chroma) ==
    LET x == (n - 1) % width
        Left(k, there) == IF there /\ k >= 1 THEN before.left[k] ELSE Zero
        l == Left(n - 1, x > 0)
        ul == Left(n - width - 1, x > 0)
        u == Left(n - width, TRUE)
        ur == Left(n - width + 1, x < width - 1)
        adj == [k \in 1..3 |->
                  Clamp(Sub * pic[n][k] + (7 * l[k] + ul[k] + 5 * u[k] + 3 * ur[k]) \div 16)]
        p == PickInk(pic[n], adj, t, chroma)
    IN  [inks |-> Append(before.inks, p.ink),
         left |-> Append(before.left, Minus(p.base, Scale(Sub, t[p.ink])))]

\* The inks of a picture, row by row.
FloydSteinberg(pic, width, t, chroma) ==
    LET done[n \in 0..Len(pic)] ==
            IF n = 0 THEN [inks |-> <<>>, left |-> <<>>]
            ELSE NextPixel(done[n - 1], pic, n, width, t, chroma)
    IN  done[Len(pic)].inks
=============================================================================
