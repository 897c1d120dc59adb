------------------------------ MODULE Geometry ------------------------------
(***************************************************************************)
(* Sector-range algebra and nearest-fit solving (spec section 4.1).        *)
(*                                                                         *)
(* libparted's geometry/constraint code is not part of this repository, so *)
(* these operators are written from the spec.  Every constraint the Atari  *)
(* driver builds uses ped_alignment_any, and so does ped_constraint_any,   *)
(* so alignment is left out: a constraint is an allowed start range, an    *)
(* allowed end range and a size range.  A geometry is a record             *)
(* [start, end] of sector numbers, end inclusive.                          *)
(***************************************************************************)
EXTENDS Integers

Constraint(ss, se, es, ee, mn, mx) ==
    [ss |-> ss, se |-> se, es |-> es, ee |-> ee, min |-> mn, max |-> mx]

Geom(s, e) == [start |-> s, end |-> e]

GeomLength(g) == g.end - g.start + 1

\* "no geometry": the NULL a failed solve returns
NoGeom == Geom(-1, -1)

\* from_max(bound): start and end anywhere inside bound, any size that fits
FromMax(lo, hi) == Constraint(lo, hi, lo, hi, 1, hi - lo + 1)

\* exact(g): the one geometry g, used when re-reading a layout that must not move
Exact(g) ==
    Constraint(g.start, g.start, g.end, g.end, GeomLength(g), GeomLength(g))

\* every geometry a constraint accepts
Solutions(c) ==
    { g \in [start : c.ss .. c.se, end : c.es .. c.ee] :
        /\ g.start <= g.end
        /\ c.min <= GeomLength(g)
        /\ GeomLength(g) <= c.max }

\* intersect(a, b): ranges are intersected, size bounds tightened; an empty
\* result is a constraint with no solutions
Intersect(a, b) ==
    Constraint(IF a.ss >= b.ss THEN a.ss ELSE b.ss,
               IF a.se <= b.se THEN a.se ELSE b.se,
               IF a.es >= b.es THEN a.es ELSE b.es,
               IF a.ee <= b.ee THEN a.ee ELSE b.ee,
               IF a.min >= b.min THEN a.min ELSE b.min,
               IF a.max <= b.max THEN a.max ELSE b.max)

Dist(a, b) == IF a >= b THEN a - b ELSE b - a

\* the element of S nearest to x (S is an interval here, so it is unique)
Nearest(S, x) == CHOOSE y \in S : \A z \in S : Dist(y, x) <= Dist(z, x)

\* solve_nearest(c, ideal): the start nearest ideal.start among the starts
\* that admit a solution, then the end nearest ideal.end for that start
SolveNearest(c, ideal) ==
    LET sols   == Solutions(c)
        start  == Nearest({g.start : g \in sols}, ideal.start)
        end    == Nearest({g.end : g \in {h \in sols : h.start = start}}, ideal.end)
    IN  IF sols = {} THEN NoGeom ELSE Geom(start, end)

=============================================================================
