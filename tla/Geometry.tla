------------------------------- MODULE Geometry -------------------------------
(***************************************************************************)
(* App units and rectangles of crates/layout (au.rs, geom.rs), along one   *)
(* axis.  Painting treats x and y by the same code twice over and joins    *)
(* the two answers with "and", so a rectangle is here the interval it      *)
(* covers on an axis.  Arithmetic keeps the width of Au: it saturates.     *)
(***************************************************************************)
EXTENDS Integers

CONSTANTS MaxAu  \* i32::MAX; the least value is -MaxAu - 1

ASSUME WidthAssumption == MaxAu \in Nat \ {0}

Au   == -MaxAu - 1 .. MaxAu
Rect == [origin : Au, size : Au]

clamp(n, least, most) == IF n < least THEN least ELSE IF n > most THEN most ELSE n

saturating_add(a, b) == clamp(a + b, -MaxAu - 1, MaxAu)
saturating_sub(a, b) == clamp(a - b, -MaxAu - 1, MaxAu)
checked_add_fits(a, b) == a + b \in Au

Larger(a, b)  == IF a > b THEN a ELSE b
Smaller(a, b) == IF a < b THEN a ELSE b

\* Rect::right and Rect::bottom.
far_edge(r) == saturating_add(r.origin, r.size)

is_empty(r) == r.size <= 0

\* The positions a rectangle covers.
Covers(r, p) == r.origin <= p /\ p < far_edge(r)

\* The rectangle from one edge to another.
Between(near, far) == [origin |-> near, size |-> saturating_sub(far, near)]
Nowhere == [origin |-> 0, size |-> 0]

(* shapes::intersect: the overlap, or the empty rectangle at the origin.   *)
intersect(a, b) ==
  LET near == Larger(a.origin, b.origin)
      far  == Smaller(far_edge(a), far_edge(b))
  IN  IF far <= near THEN Nowhere ELSE Between(near, far)

\* Mutant of inset: sides wider than the box leave less than nothing.
inset_negative(r, sides) ==
  [origin |-> saturating_add(r.origin, sides[1]),
   size   |-> saturating_sub(saturating_sub(r.size, sides[1]), sides[2])]

(* block::inset: what is left of a box inside its two borders.             *)
inset(r, sides) ==
  [origin |-> saturating_add(r.origin, sides[1]),
   size   |-> Larger(saturating_sub(saturating_sub(r.size, sides[1]), sides[2]), 0)]
===============================================================================
