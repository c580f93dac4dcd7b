-------------------------------- MODULE TreeWalk --------------------------------
(***************************************************************************)
(* The walk that the dumps of crates/style and crates/layout share: a      *)
(* stack popped at its end, onto which a node's children are pushed last   *)
(* child first, and a limit on how many nodes are popped.                  *)
(***************************************************************************)
EXTENDS Naturals, Sequences, SequencesExt

Popped(id, depth) == [id |-> id, depth |-> depth]

\* Mutant of pushed: the children are pushed first child first.
pushed_forward(children, depth) == [i \in DOMAIN children |-> Popped(children[i], depth)]

\* push_children.
pushed(children, depth) == Reverse([i \in DOMAIN children |-> Popped(children[i], depth)])

(* What is popped in turn, each with its depth, until the stack is empty   *)
(* or the limit reached; step says how much deeper a node's children are.  *)
popped_from(stack, children, step, limit) ==
  LET walk[n \in 0 .. limit] ==
        IF n = 0 THEN [stack |-> stack, popped |-> <<>>]
        ELSE LET s   == walk[n - 1]
                 top == Last(s.stack)
             IN  IF s.stack = <<>> THEN s
                 ELSE [stack  |-> Front(s.stack) \o pushed(children[top.id], top.depth + step[top.id]),
                       popped |-> Append(s.popped, top)]
  IN  walk[limit].popped
===============================================================================
