------------------------------- MODULE DomLinks -------------------------------
(***************************************************************************)
(* The five intrusive links of the arena of crates/dom, as pure operators. *)
(* A value L of the state is a record of five functions over the slots of  *)
(* the arena, one per link field of Node; every operator below is one      *)
(* private helper of Document, from the links before to the links after.   *)
(*                                                                         *)
(* Nothing here is recursive: what the code computes by walking a chain is *)
(* stated by the least set closed under that link, so that the proofs can  *)
(* use it.  DocumentTraversal compares it with the walk itself.           *)
(***************************************************************************)
EXTENDS Integers

CONSTANTS
  MaxNodes, \* capacity of the arena: u32::MAX in the code, small in a model
  None      \* an absent link, Option::None

ASSUME CapacityAssumption == MaxNodes \in Nat \ {0}
ASSUME NoneAssumption     == None \notin Int

Slots == 0 .. MaxNodes - 1    \* arena indices a node can have
Root  == 0                    \* Document::root

\* NodeId::from_index saturates: the id past the last slot names no node.
Sentinel == MaxNodes
Ids      == Slots \cup {Sentinel}

Link  == [Slots -> Slots \cup {None}]
Links == [parent : Link, first : Link, last : Link, prev : Link, next : Link]

\* Node::new for every slot: no node is linked to any other.
Unlinked ==
  LET none == [n \in Slots |-> None]
  IN  [parent |-> none, first |-> none, last |-> none, prev |-> none, next |-> none]

-----------------------------------------------------------------------------
(* Document::unlink: the neighbours of id close up over it, an end of the  *)
(* chain moves to the parent's first or last child, id keeps its children. *)
unlink(L, id) ==
  LET up == L.parent[id]
      p  == L.prev[id]
      q  == L.next[id]
  IN  IF up = None THEN L
      ELSE [parent |-> [L.parent EXCEPT ![id] = None],
            first  |-> [n \in Slots |-> IF p = None /\ n = up THEN q ELSE L.first[n]],
            last   |-> [n \in Slots |-> IF q = None /\ n = up THEN p ELSE L.last[n]],
            prev   |-> [n \in Slots |-> IF n = id THEN None
                                        ELSE IF n = q THEN p ELSE L.prev[n]],
            next   |-> [n \in Slots |-> IF n = id THEN None
                                        ELSE IF n = p THEN q ELSE L.next[n]]]

\* Mutant of link_last: the former last child is not told of its new neighbour.
link_last_one_way(L, up, child) ==
  LET old == L.last[up]
  IN  [parent |-> [L.parent EXCEPT ![child] = up],
       first  |-> [n \in Slots |-> IF old = None /\ n = up THEN child ELSE L.first[n]],
       last   |-> [L.last EXCEPT ![up] = child],
       prev   |-> [L.prev EXCEPT ![child] = old],
       next   |-> [L.next EXCEPT ![child] = None]]

(* Document::link_last: child becomes the last child of up.                *)
link_last(L, up, child) ==
  LET old == L.last[up]
  IN  [parent |-> [L.parent EXCEPT ![child] = up],
       first  |-> [n \in Slots |-> IF old = None /\ n = up THEN child ELSE L.first[n]],
       last   |-> [L.last EXCEPT ![up] = child],
       prev   |-> [L.prev EXCEPT ![child] = old],
       next   |-> [n \in Slots |-> IF n = old THEN child
                                   ELSE IF n = child THEN None ELSE L.next[n]]]

(* Document::link_before: new goes immediately before sibling under up.    *)
link_before(L, up, sibling, new) ==
  LET old == L.prev[sibling]
  IN  [parent |-> [L.parent EXCEPT ![new] = up],
       first  |-> [n \in Slots |-> IF old = None /\ n = up THEN new ELSE L.first[n]],
       last   |-> L.last,
       prev   |-> [n \in Slots |-> IF n = sibling THEN new
                                   ELSE IF n = new THEN old ELSE L.prev[n]],
       next   |-> [n \in Slots |-> IF n = old THEN new
                                   ELSE IF n = new THEN sibling ELSE L.next[n]]]

-----------------------------------------------------------------------------
(* A set of nodes that the parent link does not leave.                     *)
ParentClosed(L, S) == \A n \in S : L.parent[n] \in S \cup {None}

(* Document::is_ancestor_or_self: the loop goes up from node until it      *)
(* meets candidate or a parentless node.  The nodes it meets are the       *)
(* smallest parent-closed set holding node.                                *)
is_ancestor_or_self(L, candidate, node) ==
  \A S \in SUBSET Slots : node \in S /\ ParentClosed(L, S) => candidate \in S

(* The cycle test of check_attach: a childless node can only be its own    *)
(* ancestor, so the walk is skipped for it.                                *)
makes_cycle(L, up, child) ==
  IF L.first[child] = None
  THEN child = up
  ELSE is_ancestor_or_self(L, child, up)

(* The outcomes of the mutators: Ok, or the variant of DomError.           *)
Outcomes == {"Ok", "NoSuchNode", "IsDocument", "Cycle", "NotDetached"}

\* Mutant of check_attach: the document itself can be attached.
check_attach_any_node(L, len, up, child) ==
  IF up >= len \/ child >= len THEN "NoSuchNode"
  ELSE IF makes_cycle(L, up, child) THEN "Cycle"
  ELSE IF L.parent[child] # None THEN "NotDetached"
  ELSE "Ok"

(* Document::check_attach on an arena of len nodes, its tests in order.    *)
check_attach(L, len, up, child) ==
  IF up >= len \/ child >= len THEN "NoSuchNode"
  ELSE IF child = Root THEN "IsDocument"
  ELSE IF makes_cycle(L, up, child) THEN "Cycle"
  ELSE IF L.parent[child] # None THEN "NotDetached"
  ELSE "Ok"

\* The tests insert_before makes, then check_attach under sibling's parent.
check_insert(L, len, sibling, new) ==
  IF new >= len \/ sibling >= len THEN "NoSuchNode"
  ELSE IF L.parent[sibling] = None THEN "IsDocument"
  ELSE check_attach(L, len, L.parent[sibling], new)

\* Mutant of check_reparent: the children may move below one of themselves.
check_reparent_anywhere(L, len, from, to) ==
  IF from >= len \/ to >= len THEN "NoSuchNode" ELSE "Ok"

\* The tests at the entry of reparent_children.
check_reparent(L, len, from, to) ==
  IF from >= len \/ to >= len THEN "NoSuchNode"
  ELSE IF from = to THEN "Ok"
  ELSE IF is_ancestor_or_self(L, from, to) THEN "Cycle"
  ELSE "Ok"

\* Mutant of move_first: the last child left goes first.
move_last(L, from, to) ==
  link_last(unlink(L, L.last[from]), to, L.last[from])

\* One turn of its loop: the first child left is unlinked and linked last.
move_first(L, from, to) ==
  link_last(unlink(L, L.first[from]), to, L.first[from])

-----------------------------------------------------------------------------
(* Well-formedness of the links, part by part (document.rs states it as    *)
(* check_invariants, which only tests run).                                *)

\* Neighbours name each other and share a parent.
SiblingsAgree(L) ==
  \A n, m \in Slots : L.next[n] = m <=> L.prev[m] = n
SiblingsShareParent(L) ==
  \A n \in Slots : /\ L.next[n] # None => L.parent[L.next[n]] = L.parent[n]
                   /\ L.parent[n] = None => L.next[n] = None /\ L.prev[n] = None

\* The ends of a parent's chain are the children without a neighbour there.
EndsAgree(L) ==
  \A p, c \in Slots : /\ L.first[p] = c <=> L.parent[c] = p /\ L.prev[c] = None
                      /\ L.last[p]  = c <=> L.parent[c] = p /\ L.next[c] = None

\* No chain of siblings closes into a ring, no chain of parents into a cycle:
\* every nonempty set of nodes is left by the link at some member.
Leaves(link, S)    == S = {} \/ \E n \in S : link[n] \notin S
NoSiblingRing(L)   == \A S \in SUBSET Slots : Leaves(L.next, S) /\ Leaves(L.prev, S)
NoAncestorCycle(L) == \A S \in SUBSET Slots : Leaves(L.parent, S)

WellFormed(L) ==
  /\ L \in Links
  /\ SiblingsAgree(L)
  /\ SiblingsShareParent(L)
  /\ EndsAgree(L)
  /\ NoSiblingRing(L)
  /\ NoAncestorCycle(L)

\* With len slots handed out, the others are in no tree; the root is attached
\* nowhere.
FreshUnlinked(L, len) ==
  /\ L.parent[Root] = None
  /\ \A n \in Slots : n >= len => L.parent[n] = None /\ L.first[n] = None

\* Moving children of from under to is safe: both exist and to is not below from.
MoveIsOutside(L, len, from, to) ==
  /\ from \in Slots /\ from < len
  /\ to \in Slots /\ to < len
  /\ from # to
  /\ ~ is_ancestor_or_self(L, from, to)
===============================================================================
