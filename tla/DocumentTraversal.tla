-------------------------- MODULE DocumentTraversal --------------------------
(***************************************************************************)
(* The iterators of crates/dom over the links of Document, run to their    *)
(* end.                                                                    *)
(*                                                                         *)
(* Every iterator stops after Document::len items, so that it ends even on *)
(* links that form a cycle; the properties say that on the links the       *)
(* mutators build, this cap never cuts a walk short.                       *)
(***************************************************************************)
EXTENDS DocumentForest, SequencesExt

\* get(id) answers None past the arena, so its links read as None there.
LinkOf(link, id) == IF Exists(id) THEN link[id] ELSE None

-----------------------------------------------------------------------------
(* Children::next and Ancestors::next: the node at hand is yielded and its  *)
(* link followed.  An iterator ends when remaining calls were made of it.  *)
followed(link, s) ==
  IF s.next = None THEN s
  ELSE [next |-> LinkOf(link, s.next), items |-> Append(s.items, s.next)]
Follow(link, node, remaining) ==
  LET after[k \in 0 .. remaining] ==
        IF k = 0 THEN [next |-> node, items |-> <<>>] ELSE followed(link, after[k - 1])
  IN  after[remaining].items

\* Mutant of ancestors: starts at the node itself.
ancestors_and_self(id) == Follow(links.parent, id, len)

children(id)  == Follow(links.next, LinkOf(links.first, id), len)
ancestors(id) == Follow(links.parent, LinkOf(links.parent, id), len)

\* Mutant of popped: the children are pushed below what is on the stack.
popped_by_level(s) ==
  IF s.stack = <<>> THEN s
  ELSE [stack |-> Tail(s.stack) \o children(Head(s.stack)),
        items |-> Append(s.items, Head(s.stack))]

(* Descendants::next: a node is popped and yielded, and its children are   *)
(* pushed, the first on top.  The top of the stack is its head.            *)
popped(s) ==
  IF s.stack = <<>> THEN s
  ELSE [stack |-> children(Head(s.stack)) \o Tail(s.stack),
        items |-> Append(s.items, Head(s.stack))]
PopAll(stack, remaining) ==
  LET after[k \in 0 .. remaining] ==
        IF k = 0 THEN [stack |-> stack, items |-> <<>>] ELSE popped(after[k - 1])
  IN  after[remaining].items

descendants(id) == PopAll(children(id), len)

\* The loop of is_ancestor_or_self, step by step.
walk_up(candidate, node) ==
  LET meets[n \in Slots] == \/ n = candidate
                            \/ links.parent[n] # None /\ meets[links.parent[n]]
  IN  meets[node]

-----------------------------------------------------------------------------
(* Walking first_child and next_sibling from a node meets exactly the      *)
(* nodes that name it as parent, once each, as the links chain them, and   *)
(* last_child ends the walk (check_invariants).                            *)
ChildChainsComplete ==
  \A p \in Slots :
    /\ ToSet(children(p)) = {c \in Slots : links.parent[c] = p}
    /\ IsInjective(children(p))
    /\ children(p) = Chain(links, p)
    /\ links.last[p] = IF children(p) = <<>> THEN None ELSE Last(children(p))

(* The walk up from a node decides ancestry as the least parent-closed set *)
(* does, and ancestors() yields that set without the node itself; its cap  *)
(* is never reached.                                                       *)
AncestryAgrees ==
  \A node, candidate \in 0 .. len - 1 :
    /\ walk_up(candidate, node) <=> is_ancestor_or_self(links, candidate, node)
    /\ candidate \in ToSet(ancestors(node)) <=>
         candidate # node /\ is_ancestor_or_self(links, candidate, node)

(* descendants() yields every node under id once, parents before children  *)
(* and an earlier sibling's whole subtree before a later sibling; its cap  *)
(* is never reached.  Style, layout and the sink all iterate with it.      *)
DescendantsInDocumentOrder ==
  \A id \in 0 .. len - 1 :
    LET D == descendants(id)
        Pos(n) == CHOOSE i \in DOMAIN D : D[i] = n
        Under(n, m) == is_ancestor_or_self(links, n, m)
    IN  /\ ToSet(D) = {n \in Slots : n # id /\ Under(id, n)}
        /\ IsInjective(D)
        /\ \A n, m \in ToSet(D) :
             /\ n # m /\ Under(n, m) => Pos(n) < Pos(m)
             /\ links.next[n] = m =>
                  \A k \in Slots : Under(n, k) => Pos(k) < Pos(m)

(* The three iterators say of one arena what its links say: whoever walks  *)
(* it down, up or through, as style, layout and the sink do, finds the     *)
(* same tree, and no cap cuts a walk short.                                *)
IteratorsAgree ==
  /\ ChildChainsComplete
  /\ AncestryAgrees
  /\ DescendantsInDocumentOrder
===============================================================================
