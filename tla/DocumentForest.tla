---------------------------- MODULE DocumentForest -----------------------------
(***************************************************************************)
(* The arena as an implementation of OrderedForest: the children of a node *)
(* are the sequence its links chain them in.                               *)
(***************************************************************************)
EXTENDS Document, Sequences, FiniteSets

ChildrenOf(L, p) == {c \in Slots : L.parent[c] = p}

\* s is the chain of p's children: from its first child along the next links to their end.
IsChain(L, p, s) ==
  /\ L.first[p] = IF s = <<>> THEN None ELSE s[1]
  /\ \A i \in DOMAIN s : /\ L.parent[s[i]] = p
                         /\ L.next[s[i]] = IF i = Len(s) THEN None ELSE s[i + 1]
Chain(L, p) ==
  CHOOSE s \in [1 .. Cardinality(ChildrenOf(L, p)) -> ChildrenOf(L, p)] : IsChain(L, p, s)
Chains(L) == [p \in Slots |-> Chain(L, p)]

\* The children of every node, once a running reparent_children has returned.
SettledKids ==
  IF moving = None THEN Chains(links)
  ELSE [Chains(links) EXCEPT ![moving.from] = <<>>,
                             ![moving.to] = @ \o Chain(links, moving.from)]

Forest == INSTANCE OrderedForest
            WITH live <- len, kids <- SettledKids, answer <- outcome

(* The linked arena implements an ordered forest: append, insert, detach   *)
(* and the whole reparenting loop edit the child sequences as their names  *)
(* say, a refused call edits nothing, and the reason reported is the       *)
(* first of the documented ones that applies.                              *)
RefinesForest == Forest!Spec
===============================================================================
