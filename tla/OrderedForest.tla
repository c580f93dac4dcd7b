---------------------------- MODULE OrderedForest ----------------------------
(***************************************************************************)
(* What a DOM arena promises, with no links at all: every live node has a  *)
(* sequence of children, no node is in two sequences or twice in one, and  *)
(* each call either edits the sequences as its name says or is refused     *)
(* with the reason and edits nothing.                                      *)
(***************************************************************************)
EXTENDS Integers, SequencesExt

CONSTANTS MaxNodes

VARIABLES
  live,   \* number of nodes created so far, the root included
  kids,   \* each node's children in document order
  answer  \* what the last call returned

vars == <<live, kids, answer>>

Nodes == 0 .. MaxNodes - 1
Root  == 0

Init ==
  /\ live = 1
  /\ kids = [n \in Nodes |-> <<>>]
  /\ answer = "Ok"

Has(p, c)    == Contains(kids[p], c)
Attached(c)  == \E p \in Nodes : Has(p, c)
ParentOf(c)  == CHOOSE p \in Nodes : Has(p, c)
Place(c)     == CHOOSE i \in DOMAIN kids[ParentOf(c)] : kids[ParentOf(c)][i] = c
Known(id)    == id < live

\* The subtree of a: no set of nodes with a and the children of its members does without it.
ClosedDown(S) == \A p \in S : ToSet(kids[p]) \subseteq S
Subtree(a)    == {n \in Nodes : \A S \in SUBSET (Nodes \ {n}) : a \in S => ~ ClosedDown(S)}

\* Why child cannot be put under up, or Ok.
Verdict(up, child) ==
  IF child = Root THEN "IsDocument"
  ELSE IF up \in Subtree(child) THEN "Cycle"
  ELSE IF Attached(child) THEN "NotDetached"
  ELSE "Ok"

Refuse(why) == answer' = why /\ UNCHANGED <<live, kids>>

Accept(edited) == answer' = "Ok" /\ kids' = edited /\ UNCHANGED live

Create ==
  /\ answer' = "Ok"
  /\ live' = IF live = MaxNodes THEN live ELSE live + 1
  /\ UNCHANGED kids

Append_(up, child) ==
  \/ /\ ~ (Known(up) /\ Known(child))
     /\ Refuse("NoSuchNode")
  \/ /\ Known(up) /\ Known(child)
     /\ IF Verdict(up, child) = "Ok"
          THEN Accept([kids EXCEPT ![up] = Append(@, child)])
          ELSE Refuse(Verdict(up, child))

InsertBefore_(sibling, new) ==
  \/ /\ ~ (Known(sibling) /\ Known(new))
     /\ Refuse("NoSuchNode")
  \/ /\ Known(sibling) /\ Known(new)
     /\ ~ Attached(sibling)
     /\ Refuse("IsDocument")
  \/ /\ Known(sibling) /\ Known(new)
     /\ Attached(sibling)
     /\ LET up == ParentOf(sibling)
        IN  IF Verdict(up, new) = "Ok"
              THEN Accept([kids EXCEPT ![up] = InsertAt(@, Place(sibling), new)])
              ELSE Refuse(Verdict(up, new))

Detach(id) ==
  \/ ~ Known(id) /\ Refuse("NoSuchNode")
  \/ Known(id) /\ ~ Attached(id) /\ Accept(kids)
  \/ /\ Known(id) /\ Attached(id)
     /\ Accept([kids EXCEPT ![ParentOf(id)] = RemoveAt(@, Place(id))])

Reparent(from, to) ==
  \/ ~ (Known(from) /\ Known(to)) /\ Refuse("NoSuchNode")
  \/ Known(from) /\ from = to /\ Accept(kids)
  \/ /\ Known(from) /\ Known(to) /\ from # to
     /\ IF to \in Subtree(from)
          THEN Refuse("Cycle")
          ELSE Accept([kids EXCEPT ![from] = <<>>, ![to] = @ \o kids[from]])

Next ==
  \/ Create
  \/ \E a, b \in Nodes \cup {MaxNodes} : \/ Append_(a, b)
                                         \/ InsertBefore_(a, b)
                                         \/ Reparent(a, b)
  \/ \E id \in Nodes \cup {MaxNodes} : Detach(id)

Spec == Init /\ [][Next]_vars
===============================================================================
