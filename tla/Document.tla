------------------------------- MODULE Document -------------------------------
(***************************************************************************)
(* The arena of crates/dom (Document): its mutators, called one at a time  *)
(* through &mut self with any id at all, and the outcome each reports.     *)
(*                                                                         *)
(* reparent_children is a loop.  Its tests are ReparentBegin, one turn of  *)
(* the while is ReparentStep, the exit is ReparentEnd; no other call can   *)
(* run while the loop holds &mut self.                                     *)
(***************************************************************************)
EXTENDS DomLinks

VARIABLES
  len,     \* Document::len, the number of allocated slots
  links,   \* the links of every slot
  moving,  \* the arguments of a running reparent_children, or None
  outcome  \* what the last call returned

vars == <<len, links, moving, outcome>>

\* A running move is not the absence of one.
ASSUME MovingAssumption == None \notin [from : Slots, to : Slots]

TypeOK ==
  /\ len \in 1 .. MaxNodes
  /\ links \in Links
  /\ moving \in {None} \cup [from : Slots, to : Slots]
  /\ outcome \in Outcomes

\* Document::new: the root alone.
Init ==
  /\ len = 1
  /\ links = Unlinked
  /\ moving = None
  /\ outcome = "Ok"

\* Document::get answers Some.
Exists(id) == id < len

Idle == moving = None

-----------------------------------------------------------------------------
\* Mutant of create: the arena grows past its capacity.
create_past_capacity ==
  /\ Idle
  /\ len' = len + 1
  /\ outcome' = "Ok"
  /\ UNCHANGED <<links, moving>>

(* Document::create: a full arena hands out the sentinel and grows no      *)
(* further.                                                                *)
create ==
  /\ Idle
  /\ len' = IF len < MaxNodes THEN len + 1 ELSE len
  /\ outcome' = "Ok"
  /\ UNCHANGED <<links, moving>>

append_child(up, child) ==
  /\ Idle
  /\ outcome' = check_attach(links, len, up, child)
  /\ links' = IF outcome' = "Ok" THEN link_last(links, up, child) ELSE links
  /\ UNCHANGED <<len, moving>>

insert_before(sibling, new) ==
  /\ Idle
  /\ outcome' = check_insert(links, len, sibling, new)
  /\ links' = IF outcome' = "Ok"
                THEN link_before(links, links.parent[sibling], sibling, new)
                ELSE links
  /\ UNCHANGED <<len, moving>>

\* Idempotent: a parentless node stays as it is, and that is no error.
detach(id) ==
  /\ Idle
  /\ IF Exists(id)
       THEN outcome' = "Ok" /\ links' = unlink(links, id)
       ELSE outcome' = "NoSuchNode" /\ links' = links
  /\ UNCHANGED <<len, moving>>

ReparentBegin(from, to) ==
  /\ Idle
  /\ outcome' = check_reparent(links, len, from, to)
  /\ moving' = IF outcome' = "Ok" /\ from # to
                 THEN [from |-> from, to |-> to] ELSE None
  /\ UNCHANGED <<len, links>>

\* Mutant of ReparentStep: the child is linked back under the node it left.
ReparentStep_back ==
  /\ ~ Idle
  /\ links.first[moving.from] # None
  /\ links' = move_first(links, moving.from, moving.from)
  /\ UNCHANGED <<len, moving, outcome>>

ReparentStep ==
  /\ ~ Idle
  /\ links.first[moving.from] # None
  /\ links' = move_first(links, moving.from, moving.to)
  /\ UNCHANGED <<len, moving, outcome>>

ReparentEnd ==
  /\ ~ Idle
  /\ links.first[moving.from] = None
  /\ moving' = None
  /\ UNCHANGED <<len, links, outcome>>

Next ==
  \/ create
  \/ \E up, child \in Ids : append_child(up, child)
  \/ \E sibling, new \in Ids : insert_before(sibling, new)
  \/ \E id \in Ids : detach(id)
  \/ \E from, to \in Ids : ReparentBegin(from, to)
  \/ ReparentStep
  \/ ReparentEnd

(* A while loop that has been entered keeps running; nothing obliges a     *)
(* caller to make another call.                                            *)
Fairness == WF_vars(ReparentStep \/ ReparentEnd)

Spec == Init /\ [][Next]_vars /\ Fairness

-----------------------------------------------------------------------------
(* The links of the arena agree with one another and form a forest after   *)
(* every call, and after every turn of the reparenting loop: neighbours    *)
(* name each other, the ends of a chain are its outer children, no chain   *)
(* of siblings is a ring and no node is its own ancestor.  This is what    *)
(* check_invariants tests after random sequences of calls.                 *)
LinksWellFormed == WellFormed(links)

(* Slots that were never handed out carry no link and are nobody's         *)
(* neighbour, and the root is never attached.                              *)
FreshSlotsUnlinked == FreshUnlinked(links, len)

(* The whole arena, slots in use and slots to come, is sound after every   *)
(* call: a bad link in either half is one a later call walks over.         *)
ArenaWellFormed ==
  /\ LinksWellFormed
  /\ FreshSlotsUnlinked

(* While the loop runs it moves children of a live node to another live    *)
(* node that is outside the first one's subtree: the reason no turn of it  *)
(* can close a cycle, although only the call's entry tests for one.        *)
MoveStaysOutside ==
  moving # None => MoveIsOutside(links, len, moving.from, moving.to)

(* What makes the link invariants inductive.                               *)
IndInv ==
  /\ TypeOK
  /\ LinksWellFormed
  /\ FreshSlotsUnlinked
  /\ MoveStaysOutside

(* reparent_children returns: the loop it enters runs out of children.     *)
ReparentTerminates == moving # None ~> moving = None
===============================================================================
