---------------------------- MODULE DomLinksProofs ----------------------------
(***************************************************************************)
(* What the link operators of DomLinks preserve: unlinking a node, linking *)
(* one last and linking one before a sibling keep well-formed links        *)
(* well-formed, under what the tests of the mutators establish.            *)
(***************************************************************************)
EXTENDS DomLinks, TLAPS

\* The fields of well-formed links, typed.
LEMMA WellFormedFields ==
  ASSUME NEW L, WellFormed(L)
  PROVE  /\ L.parent \in [Slots -> Slots \cup {None}]
         /\ L.first \in [Slots -> Slots \cup {None}]
         /\ L.last \in [Slots -> Slots \cup {None}]
         /\ L.prev \in [Slots -> Slots \cup {None}]
         /\ L.next \in [Slots -> Slots \cup {None}]
         /\ None \notin Slots
  BY NoneAssumption DEF WellFormed, Links, Link, Slots

(* No set of siblings is a ring, in either direction.                      *)
LEMMA RingFree ==
  ASSUME NEW L, WellFormed(L), NEW S \in SUBSET Slots, S # {}
  PROVE  (\E n \in S : L.next[n] \notin S) /\ (\E n \in S : L.prev[n] \notin S)
  BY DEF WellFormed, NoSiblingRing, Leaves

(* A node with a child has a first and a last child: its children would    *)
(* otherwise be a ring of siblings.  So the childless test of check_attach *)
(* may look at first_child alone.                                          *)
LEMMA ParentsHaveEnds ==
  ASSUME NEW L, WellFormed(L), NEW p \in Slots, NEW c \in Slots, L.parent[c] = p
  PROVE  L.first[p] # None /\ L.last[p] # None
<1> DEFINE S == {n \in Slots : L.parent[n] = p}
<1>1. S \in SUBSET Slots /\ S # {}
  OBVIOUS
<1>2. PICK n \in S : L.next[n] \notin S
  BY <1>1, RingFree
<1>3. PICK m \in S : L.prev[m] \notin S
  BY <1>1, RingFree
<1>4. L.next[n] = None
  BY <1>2, WellFormedFields DEF WellFormed, SiblingsShareParent
<1>5. L.prev[m] = None
  <2>1. SUFFICES ASSUME L.prev[m] \in Slots PROVE FALSE
    BY <1>3, WellFormedFields
  <2>2. L.next[L.prev[m]] = m
    BY <2>1, <1>3 DEF WellFormed, SiblingsAgree
  <2>3. L.parent[L.prev[m]] = L.parent[m]
    BY <2>1, <2>2, <1>3, WellFormedFields DEF WellFormed, SiblingsShareParent
  <2>4. QED
    BY <2>1, <2>3, <1>3
<1>6. QED
  BY <1>2, <1>3, <1>4, <1>5, WellFormedFields DEF WellFormed, EndsAgree

(* The shortcut of check_attach: a childless node is nobody's ancestor but *)
(* its own.                                                                *)
LEMMA ChildlessIsNoAncestor ==
  ASSUME NEW L, WellFormed(L), NEW up \in Slots, NEW child \in Slots,
         L.first[child] = None, child # up
  PROVE  ~ is_ancestor_or_self(L, child, up)
<1> DEFINE T == Slots \ {child}
<1>1. ParentClosed(L, T)
  BY ParentsHaveEnds, WellFormedFields DEF ParentClosed
<1>2. T \in SUBSET Slots /\ up \in T /\ child \notin T
  OBVIOUS
<1>3. QED
  BY <1>1, <1>2 DEF is_ancestor_or_self

-----------------------------------------------------------------------------
(* Unlinking.                                                              *)

\* M is L after the node id was unlinked from its parent, slot by slot.
IsUnlink(L, M, id) ==
  /\ M \in Links
  /\ \A n \in Slots : M.parent[n] = IF n = id THEN None ELSE L.parent[n]
  /\ \A n \in Slots : M.first[n] = IF L.prev[id] = None /\ n = L.parent[id]
                                     THEN L.next[id] ELSE L.first[n]
  /\ \A n \in Slots : M.last[n] = IF L.next[id] = None /\ n = L.parent[id]
                                    THEN L.prev[id] ELSE L.last[n]
  /\ \A n \in Slots : M.prev[n] = IF n = id THEN None
                                  ELSE IF n = L.next[id] THEN L.prev[id] ELSE L.prev[n]
  /\ \A n \in Slots : M.next[n] = IF n = id THEN None
                                  ELSE IF n = L.prev[id] THEN L.next[id] ELSE L.next[n]

LEMMA UnlinkFields ==
  ASSUME NEW L, WellFormed(L), NEW id \in Slots, L.parent[id] # None
  PROVE  IsUnlink(L, unlink(L, id), id)
<1>1. L \in Links
  BY DEF WellFormed
<1>2. QED
  BY <1>1 DEF unlink, IsUnlink, Links, Link

(* A ring of siblings left by unlinking a node was one before, the node    *)
(* included if its neighbour is in it.                                     *)
LEMMA UnlinkMakesNoRing ==
  ASSUME NEW L, WellFormed(L), NEW id \in Slots, NEW M, IsUnlink(L, M, id)
  PROVE  NoSiblingRing(M)
<1> SUFFICES ASSUME NEW S \in SUBSET Slots, S # {}
             PROVE  /\ \E n \in S : M.next[n] \notin S
                    /\ \E n \in S : M.prev[n] \notin S
  BY DEF NoSiblingRing, Leaves
<1>1. (S \cup {id}) \in SUBSET Slots /\ S \cup {id} # {}
  OBVIOUS
<1>2. ASSUME \A n \in S : M.next[n] \in S PROVE FALSE
  <2>1. CASE L.prev[id] \in S
    <3>1. L.next[id] \in S /\ L.next[L.prev[id]] = id
      BY <2>1, <1>2, WellFormedFields DEF WellFormed, SiblingsAgree, IsUnlink
    <3>2. \A n \in S \cup {id} : L.next[n] \in S \cup {id}
      BY <3>1, <1>2, WellFormedFields DEF IsUnlink
    <3>3. QED
      BY <3>2, <1>1, RingFree
  <2>2. CASE L.prev[id] \notin S
    <3>1. \A n \in S : L.next[n] \in S
      BY <2>2, <1>2, WellFormedFields DEF IsUnlink
    <3>2. QED
      BY <3>1, RingFree
  <2>3. QED
    BY <2>1, <2>2
<1>3. ASSUME \A n \in S : M.prev[n] \in S PROVE FALSE
  <2>1. CASE L.next[id] \in S
    <3>1. L.prev[id] \in S /\ L.prev[L.next[id]] = id
      BY <2>1, <1>3, WellFormedFields DEF WellFormed, SiblingsAgree, IsUnlink
    <3>2. \A n \in S \cup {id} : L.prev[n] \in S \cup {id}
      BY <3>1, <1>3, WellFormedFields DEF IsUnlink
    <3>3. QED
      BY <3>2, <1>1, RingFree
  <2>2. CASE L.next[id] \notin S
    <3>1. \A n \in S : L.prev[n] \in S
      BY <2>2, <1>3, WellFormedFields DEF IsUnlink
    <3>2. QED
      BY <3>1, RingFree
  <2>3. QED
    BY <2>1, <2>2
<1>4. QED
  BY <1>2, <1>3

(* Unlinking a node keeps the links well-formed.                           *)
LEMMA UnlinkWellFormed ==
  ASSUME NEW L, WellFormed(L), NEW id \in Slots
  PROVE  WellFormed(unlink(L, id))
<1>1. CASE L.parent[id] = None
  BY <1>1 DEF unlink
<1>2. CASE L.parent[id] # None
  <2> SUFFICES ASSUME NEW M, IsUnlink(L, M, id)
               PROVE  WellFormed(M)
    BY <1>2, UnlinkFields
  <2>1. SiblingsAgree(M)
    BY WellFormedFields DEF IsUnlink, WellFormed, SiblingsAgree, SiblingsShareParent
  <2>2. SiblingsShareParent(M)
    BY <1>2, WellFormedFields
       DEF IsUnlink, WellFormed, SiblingsAgree, SiblingsShareParent
  <2>3. EndsAgree(M)
    BY <1>2, WellFormedFields
       DEF IsUnlink, WellFormed, SiblingsAgree, SiblingsShareParent, EndsAgree
  <2>4. NoSiblingRing(M)
    BY UnlinkMakesNoRing
  <2>5. NoAncestorCycle(M)
    BY WellFormedFields DEF IsUnlink, WellFormed, NoAncestorCycle, Leaves
  <2>6. QED
    BY <2>1, <2>2, <2>3, <2>4, <2>5 DEF WellFormed, IsUnlink
<1>3. QED
  BY <1>1, <1>2

-----------------------------------------------------------------------------
(* Linking.                                                                *)

(* Attaching a parentless node under a node that is not below it closes no *)
(* cycle of parents, wherever among the children it goes: the nodes of a   *)
(* cycle through the new edge that lie above the new parent would have     *)
(* been a cycle before.                                                    *)
LEMMA AttachMakesNoCycle ==
  ASSUME NEW L, WellFormed(L), NEW M, NEW up \in Slots, NEW child \in Slots,
         ~ is_ancestor_or_self(L, child, up),
         \A n \in Slots : M.parent[n] = IF n = child THEN up ELSE L.parent[n]
  PROVE  NoAncestorCycle(M)
<1> SUFFICES ASSUME NEW S \in SUBSET Slots, S # {}, \A n \in S : M.parent[n] \in S
             PROVE  FALSE
  BY DEF NoAncestorCycle, Leaves
<1>1. PICK T \in SUBSET Slots : up \in T /\ ParentClosed(L, T) /\ child \notin T
  BY DEF is_ancestor_or_self
<1>2. CASE child \notin S
  BY <1>2 DEF WellFormed, NoAncestorCycle, Leaves
<1>3. CASE child \in S
  <2>1. \A n \in S \cap T : L.parent[n] \in S \cap T
    BY <1>1, WellFormedFields DEF ParentClosed
  <2>2. S \cap T \in SUBSET Slots /\ S \cap T # {}
    BY <1>1, <1>3
  <2>3. QED
    BY <2>1, <2>2 DEF WellFormed, NoAncestorCycle, Leaves
<1>4. QED
  BY <1>2, <1>3

\* M is L after child was linked as the last child of up, slot by slot.
IsLinkLast(L, M, up, child) ==
  /\ M \in Links
  /\ \A n \in Slots : M.parent[n] = IF n = child THEN up ELSE L.parent[n]
  /\ \A n \in Slots : M.first[n] = IF L.last[up] = None /\ n = up
                                     THEN child ELSE L.first[n]
  /\ \A n \in Slots : M.last[n] = IF n = up THEN child ELSE L.last[n]
  /\ \A n \in Slots : M.prev[n] = IF n = child THEN L.last[up] ELSE L.prev[n]
  /\ \A n \in Slots : M.next[n] = IF n = L.last[up] THEN child
                                  ELSE IF n = child THEN None ELSE L.next[n]

LEMMA LinkLastFields ==
  ASSUME NEW L, WellFormed(L), NEW up \in Slots, NEW child \in Slots
  PROVE  IsLinkLast(L, link_last(L, up, child), up, child)
<1>1. L \in Links
  BY DEF WellFormed
<1>2. QED
  BY <1>1 DEF link_last, IsLinkLast, Links, Link

(* Linking a parentless node last keeps the links well-formed, unless the  *)
(* new parent is the node or lies below it.                                *)
LEMMA LinkLastWellFormed ==
  ASSUME NEW L, WellFormed(L), NEW up \in Slots, NEW child \in Slots,
         L.parent[child] = None, ~ is_ancestor_or_self(L, child, up)
  PROVE  WellFormed(link_last(L, up, child))
<1> SUFFICES ASSUME NEW M, IsLinkLast(L, M, up, child)
             PROVE  WellFormed(M)
  BY LinkLastFields
<1>1. L.prev[child] = None /\ L.next[child] = None /\ L.last[up] # child
  BY WellFormedFields DEF WellFormed, SiblingsShareParent, EndsAgree
<1>2. SiblingsAgree(M)
  BY <1>1, WellFormedFields
     DEF IsLinkLast, WellFormed, SiblingsAgree, SiblingsShareParent, EndsAgree
<1>3. SiblingsShareParent(M)
  BY <1>1, WellFormedFields
     DEF IsLinkLast, WellFormed, SiblingsAgree, SiblingsShareParent, EndsAgree
<1>4. EndsAgree(M)
  <2>1. ASSUME NEW p \in Slots, NEW c \in Slots
        PROVE  M.first[p] = c <=> M.parent[c] = p /\ M.prev[c] = None
    BY <1>1, WellFormedFields, ParentsHaveEnds DEF IsLinkLast, WellFormed, EndsAgree
  <2>2. ASSUME NEW p \in Slots, NEW c \in Slots
        PROVE  M.last[p] = c <=> M.parent[c] = p /\ M.next[c] = None
    BY <1>1, WellFormedFields DEF IsLinkLast, WellFormed, EndsAgree
  <2>3. QED
    BY <2>1, <2>2 DEF EndsAgree
<1>5. NoSiblingRing(M)
  <2> SUFFICES ASSUME NEW S \in SUBSET Slots, S # {}
               PROVE  /\ \E n \in S : M.next[n] \notin S
                      /\ \E n \in S : M.prev[n] \notin S
    BY DEF NoSiblingRing, Leaves
  <2>1. \E n \in S : M.next[n] \notin S
    BY <1>1, RingFree, WellFormedFields DEF IsLinkLast
  <2>2. ASSUME \A n \in S : M.prev[n] \in S PROVE FALSE
    <3>1. child \in S
      BY <2>2, RingFree DEF IsLinkLast
    <3>2. \A n \in S \ {child} : L.prev[n] \in S \ {child}
      BY <2>2, <1>1, WellFormedFields DEF IsLinkLast, WellFormed, SiblingsAgree
    <3>3. L.last[up] \in S \ {child}
      BY <3>1, <2>2, <1>1 DEF IsLinkLast
    <3>4. QED
      BY <3>2, <3>3, RingFree
  <2>3. QED
    BY <2>1, <2>2
<1>6. NoAncestorCycle(M)
  BY AttachMakesNoCycle DEF IsLinkLast
<1>7. QED
  BY <1>2, <1>3, <1>4, <1>5, <1>6 DEF WellFormed, IsLinkLast

\* M is L after new was linked before sibling under up, slot by slot.
IsLinkBefore(L, M, up, sibling, new) ==
  /\ M \in Links
  /\ \A n \in Slots : M.parent[n] = IF n = new THEN up ELSE L.parent[n]
  /\ \A n \in Slots : M.first[n] = IF L.prev[sibling] = None /\ n = up
                                     THEN new ELSE L.first[n]
  /\ \A n \in Slots : M.last[n] = L.last[n]
  /\ \A n \in Slots : M.prev[n] = IF n = sibling THEN new
                                  ELSE IF n = new THEN L.prev[sibling] ELSE L.prev[n]
  /\ \A n \in Slots : M.next[n] = IF n = L.prev[sibling] THEN new
                                  ELSE IF n = new THEN sibling ELSE L.next[n]

LEMMA LinkBeforeFields ==
  ASSUME NEW L, WellFormed(L), NEW up \in Slots, NEW sibling \in Slots, NEW new \in Slots
  PROVE  IsLinkBefore(L, link_before(L, up, sibling, new), up, sibling, new)
<1>1. L \in Links
  BY DEF WellFormed
<1>2. QED
  BY <1>1 DEF link_before, IsLinkBefore, Links, Link

(* Linking a parentless node before a child of up keeps the links          *)
(* well-formed, unless up is the node or lies below it.                    *)
LEMMA LinkBeforeWellFormed ==
  ASSUME NEW L, WellFormed(L), NEW up \in Slots, NEW sibling \in Slots, NEW new \in Slots,
         L.parent[sibling] = up, L.parent[new] = None,
         ~ is_ancestor_or_self(L, new, up)
  PROVE  WellFormed(link_before(L, up, sibling, new))
<1> SUFFICES ASSUME NEW M, IsLinkBefore(L, M, up, sibling, new)
             PROVE  WellFormed(M)
  BY LinkBeforeFields
<1>1. L.prev[new] = None /\ L.next[new] = None /\ new # sibling /\ L.prev[sibling] # new
  BY WellFormedFields DEF WellFormed, SiblingsShareParent, SiblingsAgree
<1>2. SiblingsAgree(M)
  BY <1>1, WellFormedFields
     DEF IsLinkBefore, WellFormed, SiblingsAgree, SiblingsShareParent
<1>3. SiblingsShareParent(M)
  BY <1>1, WellFormedFields
     DEF IsLinkBefore, WellFormed, SiblingsAgree, SiblingsShareParent
<1>4. EndsAgree(M)
  <2>1. ASSUME NEW p \in Slots, NEW c \in Slots
        PROVE  M.first[p] = c <=> M.parent[c] = p /\ M.prev[c] = None
    BY <1>1, WellFormedFields DEF IsLinkBefore, WellFormed, EndsAgree
  <2>2. ASSUME NEW p \in Slots, NEW c \in Slots
        PROVE  M.last[p] = c <=> M.parent[c] = p /\ M.next[c] = None
    BY <1>1, WellFormedFields DEF IsLinkBefore, WellFormed, EndsAgree, SiblingsAgree
  <2>3. QED
    BY <2>1, <2>2 DEF EndsAgree
<1>5. NoSiblingRing(M)
  <2> SUFFICES ASSUME NEW S \in SUBSET Slots, S # {}
               PROVE  /\ \E n \in S : M.next[n] \notin S
                      /\ \E n \in S : M.prev[n] \notin S
    BY DEF NoSiblingRing, Leaves
  <2>1. ASSUME \A n \in S : M.next[n] \in S PROVE FALSE
    <3>1. \A n \in S \ {new} : L.next[n] \in S \ {new}
      BY <2>1, <1>1, WellFormedFields DEF IsLinkBefore, WellFormed, SiblingsAgree
    <3>2. S \ {new} # {}
      BY <2>1, <1>1, WellFormedFields DEF IsLinkBefore
    <3>3. QED
      BY <3>1, <3>2, RingFree
  <2>2. ASSUME \A n \in S : M.prev[n] \in S PROVE FALSE
    <3>1. \A n \in S \ {new} : L.prev[n] \in S \ {new}
      BY <2>2, <1>1, WellFormedFields DEF IsLinkBefore, WellFormed, SiblingsAgree
    <3>2. S \ {new} # {}
      BY <2>2, <1>1, WellFormedFields DEF IsLinkBefore
    <3>3. QED
      BY <3>1, <3>2, RingFree
  <2>3. QED
    BY <2>1, <2>2
<1>6. NoAncestorCycle(M)
  BY AttachMakesNoCycle DEF IsLinkBefore
<1>7. QED
  BY <1>2, <1>3, <1>4, <1>5, <1>6 DEF WellFormed, IsLinkBefore

-----------------------------------------------------------------------------
(* The tests.                                                              *)

(* What check_attach has established when it answers Ok.                   *)
LEMMA CheckAttachOk ==
  ASSUME NEW L, WellFormed(L), NEW n \in 1 .. MaxNodes,
         NEW up \in Ids, NEW child \in Ids, check_attach(L, n, up, child) = "Ok"
  PROVE  /\ up \in Slots /\ up < n
         /\ child \in Slots /\ child < n /\ child # Root
         /\ L.parent[child] = None
         /\ ~ is_ancestor_or_self(L, child, up)
<1>1. /\ ~ (up >= n \/ child >= n) /\ child # Root
      /\ ~ makes_cycle(L, up, child) /\ ~ (L.parent[child] # None)
  BY DEF check_attach
<1>2. up \in Slots /\ child \in Slots /\ up < n /\ child < n
  BY <1>1, CapacityAssumption DEF Ids, Slots, Sentinel
<1>3. ~ is_ancestor_or_self(L, child, up)
  BY <1>1, <1>2, ChildlessIsNoAncestor DEF makes_cycle
<1>4. QED
  BY <1>1, <1>2, <1>3

(* Every answer of a test is an outcome.                                   *)
LEMMA VerdictsAreOutcomes ==
  ASSUME NEW L, NEW n, NEW a, NEW b
  PROVE  /\ check_attach(L, n, a, b) \in Outcomes
         /\ check_insert(L, n, a, b) \in Outcomes
         /\ check_reparent(L, n, a, b) \in Outcomes
  BY DEF check_attach, check_insert, check_reparent, Outcomes

-----------------------------------------------------------------------------
(* What a call does to the links once its tests answered Ok.               *)

(* Linking last under the tests of append_child.                           *)
LEMMA AppendSound ==
  ASSUME NEW L, WellFormed(L), NEW n \in 1 .. MaxNodes, FreshUnlinked(L, n),
         NEW up \in Ids, NEW child \in Ids, check_attach(L, n, up, child) = "Ok"
  PROVE  /\ WellFormed(link_last(L, up, child))
         /\ FreshUnlinked(link_last(L, up, child), n)
<1>1. /\ up \in Slots /\ up < n
      /\ child \in Slots /\ child < n /\ child # Root
      /\ L.parent[child] = None
      /\ ~ is_ancestor_or_self(L, child, up)
  BY CheckAttachOk
<1>2. IsLinkLast(L, link_last(L, up, child), up, child)
  BY <1>1, LinkLastFields
<1>3. FreshUnlinked(link_last(L, up, child), n)
  BY <1>1, <1>2, CapacityAssumption DEF IsLinkLast, FreshUnlinked, Root, Slots
<1>4. QED
  BY <1>1, <1>3, LinkLastWellFormed

(* Linking before a sibling under the tests of insert_before.              *)
LEMMA InsertSound ==
  ASSUME NEW L, WellFormed(L), NEW n \in 1 .. MaxNodes, FreshUnlinked(L, n),
         NEW sibling \in Ids, NEW new \in Ids, check_insert(L, n, sibling, new) = "Ok",
         NEW up, up = L.parent[sibling]
  PROVE  /\ WellFormed(link_before(L, up, sibling, new))
         /\ FreshUnlinked(link_before(L, up, sibling, new), n)
<1>1. /\ ~ (new >= n \/ sibling >= n)
      /\ up # None
      /\ check_attach(L, n, up, new) = "Ok"
  BY DEF check_insert
<1>2. sibling \in Slots /\ up \in Slots
  BY <1>1, CapacityAssumption, WellFormedFields DEF Ids, Slots, Sentinel
<1>3. /\ up < n
      /\ new \in Slots /\ new < n /\ new # Root
      /\ L.parent[new] = None
      /\ ~ is_ancestor_or_self(L, new, up)
  BY <1>1, <1>2, CheckAttachOk DEF Ids
<1>4. IsLinkBefore(L, link_before(L, up, sibling, new), up, sibling, new)
  BY <1>2, <1>3, LinkBeforeFields
<1>5. FreshUnlinked(link_before(L, up, sibling, new), n)
  BY <1>3, <1>4, CapacityAssumption DEF IsLinkBefore, FreshUnlinked, Root, Slots
<1>6. QED
  BY <1>2, <1>3, <1>5, LinkBeforeWellFormed

(* Unlinking any slot.                                                     *)
LEMMA UnlinkSound ==
  ASSUME NEW L, WellFormed(L), NEW n \in 1 .. MaxNodes, FreshUnlinked(L, n),
         NEW id \in Slots
  PROVE  /\ WellFormed(unlink(L, id))
         /\ FreshUnlinked(unlink(L, id), n)
<1>1. FreshUnlinked(unlink(L, id), n)
  <2>1. CASE L.parent[id] = None
    BY <2>1 DEF unlink
  <2>2. CASE L.parent[id] # None
    <3>1. IsUnlink(L, unlink(L, id), id)
      BY <2>2, UnlinkFields
    <3>2. \A m \in Slots : m >= n => m # L.parent[id]
      BY ParentsHaveEnds DEF FreshUnlinked
    <3>3. Root \in Slots
      BY CapacityAssumption DEF Root, Slots
    <3>4. QED
      BY <3>1, <3>2, <3>3 DEF IsUnlink, FreshUnlinked
  <2>3. QED
    BY <2>1, <2>2
<1>2. QED
  BY <1>1, UnlinkWellFormed

(* A move that passed the tests of reparent_children is outside.           *)
LEMMA CheckReparentOk ==
  ASSUME NEW L, NEW n \in 1 .. MaxNodes, NEW from \in Ids, NEW to \in Ids,
         check_reparent(L, n, from, to) = "Ok", from # to
  PROVE  MoveIsOutside(L, n, from, to)
<1>1. ~ (from >= n \/ to >= n) /\ ~ is_ancestor_or_self(L, from, to)
  BY DEF check_reparent
<1>2. QED
  BY <1>1, CapacityAssumption DEF MoveIsOutside, Ids, Slots, Sentinel

(* The child a turn of the loop moves is not above its new parent, because *)
(* the node it leaves is not: so the turn closes no cycle, and the node it *)
(* leaves stays outside the new parent's ancestors.                        *)
LEMMA MoveFirstSound ==
  ASSUME NEW L, WellFormed(L), NEW n \in 1 .. MaxNodes, FreshUnlinked(L, n),
         NEW from, NEW to, MoveIsOutside(L, n, from, to), L.first[from] # None
  PROVE  /\ WellFormed(move_first(L, from, to))
         /\ FreshUnlinked(move_first(L, from, to), n)
         /\ MoveIsOutside(move_first(L, from, to), n, from, to)
<1> SUFFICES ASSUME NEW child, child = L.first[from],
                    NEW M, M = unlink(L, child),
                    NEW N, N = link_last(M, to, child)
             PROVE  WellFormed(N) /\ FreshUnlinked(N, n) /\ MoveIsOutside(N, n, from, to)
  BY DEF move_first
<1>1. /\ from \in Slots /\ to \in Slots /\ from < n /\ to < n /\ from # to
      /\ ~ is_ancestor_or_self(L, from, to)
  BY DEF MoveIsOutside
<1>2. child \in Slots /\ L.parent[child] = from
  BY <1>1, WellFormedFields DEF WellFormed, EndsAgree
<1>3. IsUnlink(L, M, child) /\ WellFormed(M) /\ FreshUnlinked(M, n)
  BY <1>1, <1>2, UnlinkFields, UnlinkSound, WellFormedFields
<1>4. child < n /\ child # Root
  BY <1>1, <1>2, WellFormedFields, CapacityAssumption DEF FreshUnlinked, Slots, Root
<1>5. PICK T \in SUBSET Slots : to \in T /\ ParentClosed(L, T) /\ from \notin T
  BY <1>1 DEF is_ancestor_or_self
<1>6. child \notin T
  BY <1>1, <1>2, <1>5, WellFormedFields DEF ParentClosed
<1>7. ParentClosed(M, T)
  BY <1>3, <1>5, <1>6 DEF ParentClosed, IsUnlink
<1>8. ~ is_ancestor_or_self(M, child, to) /\ M.parent[child] = None
  BY <1>2, <1>3, <1>5, <1>6, <1>7 DEF is_ancestor_or_self, IsUnlink
<1>9. WellFormed(N) /\ IsLinkLast(M, N, to, child)
  BY <1>1, <1>2, <1>3, <1>8, LinkLastWellFormed, LinkLastFields
<1>10. ~ is_ancestor_or_self(N, from, to)
  BY <1>5, <1>6, <1>7, <1>9 DEF is_ancestor_or_self, ParentClosed, IsLinkLast
<1>11. FreshUnlinked(N, n)
  BY <1>1, <1>3, <1>4, <1>9, CapacityAssumption DEF IsLinkLast, FreshUnlinked, Slots, Root
<1>12. QED
  BY <1>1, <1>9, <1>10, <1>11 DEF MoveIsOutside

(* Nothing is linked in a new document.                                    *)
LEMMA UnlinkedSound ==
  /\ Unlinked \in Links
  /\ WellFormed(Unlinked)
  /\ \A n \in 1 .. MaxNodes : FreshUnlinked(Unlinked, n)
<1>1. /\ Unlinked.parent = [n \in Slots |-> None]
      /\ Unlinked.first = [n \in Slots |-> None]
      /\ Unlinked.last = [n \in Slots |-> None]
      /\ Unlinked.prev = [n \in Slots |-> None]
      /\ Unlinked.next = [n \in Slots |-> None]
      /\ None \notin Slots /\ Root \in Slots
  BY NoneAssumption, CapacityAssumption DEF Unlinked, Slots, Root
<1>2. Unlinked \in Links
  BY DEF Unlinked, Links, Link
<1>3. WellFormed(Unlinked)
  BY <1>1, <1>2 DEF WellFormed, SiblingsAgree, SiblingsShareParent, EndsAgree,
                    NoSiblingRing, NoAncestorCycle, Leaves
<1>4. QED
  BY <1>1, <1>2, <1>3 DEF FreshUnlinked
===============================================================================
