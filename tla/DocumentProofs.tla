---------------------------- MODULE DocumentProofs ----------------------------
(***************************************************************************)
(* The links of the DOM arena stay a well-formed forest, and implement an  *)
(* ordered one, for an arena of any capacity and any sequence of calls,    *)
(* and its iterators walk it in document order.                            *)
(***************************************************************************)
EXTENDS DocumentTraversal, DomLinksProofs, SequenceTheorems, FiniteSetTheorems

\* The conjuncts of the invariant, as the lemmas on links take them.
LEMMA IndInvParts ==
  IndInv <=> /\ len \in 1 .. MaxNodes
             /\ moving \in {None} \cup [from : Slots, to : Slots]
             /\ outcome \in Outcomes
             /\ WellFormed(links)
             /\ FreshUnlinked(links, len)
             /\ moving # None => MoveIsOutside(links, len, moving.from, moving.to)
  BY DEF IndInv, TypeOK, LinksWellFormed, FreshSlotsUnlinked, MoveStaysOutside, WellFormed

LEMMA InitIndInv == Init => IndInv
  BY UnlinkedSound, IndInvParts, CapacityAssumption DEF Init, Outcomes

LEMMA CreateStep ==
  ASSUME IndInv, create PROVE IndInv'
<1>1. len' \in 1 .. MaxNodes /\ len' >= len /\ outcome' \in Outcomes
  BY IndInvParts, CapacityAssumption DEF create, Outcomes
<1>2. WellFormed(links') /\ FreshUnlinked(links', len')
  BY <1>1, IndInvParts DEF create, FreshUnlinked, Slots
<1>3. QED
  BY <1>1, <1>2, IndInvParts
     DEF create, Idle, IndInv, TypeOK, LinksWellFormed, FreshSlotsUnlinked,
         MoveStaysOutside, WellFormed

LEMMA AppendStep ==
  ASSUME IndInv, NEW up \in Ids, NEW child \in Ids, append_child(up, child)
  PROVE  IndInv'
<1>1. outcome' \in Outcomes
  BY VerdictsAreOutcomes DEF append_child
<1>2. WellFormed(links') /\ FreshUnlinked(links', len)
  BY IndInvParts, AppendSound DEF append_child
<1>3. QED
  BY <1>1, <1>2, IndInvParts
     DEF append_child, Idle, IndInv, TypeOK, LinksWellFormed, FreshSlotsUnlinked,
         MoveStaysOutside, WellFormed

LEMMA InsertStep ==
  ASSUME IndInv, NEW sibling \in Ids, NEW new \in Ids, insert_before(sibling, new)
  PROVE  IndInv'
<1>1. outcome' \in Outcomes
  BY VerdictsAreOutcomes DEF insert_before
<1>2. WellFormed(links') /\ FreshUnlinked(links', len)
  BY IndInvParts, InsertSound DEF insert_before
<1>3. QED
  BY <1>1, <1>2, IndInvParts
     DEF insert_before, Idle, IndInv, TypeOK, LinksWellFormed, FreshSlotsUnlinked,
         MoveStaysOutside, WellFormed

LEMMA DetachStep ==
  ASSUME IndInv, NEW id \in Ids, detach(id)
  PROVE  IndInv'
<1>1. Exists(id) => id \in Slots
  BY IndInvParts, CapacityAssumption DEF Exists, Ids, Sentinel, Slots
<1>2. WellFormed(links') /\ FreshUnlinked(links', len) /\ outcome' \in Outcomes
  BY <1>1, IndInvParts, UnlinkSound DEF detach, Outcomes
<1>3. QED
  BY <1>2, IndInvParts
     DEF detach, Idle, IndInv, TypeOK, LinksWellFormed, FreshSlotsUnlinked,
         MoveStaysOutside, WellFormed

LEMMA ReparentBeginStep ==
  ASSUME IndInv, NEW from \in Ids, NEW to \in Ids, ReparentBegin(from, to)
  PROVE  IndInv'
<1>1. outcome' \in Outcomes
  BY VerdictsAreOutcomes DEF ReparentBegin
<1>2. CASE moving' = None
  BY <1>1, <1>2, IndInvParts
     DEF ReparentBegin, IndInv, TypeOK, LinksWellFormed, FreshSlotsUnlinked,
         MoveStaysOutside
<1>3. CASE moving' # None
  <2>1. moving' = [from |-> from, to |-> to] /\ MoveIsOutside(links, len, from, to)
    BY <1>3, IndInvParts, CheckReparentOk DEF ReparentBegin
  <2>2. moving' \in [from : Slots, to : Slots]
    BY <2>1 DEF MoveIsOutside
  <2>3. QED
    BY <1>1, <2>1, <2>2, IndInvParts
       DEF ReparentBegin, IndInv, TypeOK, LinksWellFormed, FreshSlotsUnlinked,
           MoveStaysOutside
<1>4. QED
  BY <1>2, <1>3

LEMMA ReparentStepStep ==
  ASSUME IndInv, ReparentStep
  PROVE  IndInv'
<1>1. /\ WellFormed(links')
      /\ FreshUnlinked(links', len)
      /\ MoveIsOutside(links', len, moving.from, moving.to)
  BY IndInvParts, MoveFirstSound DEF ReparentStep, Idle
<1>2. QED
  BY <1>1, IndInvParts
     DEF ReparentStep, IndInv, TypeOK, LinksWellFormed, FreshSlotsUnlinked,
         MoveStaysOutside, WellFormed

LEMMA ReparentEndStep ==
  ASSUME IndInv, ReparentEnd
  PROVE  IndInv'
  BY DEF ReparentEnd, IndInv, TypeOK, LinksWellFormed, FreshSlotsUnlinked,
         MoveStaysOutside

LEMMA StutterStep ==
  ASSUME IndInv, UNCHANGED vars
  PROVE  IndInv'
  BY DEF vars, IndInv, TypeOK, LinksWellFormed, FreshSlotsUnlinked, MoveStaysOutside

-----------------------------------------------------------------------------
(* The inductive invariant holds in every reachable state: well-formed     *)
(* links alone do not carry themselves through a running reparenting loop, *)
(* which tests for a cycle on entry only.                                  *)
THEOREM Invariance == Spec => []IndInv
<1>1. IndInv /\ [Next]_vars => IndInv'
  <2> SUFFICES ASSUME IndInv, [Next]_vars PROVE IndInv'
    OBVIOUS
  <2>1. CASE create
    BY <2>1, CreateStep
  <2>2. CASE \E up, child \in Ids : append_child(up, child)
    BY <2>2, AppendStep
  <2>3. CASE \E sibling, new \in Ids : insert_before(sibling, new)
    BY <2>3, InsertStep
  <2>4. CASE \E id \in Ids : detach(id)
    BY <2>4, DetachStep
  <2>5. CASE \E from, to \in Ids : ReparentBegin(from, to)
    BY <2>5, ReparentBeginStep
  <2>6. CASE ReparentStep
    BY <2>6, ReparentStepStep
  <2>7. CASE ReparentEnd
    BY <2>7, ReparentEndStep
  <2>8. CASE UNCHANGED vars
    BY <2>8, StutterStep
  <2>9. QED
    BY <2>1, <2>2, <2>3, <2>4, <2>5, <2>6, <2>7, <2>8 DEF Next
<1>2. QED
  BY <1>1, InitIndInv, PTL DEF Spec

(* Every call leaves a value of the right shape in every field of the      *)
(* arena, whatever ids it was given.                                       *)
THEOREM TypeCorrect == Spec => []TypeOK
<1>1. IndInv => TypeOK
  BY DEF IndInv
<1>2. QED
  BY <1>1, Invariance, PTL

(* No sequence of calls corrupts the links of the arena or makes a node    *)
(* its own ancestor, and slots never handed out stay unlinked.             *)
THEOREM ArenaStaysWellFormed == Spec => []ArenaWellFormed
<1>1. IndInv => ArenaWellFormed
  BY DEF IndInv, ArenaWellFormed
<1>2. QED
  BY <1>1, Invariance, PTL

(* A running reparenting loop never has its target below its source.       *)
THEOREM MovesStayOutside == Spec => []MoveStaysOutside
<1>1. IndInv => MoveStaysOutside
  BY DEF IndInv
<1>2. QED
  BY <1>1, Invariance, PTL
-----------------------------------------------------------------------------
(* The children of a node as a sequence.                                   *)

(* A chain of children misses none: the children it missed would be a ring *)
(* of siblings, since each has a neighbour before it that is missed too.   *)
LEMMA ChainCovers ==
  ASSUME NEW L, WellFormed(L), NEW p \in Slots, NEW s \in Seq(Slots), IsChain(L, p, s),
         NEW c \in Slots, L.parent[c] = p
  PROVE  \E i \in DOMAIN s : s[i] = c
<1> DEFINE Missed == {m \in Slots : L.parent[m] = p /\ \A i \in DOMAIN s : s[i] # m}
<1> SUFFICES ASSUME Missed # {} PROVE FALSE
  OBVIOUS
<1>1. PICK m \in Missed : L.prev[m] \notin Missed
  BY RingFree
<1>2. L.prev[m] # None
  <2>1. SUFFICES ASSUME L.first[p] = m PROVE FALSE
    BY DEF WellFormed, EndsAgree
  <2>2. s # <<>> /\ s[1] = m
    BY <2>1, WellFormedFields DEF IsChain
  <2> QED BY <2>2, EmptySeq
<1>3. PICK q \in Slots : q = L.prev[m]
  BY <1>2, WellFormedFields
<1>4. L.next[q] = m /\ L.parent[q] = p
  BY <1>1, <1>3, WellFormedFields DEF WellFormed, SiblingsAgree, SiblingsShareParent
<1>5. PICK i \in DOMAIN s : s[i] = q
  BY <1>1, <1>3, <1>4
<1>6. i # Len(s) /\ s[i + 1] = m
  BY <1>4, <1>5, WellFormedFields DEF IsChain
<1>7. i + 1 \in DOMAIN s
  BY <1>6
<1> QED BY <1>1, <1>6, <1>7

(* It has each of them once: between two places of one child the chain     *)
(* would be a ring.                                                        *)
LEMMA ChainIsInjective ==
  ASSUME NEW L, WellFormed(L), NEW p \in Slots, NEW s \in Seq(Slots), IsChain(L, p, s),
         NEW i \in DOMAIN s, NEW j \in DOMAIN s, s[i] = s[j]
  PROVE  i = j
<1>1. ASSUME NEW a \in DOMAIN s, NEW b \in DOMAIN s, a < b, s[a] = s[b] PROVE FALSE
  <2> DEFINE Between == {s[k] : k \in a .. b - 1}
  <2>1. \A k \in a .. b - 1 : k \in DOMAIN s /\ k + 1 \in DOMAIN s /\ k # Len(s)
    BY <1>1
  <2>2. \A k \in a .. b - 1 : L.next[s[k]] = s[k + 1]
    BY <2>1 DEF IsChain
  <2>3. \A k \in a .. b - 1 : s[k + 1] \in Between
    <3> SUFFICES ASSUME NEW k \in a .. b - 1 PROVE s[k + 1] \in Between
      OBVIOUS
    <3>1. CASE k + 1 = b
      <4>1. a \in a .. b - 1 /\ s[k + 1] = s[a]
        BY <1>1, <3>1
      <4> QED BY <4>1
    <3>2. CASE k + 1 # b
      <4>1. k + 1 \in a .. b - 1
        BY <1>1, <3>2
      <4> QED BY <4>1
    <3> QED BY <3>1, <3>2
  <2>4. Between \in SUBSET Slots /\ Between # {}
    <3>1. a \in a .. b - 1
      BY <1>1
    <3>2. \A k \in a .. b - 1 : s[k] \in Slots
      BY <2>1, ElementOfSeq
    <3> QED BY <3>1, <3>2
  <2>5. \A c \in Between : L.next[c] \in Between
    BY <2>2, <2>3
  <2> QED BY <2>4, <2>5, RingFree
<1> QED BY <1>1

(* The links of a node chain its children in one way only: the children at *)
(* which two chains part would be a ring, followed backwards.              *)
LEMMA ChainAgrees ==
  ASSUME NEW L, WellFormed(L), NEW p \in Slots,
         NEW s \in Seq(Slots), IsChain(L, p, s), NEW t \in Seq(Slots), IsChain(L, p, t)
  PROVE  \A i \in DOMAIN s : i \in DOMAIN t /\ t[i] = s[i]
<1> DEFINE Parted == {s[i] : i \in {i \in DOMAIN s : ~ (i \in DOMAIN t /\ t[i] = s[i])}}
<1> SUFFICES ASSUME Parted # {} PROVE FALSE
  OBVIOUS
<1>1. Parted \in SUBSET Slots
  BY ElementOfSeq
<1>2. PICK c \in Parted : L.prev[c] \notin Parted
  BY <1>1, RingFree
<1>3. PICK i \in DOMAIN s : c = s[i] /\ ~ (i \in DOMAIN t /\ t[i] = s[i])
  BY <1>2
<1>4. i # 1
  <2>1. SUFFICES ASSUME i = 1 PROVE FALSE
    OBVIOUS
  <2>2. s # <<>> /\ s[1] \in Slots
    BY <1>3, <2>1, ElementOfSeq
  <2>3. L.first[p] = s[1] /\ t # <<>> /\ t[1] = s[1]
    BY <2>2, WellFormedFields DEF IsChain
  <2>4. 1 \in DOMAIN t
    BY <2>3, EmptySeq
  <2> QED BY <1>3, <2>1, <2>3, <2>4
<1>5. i - 1 \in DOMAIN s /\ i - 1 # Len(s) /\ (i - 1) + 1 = i
  BY <1>3, <1>4
<1>6. s[i - 1] \in Slots /\ L.next[s[i - 1]] = c /\ c \in Slots
  BY <1>3, <1>5, ElementOfSeq DEF IsChain
<1>7. L.prev[c] = s[i - 1]
  BY <1>6 DEF WellFormed, SiblingsAgree
<1>8. i - 1 \in DOMAIN t /\ t[i - 1] = s[i - 1]
  BY <1>2, <1>5, <1>7
<1>9. i - 1 # Len(t) /\ t[i] = c
  BY <1>5, <1>6, <1>8, WellFormedFields DEF IsChain
<1>10. i \in DOMAIN t
  BY <1>5, <1>8, <1>9
<1> QED BY <1>3, <1>9, <1>10

(* So a sequence that chains a node's children is the one Chain chooses.   *)
LEMMA ChainChosen ==
  ASSUME NEW L, WellFormed(L), NEW p \in Slots, NEW s \in Seq(Slots), IsChain(L, p, s)
  PROVE  Chain(L, p) = s
<1> DEFINE C == ChildrenOf(L, p)
<1>1. s \in [1 .. Len(s) -> C]
  <2>1. \A i \in 1 .. Len(s) : s[i] \in C
    BY ElementOfSeq DEF IsChain, ChildrenOf
  <2> QED BY <2>1
<1>2. Cardinality(C) = Len(s)
  <2>1. s \in Bijection(1 .. Len(s), C)
    <3>1. \A i, j \in 1 .. Len(s) : s[i] = s[j] => i = j
      BY ChainIsInjective
    <3>2. \A c \in C : \E i \in 1 .. Len(s) : s[i] = c
      BY ChainCovers DEF ChildrenOf
    <3>3. s \in [1 .. Len(s) -> C]
      BY <1>1
    <3> QED BY ONLY <3>1, <3>2, <3>3 DEF Bijection, Injection, Surjection, IsInjective
  <2>2. IsFiniteSet(1 .. Len(s)) /\ Cardinality(1 .. Len(s)) = Len(s)
    <3>1. Len(s) \in Nat
      BY LenProperties
    <3> QED BY <3>1, FS_Interval
  <2>3. ExistsBijection(1 .. Len(s), C)
    BY <2>1 DEF ExistsBijection
  <2> QED BY <2>2, <2>3, FS_Bijection
<1>3. ASSUME NEW t \in [1 .. Len(s) -> C], IsChain(L, p, t) PROVE t = s
  <2>1. t \in Seq(Slots)
    BY DEF ChildrenOf
  <2> QED BY <1>3, <2>1, ChainAgrees, SeqEqual
<1> QED BY <1>1, <1>2, <1>3 DEF Chain

(* What putting an element into a sequence and taking one out of it does,  *)
(* place by place.                                                         *)
IsInserted(S, s, i, e, t) ==
  /\ t \in Seq(S) /\ Len(t) = Len(s) + 1
  /\ \A j \in 1 .. Len(s) + 1 : t[j] = IF j < i THEN s[j] ELSE IF j = i THEN e ELSE s[j - 1]

LEMMA InsertAtPlaces ==
  ASSUME NEW S, NEW s \in Seq(S), NEW i \in 1 .. Len(s), NEW e \in S
  PROVE  IsInserted(S, s, i, e, Forest!InsertAt(s, i, e))
<1> SUFFICES /\ Forest!InsertAt(s, i, e) \in Seq(S)
             /\ Len(Forest!InsertAt(s, i, e)) = Len(s) + 1
             /\ \A j \in 1 .. Len(s) + 1 :
                  Forest!InsertAt(s, i, e)[j] = IF j < i THEN s[j] ELSE IF j = i THEN e ELSE s[j - 1]
  BY DEF IsInserted
<1> DEFINE a == SubSeq(s, 1, i - 1)
           b == SubSeq(s, i, Len(s))
<1>1. Len(s) \in Nat /\ i \in Nat /\ 1 <= i /\ i <= Len(s)
  BY LenProperties
<1>2. \A j \in 1 .. i - 1 : s[j] \in S
  BY <1>1, ElementOfSeq
<1>3. \A j \in i .. Len(s) : s[j] \in S
  BY <1>1, ElementOfSeq
<1>4. a \in Seq(S) /\ Len(a) = i - 1 /\ \A j \in 1 .. i - 1 : a[j] = s[j]
  <2>1. i - 1 \in Int /\ 1 \in Int
    BY <1>1
  <2>2. /\ a \in Seq(S)
        /\ Len(a) = IF 1 <= i - 1 THEN (i - 1) - 1 + 1 ELSE 0
        /\ \A j \in 1 .. (i - 1) - 1 + 1 : a[j] = s[1 + j - 1]
    BY <1>2, <2>1, SubSeqProperties
  <2> HIDE DEF a
  <2> QED BY <1>1, <2>2
<1>5. b \in Seq(S) /\ Len(b) = Len(s) - i + 1 /\ \A j \in 1 .. Len(s) - i + 1 : b[j] = s[i + j - 1]
  <2>1. /\ b \in Seq(S)
        /\ Len(b) = IF i <= Len(s) THEN Len(s) - i + 1 ELSE 0
        /\ \A j \in 1 .. Len(s) - i + 1 : b[j] = s[i + j - 1]
    BY <1>1, <1>3, SubSeqProperties
  <2> HIDE DEF b
  <2> QED BY <1>1, <2>1
<1>6. Forest!InsertAt(s, i, e) = (a \o <<e>>) \o b
  BY DEF Forest!InsertAt
<1> HIDE DEF a, b
<1>7. <<e>> \in Seq(S) /\ Len(<<e>>) = 1 /\ <<e>>[1] = e
  OBVIOUS
<1>8. /\ a \o <<e>> \in Seq(S) /\ Len(a \o <<e>>) = i
      /\ \A j \in 1 .. i : (a \o <<e>>)[j] = IF j < i THEN s[j] ELSE e
  BY <1>1, <1>4, <1>7, ConcatProperties
<1>9. /\ (a \o <<e>>) \o b \in Seq(S) /\ Len((a \o <<e>>) \o b) = Len(s) + 1
      /\ \A j \in 1 .. Len(s) + 1 :
            ((a \o <<e>>) \o b)[j] = IF j <= i THEN (a \o <<e>>)[j] ELSE b[j - i]
  <2> DEFINE f == a \o <<e>>
  <2>1. f \in Seq(S) /\ Len(f) = i
    BY <1>8
  <2> HIDE DEF f
  <2>2. f \o b \in Seq(S) /\ Len(f \o b) = Len(s) + 1
    <3>1. f \o b \in Seq(S) /\ Len(f \o b) = Len(f) + Len(b)
      BY <1>5, <2>1, ConcatProperties
    <3> QED BY <1>1, <1>5, <2>1, <3>1
  <2>3. \A j \in 1 .. Len(s) + 1 : (f \o b)[j] = IF j <= i THEN f[j] ELSE b[j - i]
    BY <1>1, <1>5, <2>1, ConcatProperties
  <2> QED BY <2>2, <2>3 DEF f
<1> QED BY <1>1, <1>5, <1>6, <1>8, <1>9

LEMMA RemoveAtPlaces ==
  ASSUME NEW S, NEW s \in Seq(S), NEW i \in 1 .. Len(s)
  PROVE  /\ Forest!RemoveAt(s, i) \in Seq(S)
         /\ Len(Forest!RemoveAt(s, i)) = Len(s) - 1
         /\ \A j \in 1 .. Len(s) - 1 :
              Forest!RemoveAt(s, i)[j] = IF j < i THEN s[j] ELSE s[j + 1]
<1> DEFINE a == SubSeq(s, 1, i - 1)
           b == SubSeq(s, i + 1, Len(s))
<1>1. Len(s) \in Nat /\ i \in Nat /\ 1 <= i /\ i <= Len(s)
  BY LenProperties
<1>2. \A j \in 1 .. i - 1 : s[j] \in S
  BY <1>1, ElementOfSeq
<1>3. \A j \in i + 1 .. Len(s) : s[j] \in S
  BY <1>1, ElementOfSeq
<1>4. a \in Seq(S) /\ Len(a) = i - 1 /\ \A j \in 1 .. i - 1 : a[j] = s[j]
  <2>1. i - 1 \in Int /\ 1 \in Int
    BY <1>1
  <2>2. /\ a \in Seq(S)
        /\ Len(a) = IF 1 <= i - 1 THEN (i - 1) - 1 + 1 ELSE 0
        /\ \A j \in 1 .. (i - 1) - 1 + 1 : a[j] = s[1 + j - 1]
    BY <1>2, <2>1, SubSeqProperties
  <2> HIDE DEF a
  <2> QED BY <1>1, <2>2
<1>5. b \in Seq(S) /\ Len(b) = Len(s) - i /\ \A j \in 1 .. Len(s) - i : b[j] = s[i + j]
  <2>1. i + 1 \in Int
    BY <1>1
  <2>2. /\ b \in Seq(S)
        /\ Len(b) = IF i + 1 <= Len(s) THEN Len(s) - (i + 1) + 1 ELSE 0
        /\ \A j \in 1 .. Len(s) - (i + 1) + 1 : b[j] = s[(i + 1) + j - 1]
    BY <1>1, <1>3, <2>1, SubSeqProperties
  <2> HIDE DEF b
  <2> QED BY <1>1, <2>2
<1>6. Forest!RemoveAt(s, i) = a \o b
  BY DEF Forest!RemoveAt
<1> HIDE DEF a, b
<1>7. a \o b \in Seq(S) /\ Len(a \o b) = Len(s) - 1
  <2>1. a \o b \in Seq(S) /\ Len(a \o b) = Len(a) + Len(b)
    BY <1>4, <1>5, ConcatProperties
  <2> QED BY <1>1, <1>4, <1>5, <2>1
<1>8. \A j \in 1 .. Len(s) - 1 : (a \o b)[j] = IF j <= i - 1 THEN a[j] ELSE b[j - (i - 1)]
  BY <1>1, <1>4, <1>5, ConcatProperties
<1> QED BY <1>1, <1>4, <1>5, <1>6, <1>7, <1>8

-----------------------------------------------------------------------------
(* What the mutators do to the chains.                                     *)

\* Every node's children are chained by a sequence that has an end.
HasChains(L) == \A p \in Slots : \E s \in Seq(Slots) : IsChain(L, p, s)

\* The sequences K with s in the place of p's.
With(K, p, s) == [K EXCEPT ![p] = s]

LEMMA ChainsAre ==
  ASSUME NEW L, WellFormed(L), HasChains(L)
  PROVE  /\ Chains(L) \in [Slots -> Seq(Slots)]
         /\ \A p \in Slots : Chains(L)[p] = Chain(L, p) /\ IsChain(L, p, Chains(L)[p])
<1>1. \A p \in Slots : Chain(L, p) \in Seq(Slots) /\ IsChain(L, p, Chain(L, p))
  BY ChainChosen DEF HasChains
<1> QED BY <1>1 DEF Chains

LEMMA ChainsBecome ==
  ASSUME NEW M, WellFormed(M), NEW K \in [Slots -> Seq(Slots)], \A p \in Slots : IsChain(M, p, K[p])
  PROVE  HasChains(M) /\ Chains(M) = K
<1>1. \A p \in Slots : Chain(M, p) = K[p]
  BY ChainChosen
<1> QED BY <1>1 DEF HasChains, Chains

\* Where a chain ends its parent's last child is.
LEMMA ChainEnds ==
  ASSUME NEW L, WellFormed(L), NEW p \in Slots, NEW s \in Seq(Slots), IsChain(L, p, s)
  PROVE  L.last[p] = IF s = <<>> THEN None ELSE s[Len(s)]
<1>1. CASE s = <<>>
  <2>1. L.first[p] = None
    BY <1>1 DEF IsChain
  <2>2. \A c \in Slots : L.parent[c] # p
    BY <2>1, ParentsHaveEnds
  <2> QED BY <1>1, <2>2, WellFormedFields DEF WellFormed, EndsAgree
<1>2. CASE s # <<>>
  <2>1. Len(s) \in DOMAIN s
    BY <1>2, EmptySeq, LenProperties
  <2>2. s[Len(s)] \in Slots
    BY <2>1, ElementOfSeq
  <2>3. L.parent[s[Len(s)]] = p /\ L.next[s[Len(s)]] = None
    BY <2>1 DEF IsChain
  <2> QED BY <1>2, <2>2, <2>3 DEF WellFormed, EndsAgree
<1> QED BY <1>1, <1>2

(* Linking last appends to the new parent's chain and to no other.         *)
LEMMA LinkLastChains ==
  ASSUME NEW L, WellFormed(L), HasChains(L), NEW up \in Slots, NEW child \in Slots,
         L.parent[child] = None, ~ is_ancestor_or_self(L, child, up)
  PROVE  /\ HasChains(link_last(L, up, child))
         /\ Chains(link_last(L, up, child)) = With(Chains(L), up, Append(Chains(L)[up], child))
<1> SUFFICES ASSUME NEW M, WellFormed(M), IsLinkLast(L, M, up, child)
             PROVE  HasChains(M) /\ Chains(M) = [Chains(L) EXCEPT ![up] = Append(@, child)]
  BY LinkLastWellFormed, LinkLastFields DEF With
<1> DEFINE s == Chains(L)[up]
           K == [Chains(L) EXCEPT ![up] = Append(@, child)]
<1>1. /\ Chains(L) \in [Slots -> Seq(Slots)]
      /\ \A p \in Slots : IsChain(L, p, Chains(L)[p])
  BY ChainsAre
<1>2. s \in Seq(Slots) /\ IsChain(L, up, s) /\ Len(s) \in Nat
  BY <1>1, LenProperties
<1>3. /\ Append(s, child) \in Seq(Slots) /\ Len(Append(s, child)) = Len(s) + 1
      /\ \A i \in 1 .. Len(s) : Append(s, child)[i] = s[i]
      /\ Append(s, child)[Len(s) + 1] = child
  BY <1>2, AppendProperties
<1>4. K \in [Slots -> Seq(Slots)] /\ K[up] = Append(s, child)
      /\ \A p \in Slots \ {up} : K[p] = Chains(L)[p]
  BY <1>1, <1>3
<1>5. L.last[up] = IF s = <<>> THEN None ELSE s[Len(s)]
  BY <1>2, ChainEnds
<1>6. ASSUME NEW p \in Slots \ {up} PROVE IsChain(M, p, K[p])
  <2>1. PICK t \in Seq(Slots) : t = Chains(L)[p] /\ IsChain(L, p, t)
    BY <1>1
  <2>2. \A i \in DOMAIN t : t[i] \in Slots /\ t[i] # child /\ t[i] # L.last[up]
    <3>1. \A i \in DOMAIN t : t[i] \in Slots /\ L.parent[t[i]] = p
      BY <2>1, ElementOfSeq DEF IsChain
    <3> QED BY <3>1, WellFormedFields DEF WellFormed, EndsAgree
  <2>3. IsChain(M, p, t)
    BY <2>1, <2>2 DEF IsChain, IsLinkLast
  <2> QED BY <1>4, <2>1, <2>3
<1>7. IsChain(M, up, Append(s, child))
  <2> DEFINE t == Append(s, child)
  <2>1. t # <<>> /\ DOMAIN t = 1 .. Len(s) + 1
    BY <1>2, <1>3, EmptySeq, LenProperties
  <2>2. M.first[up] = t[1]
    <3>1. CASE s = <<>>
      BY <1>2, <1>3, <1>5, <3>1 DEF IsLinkLast
    <3>2. CASE s # <<>>
      <4>1. 1 \in 1 .. Len(s)
        BY <1>2, <3>2, EmptySeq
      <4>2. L.last[up] # None
        BY <1>2, <4>1, <3>2, ParentsHaveEnds, ElementOfSeq DEF IsChain
      <4> QED BY <1>2, <1>3, <3>2, <4>1, <4>2 DEF IsLinkLast, IsChain
    <3> QED BY <3>1, <3>2
  <2>3. ASSUME NEW i \in 1 .. Len(s)
        PROVE  M.parent[t[i]] = up /\ M.next[t[i]] = t[i + 1]
    <3>1. /\ s[i] \in Slots /\ L.parent[s[i]] = up /\ s[i] # child
          /\ L.next[s[i]] = IF i = Len(s) THEN None ELSE s[i + 1]
      BY <1>2, ElementOfSeq, WellFormedFields DEF IsChain
    <3>2. CASE i = Len(s)
      <4>1. s # <<>>
        BY <1>2, EmptySeq
      <4> QED BY <1>3, <1>5, <3>1, <3>2, <4>1 DEF IsLinkLast
    <3>3. CASE i # Len(s)
      <4>1. i + 1 \in 1 .. Len(s)
        BY <1>2, <3>3
      <4>2. s[i] # L.last[up]
        <5>1. L.next[s[i]] # None
          BY <3>1, <3>3, <4>1, <1>2, ElementOfSeq, WellFormedFields
        <5> QED BY <3>1, <5>1 DEF WellFormed, EndsAgree
      <4> QED BY <1>3, <3>1, <3>3, <4>1, <4>2 DEF IsLinkLast
    <3> QED BY <3>2, <3>3
  <2>4. M.parent[child] = up /\ M.next[child] = None
    <3>1. L.last[up] # child
      BY WellFormedFields DEF WellFormed, EndsAgree
    <3> QED BY <3>1 DEF IsLinkLast
  <2>5. ASSUME NEW i \in DOMAIN t
        PROVE  M.parent[t[i]] = up /\ M.next[t[i]] = IF i = Len(t) THEN None ELSE t[i + 1]
    <3>1. CASE i = Len(s) + 1
      BY <1>3, <2>4, <3>1
    <3>2. CASE i # Len(s) + 1
      <4>1. i \in 1 .. Len(s) /\ i # Len(t)
        BY <1>2, <1>3, <2>1, <3>2
      <4> QED BY <2>3, <4>1
    <3> QED BY <3>1, <3>2
  <2> HIDE DEF t
  <2>6. IsChain(M, up, t)
    BY <2>1, <2>2, <2>5 DEF IsChain
  <2> QED BY <2>6 DEF t
<1> HIDE DEF K
<1>8. \A p \in Slots : IsChain(M, p, K[p])
  BY <1>4, <1>6, <1>7
<1>9. HasChains(M) /\ Chains(M) = K
  BY <1>4, <1>8, ChainsBecome
<1> QED BY <1>9 DEF K

\* Backwards a chain has the same neighbours.
LEMMA ChainBackwards ==
  ASSUME NEW L, WellFormed(L), NEW p \in Slots, NEW s \in Seq(Slots), IsChain(L, p, s),
         NEW i \in DOMAIN s
  PROVE  L.prev[s[i]] = IF i = 1 THEN None ELSE s[i - 1]
<1>1. s[i] \in Slots /\ L.parent[s[i]] = p
  BY ElementOfSeq DEF IsChain
<1>2. CASE i = 1
  <2>1. L.first[p] = s[i]
    BY <1>2, EmptySeq DEF IsChain
  <2> QED BY <1>1, <1>2, <2>1 DEF WellFormed, EndsAgree
<1>3. CASE i # 1
  <2>1. i - 1 \in DOMAIN s /\ i - 1 # Len(s) /\ (i - 1) + 1 = i
    BY <1>3
  <2>2. s[i - 1] \in Slots /\ L.next[s[i - 1]] = s[i]
    BY <2>1, ElementOfSeq DEF IsChain
  <2> QED BY <1>1, <1>3, <2>2 DEF WellFormed, SiblingsAgree
<1> QED BY <1>2, <1>3

(* Linking before a sibling puts the node at the sibling's place of its    *)
(* chain, and changes no other.                                            *)
LEMMA LinkBeforeChains ==
  ASSUME NEW L, WellFormed(L), HasChains(L), NEW up \in Slots, NEW sibling \in Slots,
         NEW new \in Slots, L.parent[sibling] = up, L.parent[new] = None,
         ~ is_ancestor_or_self(L, new, up),
         NEW i \in DOMAIN Chains(L)[up], Chains(L)[up][i] = sibling
  PROVE  /\ HasChains(link_before(L, up, sibling, new))
         /\ Chains(link_before(L, up, sibling, new)) =
              With(Chains(L), up, Forest!InsertAt(Chains(L)[up], i, new))
<1> SUFFICES ASSUME NEW M, WellFormed(M), IsLinkBefore(L, M, up, sibling, new)
             PROVE  /\ HasChains(M)
                    /\ Chains(M) = [Chains(L) EXCEPT ![up] = Forest!InsertAt(@, i, new)]
  BY LinkBeforeWellFormed, LinkBeforeFields DEF With
<1> DEFINE s == Chains(L)[up]
           t == Forest!InsertAt(s, i, new)
           K == [Chains(L) EXCEPT ![up] = Forest!InsertAt(@, i, new)]
<1>1. /\ Chains(L) \in [Slots -> Seq(Slots)]
      /\ \A p \in Slots : IsChain(L, p, Chains(L)[p])
  BY ChainsAre
<1>2. s \in Seq(Slots) /\ IsChain(L, up, s) /\ Len(s) \in Nat /\ i \in 1 .. Len(s) /\ s[i] = sibling
  <2>1. s \in Seq(Slots) /\ IsChain(L, up, s) /\ i \in DOMAIN s /\ s[i] = sibling
    BY <1>1
  <2> HIDE DEF s
  <2> QED BY ONLY <2>1, LenProperties
<1>3. /\ t \in Seq(Slots) /\ Len(t) = Len(s) + 1
      /\ \A j \in 1 .. Len(s) + 1 : t[j] = IF j < i THEN s[j] ELSE IF j = i THEN new ELSE s[j - 1]
  <2>1. new \in Slots
    OBVIOUS
  <2> HIDE DEF s
  <2>2. IsInserted(Slots, s, i, new, t)
    BY ONLY <1>2, <2>1, InsertAtPlaces
  <2> QED BY ONLY <2>2 DEF IsInserted
<1>4. K \in [Slots -> Seq(Slots)] /\ K[up] = t
      /\ \A p \in Slots \ {up} : K[p] = Chains(L)[p]
  BY <1>1, <1>3
<1>5. L.prev[sibling] = IF i = 1 THEN None ELSE s[i - 1]
  <2>1. ASSUME NEW u \in Seq(Slots), IsChain(L, up, u), NEW j \in 1 .. Len(u)
        PROVE  L.prev[u[j]] = IF j = 1 THEN None ELSE u[j - 1]
    <3>1. j \in DOMAIN u
      BY <2>1, LenProperties
    <3> QED BY ONLY <2>1, <3>1, WellFormed(L), up \in Slots, ChainBackwards
  <2> HIDE DEF s
  <2> QED BY <1>2, <2>1
<1>6. ASSUME NEW p \in Slots \ {up} PROVE IsChain(M, p, K[p])
  <2>1. PICK u \in Seq(Slots) : u = Chains(L)[p] /\ IsChain(L, p, u)
    BY <1>1
  <2>2. \A j \in DOMAIN u : u[j] \in Slots /\ u[j] # new /\ u[j] # L.prev[sibling]
    <3>1. \A j \in DOMAIN u : u[j] \in Slots /\ L.parent[u[j]] = p
      BY <2>1, ElementOfSeq DEF IsChain
    <3> QED BY <3>1, WellFormedFields DEF WellFormed, SiblingsAgree, SiblingsShareParent
  <2>3. IsChain(M, p, u)
    BY <2>1, <2>2 DEF IsChain, IsLinkBefore
  <2> QED BY <1>4, <2>1, <2>3
<1> HIDE DEF s, t, K
<1>7. IsChain(M, up, t)
  <2>1. t # <<>> /\ DOMAIN t = 1 .. Len(s) + 1
    BY <1>2, <1>3, EmptySeq, LenProperties
  <2>2. \A j \in 1 .. Len(s) : /\ s[j] \in Slots /\ L.parent[s[j]] = up /\ s[j] # new
                                /\ L.next[s[j]] = IF j = Len(s) THEN None ELSE s[j + 1]
    BY <1>2, ElementOfSeq, WellFormedFields DEF IsChain
  <2>3. M.first[up] = t[1]
    <3>1. L.first[up] = s[1]
      BY <1>2, EmptySeq DEF IsChain
    <3>2. CASE i = 1
      BY <1>2, <1>3, <1>5, <3>2 DEF IsLinkBefore
    <3>3. CASE i # 1
      <4>1. L.prev[sibling] # None /\ t[1] = s[1]
        BY <1>2, <1>3, <1>5, <2>2, <3>3, WellFormedFields
      <4> QED BY <3>1, <4>1 DEF IsLinkBefore
    <3> QED BY <3>2, <3>3
  <2>4. new # L.prev[sibling]
    BY WellFormedFields DEF WellFormed, SiblingsAgree, SiblingsShareParent
  <2>5. ASSUME NEW j \in 1 .. Len(s)
        PROVE  /\ M.parent[s[j]] = up
               /\ M.next[s[j]] = IF j = i - 1 THEN new ELSE L.next[s[j]]
    <3>1. M.parent[s[j]] = up
      BY <2>2 DEF IsLinkBefore
    <3>2. M.next[s[j]] = IF s[j] = L.prev[sibling] THEN new ELSE L.next[s[j]]
      BY <2>2 DEF IsLinkBefore
    <3>3. s[j] = L.prev[sibling] <=> j = i - 1
      <4>1. CASE i = 1
        BY <1>5, <2>2, <4>1, WellFormedFields
      <4>2. CASE i # 1
        <5>1. i - 1 \in 1 .. Len(s)
          BY <1>2, <4>2
        <5>2. s[j] = s[i - 1] => j = i - 1
          BY <1>2, <5>1, ChainIsInjective, LenProperties
        <5> QED BY <1>5, <4>2, <5>2
      <4> QED BY <4>1, <4>2
    <3> QED BY <3>1, <3>2, <3>3
  <2>6. ASSUME NEW j \in 1 .. Len(s) + 1
        PROVE  M.parent[t[j]] = up /\ M.next[t[j]] = IF j = Len(s) + 1 THEN None ELSE t[j + 1]
    <3>1. CASE j < i
      <4>1. j \in 1 .. Len(s) /\ j # Len(s) /\ j + 1 \in 1 .. Len(s) + 1 /\ j # Len(s) + 1 /\ t[j] = s[j]
        BY <1>2, <1>3, <3>1
      <4>2. t[j + 1] = IF j = i - 1 THEN new ELSE s[j + 1]
        BY <1>2, <1>3, <3>1, <4>1
      <4>3. L.next[s[j]] = s[j + 1]
        BY <2>2, <4>1
      <4> QED BY <2>5, <4>1, <4>2, <4>3
    <3>2. CASE j = i
      <4>1. t[j] = new /\ j # Len(s) + 1 /\ t[j + 1] = sibling
        BY <1>2, <1>3, <3>2
      <4> QED BY <2>4, <4>1 DEF IsLinkBefore
    <3>3. CASE i < j
      <4>1. j - 1 \in 1 .. Len(s) /\ t[j] = s[j - 1] /\ j - 1 # i - 1 /\ (j - 1) + 1 = j
        BY <1>2, <1>3, <3>3
      <4>2. j # Len(s) + 1 => t[j + 1] = s[j]
        <5> SUFFICES ASSUME j # Len(s) + 1 PROVE t[j + 1] = s[j]
          OBVIOUS
        <5>1. j + 1 \in 1 .. Len(s) + 1 /\ ~ (j + 1 < i) /\ j + 1 # i /\ (j + 1) - 1 = j
          BY ONLY <1>2, <3>3, j \in 1 .. Len(s) + 1, j # Len(s) + 1, SMT
        <5> QED BY <1>3, <5>1
      <4>3. L.next[s[j - 1]] = IF j - 1 = Len(s) THEN None ELSE s[j]
        BY <2>2, <4>1
      <4>4. M.parent[s[j - 1]] = up /\ M.next[s[j - 1]] = L.next[s[j - 1]]
        BY <2>5, <4>1
      <4> QED BY <1>2, <4>1, <4>2, <4>3, <4>4
    <3> QED BY <1>2, <3>1, <3>2, <3>3
  <2> QED BY <1>3, <2>1, <2>3, <2>6 DEF IsChain
<1>8. \A p \in Slots : IsChain(M, p, K[p])
  BY <1>4, <1>6, <1>7
<1>9. HasChains(M) /\ Chains(M) = K
  BY <1>4, <1>8, ChainsBecome
<1> QED BY <1>9 DEF K

(* Unlinking takes the node out of its parent's chain and leaves the       *)
(* others, its own included.                                               *)
LEMMA UnlinkChains ==
  ASSUME NEW L, WellFormed(L), HasChains(L), NEW id \in Slots, NEW up \in Slots,
         L.parent[id] = up, NEW i \in DOMAIN Chains(L)[up], Chains(L)[up][i] = id
  PROVE  /\ HasChains(unlink(L, id))
         /\ Chains(unlink(L, id)) = With(Chains(L), up, Forest!RemoveAt(Chains(L)[up], i))
<1> SUFFICES ASSUME NEW M, WellFormed(M), IsUnlink(L, M, id)
             PROVE  HasChains(M) /\ Chains(M) = [Chains(L) EXCEPT ![up] = Forest!RemoveAt(@, i)]
  BY UnlinkWellFormed, UnlinkFields, WellFormedFields DEF With
<1> DEFINE s == Chains(L)[up]
           t == Forest!RemoveAt(s, i)
           K == [Chains(L) EXCEPT ![up] = Forest!RemoveAt(@, i)]
<1>1. /\ Chains(L) \in [Slots -> Seq(Slots)]
      /\ \A p \in Slots : IsChain(L, p, Chains(L)[p])
  BY ChainsAre
<1>2. s \in Seq(Slots) /\ IsChain(L, up, s) /\ Len(s) \in Nat /\ i \in 1 .. Len(s) /\ s[i] = id
  <2>1. s \in Seq(Slots) /\ IsChain(L, up, s) /\ i \in DOMAIN s /\ s[i] = id
    BY <1>1
  <2> HIDE DEF s
  <2> QED BY ONLY <2>1, LenProperties
<1>3. /\ t \in Seq(Slots) /\ Len(t) = Len(s) - 1
      /\ \A j \in 1 .. Len(s) - 1 : t[j] = IF j < i THEN s[j] ELSE s[j + 1]
  <2> HIDE DEF s
  <2> QED BY <1>2, RemoveAtPlaces
<1>4. K \in [Slots -> Seq(Slots)] /\ K[up] = t
      /\ \A p \in Slots \ {up} : K[p] = Chains(L)[p]
  BY <1>1, <1>3
<1>5. L.prev[id] = IF i = 1 THEN None ELSE s[i - 1]
  <2>1. ASSUME NEW u \in Seq(Slots), IsChain(L, up, u), NEW j \in 1 .. Len(u)
        PROVE  L.prev[u[j]] = IF j = 1 THEN None ELSE u[j - 1]
    <3>1. j \in DOMAIN u
      BY <2>1, LenProperties
    <3> QED BY ONLY <2>1, <3>1, WellFormed(L), up \in Slots, ChainBackwards
  <2> HIDE DEF s
  <2> QED BY <1>2, <2>1
<1>6. ASSUME NEW p \in Slots \ {up} PROVE IsChain(M, p, K[p])
  <2>1. PICK u \in Seq(Slots) : u = Chains(L)[p] /\ IsChain(L, p, u)
    BY <1>1
  <2>2. \A j \in DOMAIN u : u[j] \in Slots /\ u[j] # id /\ u[j] # L.prev[id]
    <3>1. \A j \in DOMAIN u : u[j] \in Slots /\ L.parent[u[j]] = p
      BY <2>1, ElementOfSeq DEF IsChain
    <3> QED BY <3>1, WellFormedFields DEF WellFormed, SiblingsAgree, SiblingsShareParent
  <2>3. IsChain(M, p, u)
    BY <2>1, <2>2 DEF IsChain, IsUnlink
  <2> QED BY <1>4, <2>1, <2>3
<1> HIDE DEF s, t, K
<1>7. IsChain(M, up, t)
  <2>1. DOMAIN t = 1 .. Len(s) - 1 /\ (t = <<>> <=> Len(s) = 1)
    BY <1>2, <1>3, EmptySeq, LenProperties
  <2>2. \A j \in 1 .. Len(s) : /\ s[j] \in Slots /\ L.parent[s[j]] = up
                                /\ L.next[s[j]] = IF j = Len(s) THEN None ELSE s[j + 1]
    BY <1>2, ElementOfSeq DEF IsChain
  <2>3. M.first[up] = IF t = <<>> THEN None ELSE t[1]
    <3>1. L.first[up] = s[1]
      BY <1>2, EmptySeq DEF IsChain
    <3>2. CASE i = 1
      <4>1. M.first[up] = L.next[id]
        BY <1>5, <3>2 DEF IsUnlink
      <4>3. L.next[id] = IF Len(s) = 1 THEN None ELSE s[2]
        <5>1. L.next[s[i]] = IF i = Len(s) THEN None ELSE s[i + 1]
          BY <1>2, <2>2
        <5>2. i + 1 = 2 /\ (i = Len(s) <=> Len(s) = 1)
          BY <1>2, <3>2
        <5> QED BY <1>2, <5>1, <5>2
      <4>2. Len(s) # 1 => t[1] = s[2]
        BY <1>2, <1>3, <3>2
      <4> QED BY <2>1, <4>1, <4>2, <4>3
    <3>3. CASE i # 1
      <4>1. L.prev[id] # None /\ t[1] = s[1] /\ Len(s) # 1
        BY <1>2, <1>3, <1>5, <2>2, <3>3, WellFormedFields
      <4> QED BY <2>1, <3>1, <4>1 DEF IsUnlink
    <3> QED BY <3>2, <3>3
  <2>4. ASSUME NEW j \in 1 .. Len(s), j # i
        PROVE  /\ M.parent[s[j]] = up
               /\ M.next[s[j]] = IF j = i - 1 THEN L.next[id] ELSE L.next[s[j]]
    <3>1. s[j] # id
      BY <1>2, <2>4, ChainIsInjective, LenProperties
    <3>2. /\ M.parent[s[j]] = up
          /\ M.next[s[j]] = IF s[j] = L.prev[id] THEN L.next[id] ELSE L.next[s[j]]
      BY <2>2, <3>1 DEF IsUnlink
    <3>3. s[j] = L.prev[id] <=> j = i - 1
      <4>1. CASE i = 1
        BY <1>5, <2>2, <4>1, WellFormedFields
      <4>2. CASE i # 1
        <5>1. i - 1 \in 1 .. Len(s)
          BY <1>2, <4>2
        <5>2. s[j] = s[i - 1] => j = i - 1
          BY <1>2, <5>1, ChainIsInjective, LenProperties
        <5> QED BY <1>5, <4>2, <5>2
      <4> QED BY <4>1, <4>2
    <3> QED BY <3>2, <3>3
  <2>5. ASSUME NEW j \in 1 .. Len(s) - 1
        PROVE  M.parent[t[j]] = up /\ M.next[t[j]] = IF j = Len(s) - 1 THEN None ELSE t[j + 1]
    <3>1. CASE j < i - 1
      <4>1. j \in 1 .. Len(s) /\ j # i /\ j # i - 1 /\ j # Len(s) /\ j # Len(s) - 1
        BY <1>2, <3>1
      <4>2. t[j] = s[j] /\ t[j + 1] = s[j + 1]
        BY <1>2, <1>3, <3>1
      <4> QED BY <2>2, <2>4, <4>1, <4>2
    <3>2. CASE j = i - 1
      <4>1. j \in 1 .. Len(s) /\ j # i /\ t[j] = s[j] /\ (j = Len(s) - 1 <=> i = Len(s))
        BY <1>2, <1>3, <3>2
      <4>2. j # Len(s) - 1 => t[j + 1] = s[i + 1]
        BY <1>2, <1>3, <3>2
      <4>3. L.next[id] = IF i = Len(s) THEN None ELSE s[i + 1]
        BY <1>2, <2>2
      <4> QED BY <2>4, <3>2, <4>1, <4>2, <4>3
    <3>3. CASE i <= j
      <4>1. j + 1 \in 1 .. Len(s) /\ j + 1 # i /\ j + 1 # i - 1 /\ t[j] = s[j + 1]
        BY <1>2, <1>3, <3>3
      <4>2. j # Len(s) - 1 => t[j + 1] = s[(j + 1) + 1]
        BY <1>2, <1>3, <3>3
      <4>3. L.next[s[j + 1]] = IF j + 1 = Len(s) THEN None ELSE s[(j + 1) + 1]
        BY <2>2, <4>1
      <4>4. M.parent[s[j + 1]] = up /\ M.next[s[j + 1]] = L.next[s[j + 1]]
        BY <2>4, <4>1
      <4>5. j + 1 = Len(s) <=> j = Len(s) - 1
        BY <1>2
      <4> QED BY <4>1, <4>2, <4>3, <4>4, <4>5
    <3> QED BY <1>2, <3>1, <3>2, <3>3
  <2> QED BY <1>3, <2>1, <2>3, <2>5 DEF IsChain
<1>8. \A p \in Slots : IsChain(M, p, K[p])
  BY <1>4, <1>6, <1>7
<1>9. HasChains(M) /\ Chains(M) = K
  BY <1>4, <1>8, ChainsBecome
<1> QED BY <1>9 DEF K

-----------------------------------------------------------------------------
(* The arena read as a forest.                                             *)

LEMMA ForestNodes == Forest!Nodes = Slots /\ Forest!Root = Root
  BY DEF Forest!Nodes, Slots, Forest!Root, Root

LEMMA HasMeansParent ==
  ASSUME moving = None, WellFormed(links), HasChains(links), NEW p \in Slots, NEW c \in Slots
  PROVE  /\ Forest!Has(p, c) <=> links.parent[c] = p
         /\ c \in Forest!ToSet(SettledKids[p]) <=> links.parent[c] = p
<1>1. PICK s \in Seq(Slots) : s = SettledKids[p] /\ IsChain(links, p, s)
  BY ChainsAre DEF SettledKids
<1>2. (\E i \in DOMAIN s : s[i] = c) <=> links.parent[c] = p
  BY <1>1, ChainCovers DEF IsChain
<1>3. DOMAIN s = 1 .. Len(s)
  BY LenProperties
<1> QED BY <1>1, <1>2, <1>3 DEF Forest!Has, Forest!Contains, Forest!ToSet

LEMMA AttachedMeansParent ==
  ASSUME moving = None, WellFormed(links), HasChains(links), NEW c \in Slots
  PROVE  /\ Forest!Attached(c) <=> links.parent[c] # None
         /\ Forest!Attached(c) => Forest!ParentOf(c) = links.parent[c]
<1>1. Forest!Attached(c) <=> \E p \in Slots : links.parent[c] = p
  BY HasMeansParent, ForestNodes DEF Forest!Attached
<1>2. Forest!ParentOf(c) = CHOOSE p \in Slots : Forest!Has(p, c)
  BY ForestNodes DEF Forest!ParentOf
<1>3. \A p \in Slots : Forest!Has(p, c) <=> links.parent[c] = p
  BY HasMeansParent
<1> QED BY <1>1, <1>2, <1>3, WellFormedFields

LEMMA PlaceIsInChain ==
  ASSUME moving = None, WellFormed(links), HasChains(links), NEW c \in Slots,
         NEW up \in Slots, links.parent[c] = up
  PROVE  /\ Forest!ParentOf(c) = up
         /\ Forest!Place(c) \in DOMAIN Chains(links)[up]
         /\ Chains(links)[up][Forest!Place(c)] = c
<1>1. Forest!ParentOf(c) = up
  BY AttachedMeansParent, WellFormedFields
<1>2. PICK s \in Seq(Slots) : s = Chains(links)[up] /\ IsChain(links, up, s)
  BY ChainsAre
<1>3. Forest!Place(c) = CHOOSE i \in DOMAIN s : s[i] = c
  BY <1>1, <1>2 DEF Forest!Place, SettledKids
<1>4. \E i \in DOMAIN s : s[i] = c
  BY <1>2, ChainCovers
<1> QED BY <1>1, <1>2, <1>3, <1>4

(* The nodes below a node by its children are those above which it is by   *)
(* their parents: what one closed set lacks the other one has.             *)
LEMMA SubtreeMeansAncestor ==
  ASSUME moving = None, WellFormed(links), HasChains(links), NEW a \in Slots, NEW n \in Slots
  PROVE  n \in Forest!Subtree(a) <=> is_ancestor_or_self(links, a, n)
<1>1. \A S \in SUBSET Slots :
        Forest!ClosedDown(S) <=> \A p \in S, c \in Slots : links.parent[c] = p => c \in S
  <2> SUFFICES ASSUME NEW S \in SUBSET Slots
               PROVE  Forest!ClosedDown(S) <=> \A p \in S, c \in Slots : links.parent[c] = p => c \in S
    OBVIOUS
  <2>1. \A p \in S : \A c \in Forest!ToSet(SettledKids[p]) : c \in Slots
    <3> SUFFICES ASSUME NEW p \in S, NEW c \in Forest!ToSet(SettledKids[p]) PROVE c \in Slots
      OBVIOUS
    <3>1. PICK s \in Seq(Slots) : s = SettledKids[p]
      BY ChainsAre DEF SettledKids
    <3>2. PICK i \in DOMAIN s : c = s[i]
      BY <3>1 DEF Forest!ToSet
    <3> QED BY <3>2, ElementOfSeq
  <2>2. \A p \in S, c \in Slots : c \in Forest!ToSet(SettledKids[p]) <=> links.parent[c] = p
    BY HasMeansParent
  <2> QED BY <2>1, <2>2 DEF Forest!ClosedDown
<1>2. n \in Forest!Subtree(a) <=>
        \A S \in SUBSET (Slots \ {n}) : a \in S => ~ Forest!ClosedDown(S)
  BY ForestNodes DEF Forest!Subtree
<1>3. ASSUME ~ is_ancestor_or_self(links, a, n) PROVE n \notin Forest!Subtree(a)
  <2>1. PICK T \in SUBSET Slots : n \in T /\ ParentClosed(links, T) /\ a \notin T
    BY <1>3 DEF is_ancestor_or_self
  <2>2. \A p \in Slots \ T, c \in Slots : links.parent[c] = p => c \in Slots \ T
    BY <2>1, WellFormedFields DEF ParentClosed
  <2>3. Slots \ T \in SUBSET Slots /\ Slots \ T \in SUBSET (Slots \ {n}) /\ a \in Slots \ T
    BY <2>1
  <2>4. Forest!ClosedDown(Slots \ T)
    BY <1>1, <2>2, <2>3
  <2> QED BY <1>2, <2>3, <2>4
<1>4. ASSUME n \notin Forest!Subtree(a) PROVE ~ is_ancestor_or_self(links, a, n)
  <2>1. PICK S \in SUBSET (Slots \ {n}) : a \in S /\ Forest!ClosedDown(S)
    BY <1>2, <1>4
  <2>2. S \in SUBSET Slots
    BY <2>1
  <2>3. \A p \in S, c \in Slots : links.parent[c] = p => c \in S
    BY <1>1, <2>1, <2>2
  <2>4. ParentClosed(links, Slots \ S)
    BY <2>3, WellFormedFields DEF ParentClosed
  <2>5. Slots \ S \in SUBSET Slots /\ n \in Slots \ S /\ a \notin Slots \ S
    BY <2>1
  <2> QED BY <2>4, <2>5 DEF is_ancestor_or_self
<1> QED BY <1>3, <1>4

(* check_attach answers as the forest does, the shortcut for a childless   *)
(* node included.                                                          *)
LEMMA VerdictAgrees ==
  ASSUME moving = None, WellFormed(links), HasChains(links), NEW n \in 1 .. MaxNodes,
         NEW up \in Slots, up < n, NEW child \in Slots, child < n
  PROVE  Forest!Verdict(up, child) = check_attach(links, n, up, child)
<1>1. up \in Forest!Subtree(child) <=> makes_cycle(links, up, child)
  <2>1. child = up => is_ancestor_or_self(links, child, up)
    BY DEF is_ancestor_or_self
  <2> QED BY <2>1, SubtreeMeansAncestor, ChildlessIsNoAncestor DEF makes_cycle
<1>2. Forest!Attached(child) <=> links.parent[child] # None
  BY AttachedMeansParent
<1>3. ~ (up >= n \/ child >= n)
  BY DEF Slots
<1> QED BY <1>1, <1>2, <1>3, ForestNodes DEF Forest!Verdict, check_attach

-----------------------------------------------------------------------------
(* Every step of the arena is a step of the forest, or none.               *)

\* What the simulation needs of a state.
ForestInv == IndInv /\ HasChains(links)

LEMMA ForestInvParts ==
  ASSUME ForestInv
  PROVE  /\ WellFormed(links) /\ HasChains(links)
         /\ len \in 1 .. MaxNodes
         /\ moving = None => SettledKids = Chains(links)
         /\ Chains(links) \in [Slots -> Seq(Slots)]
         /\ \A p \in Slots : Chains(links)[p] = Chain(links, p)
  BY IndInvParts, ChainsAre DEF ForestInv, SettledKids

LEMMA ForestIds == Forest!Nodes \cup {MaxNodes} = Ids
  BY ForestNodes DEF Ids, Sentinel

\* An id that names a node is a slot.
LEMMA KnownIsSlot ==
  ASSUME len \in 1 .. MaxNodes, NEW id \in Ids
  PROVE  /\ Forest!Known(id) <=> id < len
         /\ Forest!Known(id) <=> ~ (id >= len)
         /\ Forest!Known(id) => id \in Slots
  BY CapacityAssumption DEF Forest!Known, Ids, Sentinel, Slots

LEMMA CreateForest ==
  ASSUME ForestInv, create
  PROVE  HasChains(links') /\ Forest!Next
<1>1. HasChains(links') /\ SettledKids' = SettledKids
  BY ForestInvParts DEF create, SettledKids
<1>2. len' = IF len = MaxNodes THEN len ELSE len + 1
  BY ForestInvParts, CapacityAssumption DEF create
<1>3. Forest!Create
  BY <1>1, <1>2 DEF create, Forest!Create
<1> QED BY <1>1, <1>3 DEF Forest!Next

LEMMA AppendForest ==
  ASSUME ForestInv, NEW up \in Ids, NEW child \in Ids, append_child(up, child)
  PROVE  HasChains(links') /\ Forest!Append_(up, child)
<1>a. WellFormed(links) /\ HasChains(links)
  BY ForestInvParts
<1>b. len \in 1 .. MaxNodes /\ (moving = None => SettledKids = Chains(links))
  BY ForestInvParts
<1> USE <1>a, <1>b
<1>1. moving = None /\ moving' = None /\ len' = len /\ SettledKids' = Chains(links')
  BY DEF append_child, Idle, SettledKids
<1>2. CASE ~ (Forest!Known(up) /\ Forest!Known(child))
  <2>1. up >= len \/ child >= len
    BY <1>2, KnownIsSlot
  <2>2. outcome' = "NoSuchNode" /\ links' = links
    BY <2>1 DEF append_child, check_attach
  <2> QED BY <1>1, <1>2, <2>2 DEF Forest!Append_, Forest!Refuse
<1>3. CASE Forest!Known(up) /\ Forest!Known(child)
  <2>1. up \in Slots /\ child \in Slots /\ outcome' = Forest!Verdict(up, child)
    BY <1>1, <1>3, KnownIsSlot, VerdictAgrees DEF append_child
  <2>2. CASE outcome' = "Ok"
    <3>1. links.parent[child] = None /\ ~ is_ancestor_or_self(links, child, up)
      BY <2>2, CheckAttachOk DEF append_child
    <3>2. HasChains(links') /\ Chains(links') = [Chains(links) EXCEPT ![up] = Append(@, child)]
      <4>1. links' = link_last(links, up, child)
        BY <2>2 DEF append_child
      <4>2. /\ HasChains(link_last(links, up, child))
            /\ Chains(link_last(links, up, child)) =
                 With(Chains(links), up, Append(Chains(links)[up], child))
        BY <2>1, <3>1, LinkLastChains
      <4> QED BY <4>1, <4>2 DEF With
    <3> QED BY <1>1, <1>3, <2>1, <2>2, <3>2 DEF Forest!Append_, Forest!Accept
  <2>3. CASE outcome' # "Ok"
    <3>1. links' = links
      BY <2>3 DEF append_child
    <3> QED BY <1>1, <1>3, <2>1, <2>3, <3>1 DEF Forest!Append_, Forest!Refuse
  <2> QED BY <2>2, <2>3
<1> QED BY <1>2, <1>3

LEMMA InsertForest ==
  ASSUME ForestInv, NEW sibling \in Ids, NEW new \in Ids, insert_before(sibling, new)
  PROVE  HasChains(links') /\ Forest!InsertBefore_(sibling, new)
<1>a. WellFormed(links) /\ HasChains(links)
  BY ForestInvParts
<1>b. len \in 1 .. MaxNodes /\ (moving = None => SettledKids = Chains(links))
  BY ForestInvParts
<1> USE <1>a, <1>b
<1>1. moving = None /\ moving' = None /\ len' = len /\ SettledKids' = Chains(links')
  BY DEF insert_before, Idle, SettledKids
<1>2. CASE ~ (Forest!Known(sibling) /\ Forest!Known(new))
  <2>1. new >= len \/ sibling >= len
    BY <1>2, KnownIsSlot
  <2>2. outcome' = "NoSuchNode" /\ links' = links
    BY <2>1 DEF insert_before, check_insert
  <2> QED BY <1>1, <1>2, <2>2 DEF Forest!InsertBefore_, Forest!Refuse
<1>3. CASE Forest!Known(sibling) /\ Forest!Known(new)
  <2>1. sibling \in Slots /\ new \in Slots /\ sibling < len /\ new < len
        /\ ~ (new >= len \/ sibling >= len)
    BY <1>3, KnownIsSlot
  <2>2. CASE links.parent[sibling] = None
    <3>1. outcome' = "IsDocument" /\ links' = links
      BY <2>1, <2>2 DEF insert_before, check_insert
    <3>2. ~ Forest!Attached(sibling)
      BY <1>1, <2>1, <2>2, AttachedMeansParent
    <3> QED BY <1>1, <1>3, <3>1, <3>2 DEF Forest!InsertBefore_, Forest!Refuse
  <2>3. CASE links.parent[sibling] # None
    <3>1. PICK up \in Slots : up = links.parent[sibling]
      BY <2>1, <2>3, WellFormedFields
    <3>2. up < len
      <4>1. links.first[up] # None
        BY <2>1, <3>1, ParentsHaveEnds
      <4>2. up >= len => links.first[up] = None
        BY IndInvParts DEF ForestInv, FreshUnlinked
      <4> QED BY <4>1, <4>2 DEF Slots
    <3>3. outcome' = Forest!Verdict(up, new)
      <4>1. outcome' = check_attach(links, len, up, new)
        BY <2>1, <2>3, <3>1 DEF insert_before, check_insert
      <4> QED BY <1>1, <2>1, <3>2, <4>1, VerdictAgrees
    <3>4. /\ Forest!Attached(sibling) /\ Forest!ParentOf(sibling) = up
          /\ Forest!Place(sibling) \in DOMAIN Chains(links)[up]
          /\ Chains(links)[up][Forest!Place(sibling)] = sibling
      BY <1>1, <2>1, <2>3, <3>1, AttachedMeansParent, PlaceIsInChain
    <3>5. CASE outcome' = "Ok"
      <4>1. links.parent[new] = None /\ ~ is_ancestor_or_self(links, new, up)
        <5>1. check_attach(links, len, up, new) = "Ok" /\ up \in Ids
          BY <2>1, <2>3, <3>1, <3>5 DEF insert_before, check_insert, Ids
        <5> QED BY <5>1, CheckAttachOk
      <4>2. links' = link_before(links, up, sibling, new)
        BY <3>1, <3>5 DEF insert_before
      <4>3. /\ HasChains(links')
            /\ Chains(links') =
                 [Chains(links) EXCEPT ![up] = Forest!InsertAt(@, Forest!Place(sibling), new)]
        <5>1. PICK i \in DOMAIN Chains(links)[up] :
                 i = Forest!Place(sibling) /\ Chains(links)[up][i] = sibling
          BY <3>4
        <5>2. /\ HasChains(link_before(links, up, sibling, new))
              /\ Chains(link_before(links, up, sibling, new)) =
                   With(Chains(links), up, Forest!InsertAt(Chains(links)[up], i, new))
          BY <2>1, <3>1, <4>1, <5>1, LinkBeforeChains
        <5> QED BY <4>2, <5>1, <5>2 DEF With
      <4> QED BY <1>1, <1>3, <3>3, <3>4, <3>5, <4>3 DEF Forest!InsertBefore_, Forest!Accept
    <3>6. CASE outcome' # "Ok"
      <4>1. links' = links
        BY <3>6 DEF insert_before
      <4> QED BY <1>1, <1>3, <3>3, <3>4, <3>6, <4>1 DEF Forest!InsertBefore_, Forest!Refuse
    <3> QED BY <3>5, <3>6
  <2> QED BY <2>2, <2>3
<1> QED BY <1>2, <1>3

LEMMA DetachForest ==
  ASSUME ForestInv, NEW id \in Ids, detach(id)
  PROVE  HasChains(links') /\ Forest!Detach(id)
<1>a. WellFormed(links) /\ HasChains(links)
  BY ForestInvParts
<1>b. len \in 1 .. MaxNodes /\ (moving = None => SettledKids = Chains(links))
  BY ForestInvParts
<1> USE <1>a, <1>b
<1>1. moving = None /\ moving' = None /\ len' = len /\ SettledKids' = Chains(links')
  BY DEF detach, Idle, SettledKids
<1>2. CASE ~ Forest!Known(id)
  <2>1. outcome' = "NoSuchNode" /\ links' = links
    BY <1>2, KnownIsSlot DEF detach, Exists
  <2> QED BY <1>1, <1>2, <2>1 DEF Forest!Detach, Forest!Refuse
<1>3. CASE Forest!Known(id)
  <2>1. id \in Slots /\ outcome' = "Ok" /\ links' = unlink(links, id)
    BY <1>3, KnownIsSlot DEF detach, Exists
  <2>2. CASE links.parent[id] = None
    <3>1. links' = links
      BY <2>1, <2>2 DEF unlink
    <3>2. ~ Forest!Attached(id)
      BY <1>1, <2>1, <2>2, AttachedMeansParent
    <3> QED BY <1>1, <1>3, <2>1, <3>1, <3>2 DEF Forest!Detach, Forest!Accept
  <2>3. CASE links.parent[id] # None
    <3>1. PICK up \in Slots : up = links.parent[id]
      BY <2>1, <2>3, WellFormedFields
    <3>2. /\ Forest!Attached(id) /\ Forest!ParentOf(id) = up
          /\ Forest!Place(id) \in DOMAIN Chains(links)[up]
          /\ Chains(links)[up][Forest!Place(id)] = id
      BY <1>1, <2>1, <2>3, <3>1, AttachedMeansParent, PlaceIsInChain
    <3>3. /\ HasChains(links')
          /\ Chains(links') = [Chains(links) EXCEPT ![up] = Forest!RemoveAt(@, Forest!Place(id))]
      <4>1. PICK i \in DOMAIN Chains(links)[up] :
               i = Forest!Place(id) /\ Chains(links)[up][i] = id
        BY <3>2
      <4>2. /\ HasChains(unlink(links, id))
            /\ Chains(unlink(links, id)) =
                 With(Chains(links), up, Forest!RemoveAt(Chains(links)[up], i))
        BY <2>1, <3>1, <4>1, UnlinkChains
      <4> QED BY <2>1, <4>1, <4>2 DEF With
    <3> QED BY <1>1, <1>3, <2>1, <3>2, <3>3 DEF Forest!Detach, Forest!Accept
  <2> QED BY <2>2, <2>3
<1> QED BY <1>2, <1>3

LEMMA ReparentBeginForest ==
  ASSUME ForestInv, NEW from \in Ids, NEW to \in Ids, ReparentBegin(from, to)
  PROVE  HasChains(links') /\ Forest!Reparent(from, to)
<1>a. WellFormed(links) /\ HasChains(links)
  BY ForestInvParts
<1>b. len \in 1 .. MaxNodes /\ (moving = None => SettledKids = Chains(links))
  BY ForestInvParts
<1> USE <1>a, <1>b
<1>1. moving = None /\ len' = len /\ links' = links /\ HasChains(links')
  BY DEF ReparentBegin, Idle
<1>2. CASE ~ (Forest!Known(from) /\ Forest!Known(to))
  <2>1. from >= len \/ to >= len
    BY <1>2, KnownIsSlot
  <2>2. outcome' = "NoSuchNode" /\ moving' = None
    BY <2>1 DEF ReparentBegin, check_reparent
  <2> QED BY <1>1, <1>2, <2>2 DEF Forest!Reparent, Forest!Refuse, SettledKids
<1>3. CASE Forest!Known(from) /\ Forest!Known(to)
  <2>1. from \in Slots /\ to \in Slots /\ ~ (from >= len \/ to >= len)
    BY <1>3, KnownIsSlot
  <2>2. CASE from = to
    <3>1. outcome' = "Ok" /\ moving' = None
      BY <2>1, <2>2 DEF ReparentBegin, check_reparent
    <3> QED BY <1>1, <1>3, <2>2, <3>1 DEF Forest!Reparent, Forest!Accept, SettledKids
  <2>3. CASE from # to /\ is_ancestor_or_self(links, from, to)
    <3>1. outcome' = "Cycle" /\ moving' = None
      BY <2>1, <2>3 DEF ReparentBegin, check_reparent
    <3>2. to \in Forest!Subtree(from)
      BY <1>1, <2>1, <2>3, SubtreeMeansAncestor
    <3> QED BY <1>1, <1>3, <2>3, <3>1, <3>2 DEF Forest!Reparent, Forest!Refuse, SettledKids
  <2>4. CASE from # to /\ ~ is_ancestor_or_self(links, from, to)
    <3>1. outcome' = "Ok" /\ moving' = [from |-> from, to |-> to]
      BY <2>1, <2>4 DEF ReparentBegin, check_reparent
    <3>2. to \notin Forest!Subtree(from)
      BY <1>1, <2>1, <2>4, SubtreeMeansAncestor
    <3>3. moving' # None /\ moving'.from = from /\ moving'.to = to
      <4>1. MoveIsOutside(links, len, from, to)
        BY <2>4, <3>1, CheckReparentOk DEF ReparentBegin
      <4>2. [from |-> from, to |-> to] # None
        BY <2>1, MovingAssumption
      <4> QED BY <3>1, <4>2
    <3>4. SettledKids' = [Chains(links) EXCEPT ![from] = <<>>, ![to] = @ \o Chain(links, from)]
      BY <1>1, <3>3 DEF SettledKids
    <3>5. Chains(links)[from] = Chain(links, from)
      BY <2>1 DEF Chains
    <3> QED BY <1>1, <1>3, <2>4, <3>1, <3>2, <3>4, <3>5 DEF Forest!Reparent, Forest!Accept
  <2> QED BY <2>2, <2>3, <2>4
<1> QED BY <1>2, <1>3

\* Taking the first of one sequence to the end of another changes their concatenation in nothing.
LEMMA MovedAcross ==
  ASSUME NEW S, NEW s \in Seq(S), s # <<>>, NEW t \in Seq(S)
  PROVE  Append(t, s[1]) \o Forest!RemoveAt(s, 1) = t \o s
<1>1. Len(s) \in Nat /\ 1 <= Len(s) /\ Len(t) \in Nat /\ s[1] \in S
  BY LenProperties, EmptySeq, ElementOfSeq
<1> DEFINE a == Append(t, s[1])
           b == Forest!RemoveAt(s, 1)
<1>2. /\ a \in Seq(S) /\ Len(a) = Len(t) + 1
      /\ \A i \in 1 .. Len(t) : a[i] = t[i]
      /\ a[Len(t) + 1] = s[1]
  BY <1>1, AppendProperties
<1>3. /\ b \in Seq(S) /\ Len(b) = Len(s) - 1
      /\ \A j \in 1 .. Len(s) - 1 : b[j] = s[j + 1]
  <2>1. 1 \in 1 .. Len(s)
    BY <1>1
  <2>2. /\ b \in Seq(S) /\ Len(b) = Len(s) - 1
        /\ \A j \in 1 .. Len(s) - 1 : b[j] = IF j < 1 THEN s[j] ELSE s[j + 1]
    BY <2>1, RemoveAtPlaces
  <2> QED BY <1>1, <2>2
<1> HIDE DEF a, b
<1>4. /\ a \o b \in Seq(S) /\ Len(a \o b) = Len(a) + Len(b)
      /\ \A i \in 1 .. Len(a) + Len(b) : (a \o b)[i] = IF i <= Len(a) THEN a[i] ELSE b[i - Len(a)]
  BY <1>2, <1>3, ConcatProperties
<1>5. /\ t \o s \in Seq(S) /\ Len(t \o s) = Len(t) + Len(s)
      /\ \A i \in 1 .. Len(t) + Len(s) : (t \o s)[i] = IF i <= Len(t) THEN t[i] ELSE s[i - Len(t)]
  BY ConcatProperties
<1>6. Len(a \o b) = Len(t \o s)
  BY <1>1, <1>2, <1>3, <1>4, <1>5
<1>7. ASSUME NEW i \in 1 .. Len(t \o s) PROVE (a \o b)[i] = (t \o s)[i]
  <2>1. i \in 1 .. Len(t) + Len(s) /\ i \in 1 .. Len(a) + Len(b)
    BY <1>4, <1>5, <1>6
  <2>2. CASE i <= Len(t)
    BY <1>1, <1>2, <1>4, <1>5, <2>1, <2>2
  <2>3. CASE i = Len(t) + 1
    <3>1. (a \o b)[i] = s[1]
      BY <1>2, <1>4, <2>1, <2>3
    <3>2. (t \o s)[i] = s[1]
      BY <1>1, <1>5, <2>1, <2>3
    <3> QED BY <3>1, <3>2
  <2>4. CASE i > Len(t) + 1
    <3>1. i - Len(a) \in 1 .. Len(s) - 1 /\ (i - Len(a)) + 1 = i - Len(t)
      BY <1>1, <1>2, <2>1, <2>4, <1>5
    <3>2. (a \o b)[i] = b[i - Len(a)]
      BY <1>1, <1>2, <1>4, <2>1, <2>4
    <3>3. b[i - Len(a)] = s[(i - Len(a)) + 1]
      BY <1>3, <3>1
    <3>4. (t \o s)[i] = s[i - Len(t)]
      BY <1>1, <1>5, <2>1, <2>4
    <3> QED BY <3>1, <3>2, <3>3, <3>4
  <2> QED BY <1>1, <2>1, <2>2, <2>3, <2>4
<1>8. a \o b = t \o s
  BY <1>4, <1>5, <1>6, <1>7, SeqEqual
<1> QED BY <1>8 DEF a, b

(* One turn of the loop takes the first child of the one node to the end   *)
(* of the other's.                                                         *)
LEMMA MoveFirstChains ==
  ASSUME NEW L, WellFormed(L), HasChains(L), NEW n \in 1 .. MaxNodes, FreshUnlinked(L, n),
         NEW from \in Slots, NEW to \in Slots, MoveIsOutside(L, n, from, to),
         L.first[from] # None
  PROVE  /\ HasChains(move_first(L, from, to))
         /\ Chain(L, from) # <<>>
         /\ Chains(move_first(L, from, to)) =
              With(With(Chains(L), from, Forest!RemoveAt(Chain(L, from), 1)),
                   to, Append(Chain(L, to), Chain(L, from)[1]))
<1> SUFFICES ASSUME NEW child, child = L.first[from], NEW M, M = unlink(L, child)
             PROVE  /\ HasChains(link_last(M, to, child))
                    /\ Chain(L, from) # <<>>
                    /\ Chains(link_last(M, to, child)) =
                         With(With(Chains(L), from, Forest!RemoveAt(Chain(L, from), 1)),
                              to, Append(Chain(L, to), Chain(L, from)[1]))
  BY DEF move_first
<1>1. from # to /\ ~ is_ancestor_or_self(L, from, to)
  BY DEF MoveIsOutside
<1>2. child \in Slots /\ L.parent[child] = from
  BY WellFormedFields DEF WellFormed, EndsAgree
<1>3. PICK s \in Seq(Slots) : s = Chains(L)[from] /\ s = Chain(L, from) /\ IsChain(L, from, s)
  BY ChainsAre
<1>4. s # <<>> /\ 1 \in DOMAIN s /\ s[1] = child
  BY <1>3, EmptySeq DEF IsChain
<1>5. HasChains(M) /\ Chains(M) = With(Chains(L), from, Forest!RemoveAt(s, 1))
  <2>1. PICK i \in DOMAIN Chains(L)[from] : i = 1 /\ Chains(L)[from][i] = child
    BY <1>3, <1>4
  <2>2. /\ HasChains(unlink(L, child))
        /\ Chains(unlink(L, child)) = With(Chains(L), from, Forest!RemoveAt(Chains(L)[from], i))
    BY <1>2, <2>1, UnlinkChains
  <2> QED BY <1>3, <2>1, <2>2
<1>6. IsUnlink(L, M, child) /\ WellFormed(M)
  BY <1>2, UnlinkFields, UnlinkWellFormed, WellFormedFields
<1>7. PICK T \in SUBSET Slots : to \in T /\ ParentClosed(L, T) /\ from \notin T
  BY <1>1 DEF is_ancestor_or_self
<1>8. child \notin T
  BY <1>1, <1>2, <1>7, WellFormedFields DEF ParentClosed
<1>9. ParentClosed(M, T)
  BY <1>6, <1>7, <1>8 DEF ParentClosed, IsUnlink
<1>10. ~ is_ancestor_or_self(M, child, to) /\ M.parent[child] = None
  BY <1>2, <1>6, <1>7, <1>8, <1>9 DEF is_ancestor_or_self, IsUnlink
<1>11. /\ HasChains(link_last(M, to, child))
       /\ Chains(link_last(M, to, child)) = With(Chains(M), to, Append(Chains(M)[to], child))
  <2>1. HasChains(M)
    BY <1>5
  <2> QED BY <1>2, <1>6, <1>10, <2>1, LinkLastChains
<1>12. Chains(M)[to] = Chain(L, to)
  <2>1. Chains(L) \in [Slots -> Seq(Slots)] /\ Chains(L)[to] = Chain(L, to)
    BY ChainsAre
  <2> QED BY <1>1, <1>5, <2>1 DEF With
<1> QED BY <1>3, <1>4, <1>5, <1>11, <1>12

(* A turn of the loop changes nothing the forest shows: what the one node  *)
(* has left and what the other has received still make the same sequence.  *)
LEMMA ReparentStepForest ==
  ASSUME ForestInv, ReparentStep
  PROVE  HasChains(links') /\ UNCHANGED Forest!vars
<1>1. /\ WellFormed(links) /\ HasChains(links) /\ FreshUnlinked(links, len)
      /\ len \in 1 .. MaxNodes /\ moving # None /\ links.first[moving.from] # None
      /\ links' = move_first(links, moving.from, moving.to)
      /\ moving' = moving /\ len' = len /\ outcome' = outcome
  BY IndInvParts DEF ForestInv, ReparentStep, Idle
<1>2. PICK from \in Slots, to \in Slots :
         from = moving.from /\ to = moving.to /\ MoveIsOutside(links, len, from, to)
  BY <1>1, IndInvParts DEF ForestInv, MoveIsOutside
<1>3. from # to
  BY <1>2 DEF MoveIsOutside
<1> DEFINE C == Chains(links)
           s == Chain(links, from)
           t == Chain(links, to)
<1>4. /\ C \in [Slots -> Seq(Slots)] /\ C[from] = s /\ C[to] = t
      /\ s \in Seq(Slots) /\ t \in Seq(Slots)
  BY <1>1, ForestInvParts
<1>5. /\ HasChains(links') /\ s # <<>>
      /\ Chains(links') = With(With(C, from, Forest!RemoveAt(s, 1)), to, Append(t, s[1]))
  <2>1. links.first[from] # None /\ links' = move_first(links, from, to)
    BY <1>1, <1>2
  <2>2. /\ HasChains(move_first(links, from, to)) /\ Chain(links, from) # <<>>
        /\ Chains(move_first(links, from, to)) =
             With(With(Chains(links), from, Forest!RemoveAt(Chain(links, from), 1)),
                  to, Append(Chain(links, to), Chain(links, from)[1]))
    BY <1>1, <1>2, <2>1, MoveFirstChains
  <2> QED BY <2>1, <2>2
<1>6. Append(t, s[1]) \o Forest!RemoveAt(s, 1) = t \o s
  BY <1>4, <1>5, MovedAcross
<1>7. SettledKids = [C EXCEPT ![from] = <<>>, ![to] = @ \o s]
  BY <1>1, <1>2 DEF SettledKids
<1>8. SettledKids' = [Chains(links') EXCEPT ![from] = <<>>, ![to] = @ \o Chains(links')[from]]
  BY <1>1, <1>2 DEF SettledKids, Chains
<1> HIDE DEF C, s, t
<1>9. Chains(links')[from] = Forest!RemoveAt(s, 1) /\ Chains(links')[to] = Append(t, s[1])
  BY <1>3, <1>4, <1>5 DEF With
<1>10. SettledKids' = SettledKids
  <2>1. SettledKids = [p \in Slots |-> IF p = to THEN t \o s ELSE IF p = from THEN <<>> ELSE C[p]]
    BY <1>3, <1>4, <1>7
  <2>2. SettledKids' =
          [p \in Slots |-> IF p = to THEN Append(t, s[1]) \o Forest!RemoveAt(s, 1)
                           ELSE IF p = from THEN <<>> ELSE C[p]]
    BY <1>3, <1>4, <1>5, <1>8, <1>9 DEF With
  <2> QED BY <1>6, <2>1, <2>2
<1> QED BY <1>1, <1>5, <1>10 DEF Forest!vars

(* The loop ends when the one node has no child left.                      *)
LEMMA ReparentEndForest ==
  ASSUME ForestInv, ReparentEnd
  PROVE  HasChains(links') /\ UNCHANGED Forest!vars
<1>1. /\ WellFormed(links) /\ HasChains(links) /\ moving # None /\ moving' = None
      /\ links.first[moving.from] = None /\ links' = links /\ len' = len /\ outcome' = outcome
  BY IndInvParts DEF ForestInv, ReparentEnd, Idle
<1>2. PICK from \in Slots, to \in Slots :
         from = moving.from /\ to = moving.to /\ MoveIsOutside(links, len, from, to)
  BY <1>1, IndInvParts DEF ForestInv, MoveIsOutside
<1>3. from # to
  BY <1>2 DEF MoveIsOutside
<1> DEFINE C == Chains(links)
<1>4. /\ C \in [Slots -> Seq(Slots)] /\ IsChain(links, from, C[from])
      /\ C[from] = Chain(links, from)
  BY <1>1, ChainsAre
<1>5. C[from] = <<>>
  <2>1. SUFFICES ASSUME C[from] # <<>> PROVE FALSE
    OBVIOUS
  <2>2. links.first[from] = C[from][1] /\ C[from][1] \in Slots
    BY <1>4, <2>1, EmptySeq, ElementOfSeq DEF IsChain
  <2> QED BY <1>1, <1>2, <2>2, WellFormedFields
<1>6. SettledKids = [C EXCEPT ![from] = <<>>, ![to] = @ \o C[from]] /\ SettledKids' = C
  BY <1>1, <1>2, <1>4 DEF SettledKids
<1> HIDE DEF C
<1>7. C[to] \o <<>> = C[to]
  BY <1>4, ConcatEmptySeq
<1>8. SettledKids' = SettledKids
  BY <1>3, <1>4, <1>5, <1>6, <1>7
<1> QED BY <1>1, <1>8 DEF Forest!vars

(* A new document is the forest of a root without children.                *)
LEMMA InitForest ==
  ASSUME Init
  PROVE  ForestInv /\ Forest!Init
<1>1. IndInv
  BY InitIndInv
<1> DEFINE K == [p \in Slots |-> <<>>]
<1>2. K \in [Slots -> Seq(Slots)] /\ \A p \in Slots : IsChain(links, p, K[p])
  BY DEF Init, Unlinked, IsChain
<1> HIDE DEF K
<1>3. HasChains(links) /\ Chains(links) = K
  BY <1>1, <1>2, IndInvParts, ChainsBecome
<1> QED BY <1>1, <1>3, ForestNodes DEF K, Init, ForestInv, SettledKids, Forest!Init

LEMMA ForestStep ==
  ASSUME ForestInv, [Next]_vars
  PROVE  HasChains(links') /\ [Forest!Next]_(Forest!vars)
<1>1. CASE create
  BY <1>1, CreateForest
<1>2. CASE \E up, child \in Ids : append_child(up, child)
  BY <1>2, AppendForest, ForestIds DEF Forest!Next
<1>3. CASE \E sibling, new \in Ids : insert_before(sibling, new)
  BY <1>3, InsertForest, ForestIds DEF Forest!Next
<1>4. CASE \E id \in Ids : detach(id)
  BY <1>4, DetachForest, ForestIds DEF Forest!Next
<1>5. CASE \E from, to \in Ids : ReparentBegin(from, to)
  BY <1>5, ReparentBeginForest, ForestIds DEF Forest!Next
<1>6. CASE ReparentStep
  BY <1>6, ReparentStepForest
<1>7. CASE ReparentEnd
  BY <1>7, ReparentEndForest
<1>8. CASE UNCHANGED vars
  BY <1>8 DEF vars, ForestInv, SettledKids, Forest!vars
<1> QED BY <1>1, <1>2, <1>3, <1>4, <1>5, <1>6, <1>7, <1>8 DEF Next

(* The linked arena implements an ordered forest: whatever the sequence of *)
(* calls, each edits the child sequences as its name says or is refused    *)
(* with the forest's reason, and the reparenting loop is one such edit.    *)
THEOREM ImplementsForest == Spec => RefinesForest
<1>1. Init => ForestInv /\ Forest!Init
  BY InitForest
<1>2. IndInv /\ IndInv' /\ HasChains(links) /\ [Next]_vars => HasChains(links)'
  BY ForestStep DEF ForestInv
<1>3. IndInv /\ HasChains(links) /\ [Next]_vars => [Forest!Next]_(Forest!vars)
  BY ForestStep DEF ForestInv
<1>4. Init => HasChains(links)
  BY <1>1 DEF ForestInv
<1>5. Spec => [](IndInv /\ HasChains(links))
  BY <1>2, <1>4, Invariance, PTL DEF Spec
<1> QED BY <1>1, <1>3, <1>5, PTL DEF Spec, RefinesForest, Forest!Spec

(***************************************************************************)
(* The iterators.                                                          *)
(***************************************************************************)
(* Ancestry in links without a cycle of parents.                           *)

(* A node's ancestors are itself and its parent's.                         *)
LEMMA AncestorsStepUp ==
  ASSUME NEW L, WellFormed(L), NEW n \in Slots, NEW m \in Slots
  PROVE  is_ancestor_or_self(L, n, m)
           <=> n = m \/ (L.parent[m] # None /\ is_ancestor_or_self(L, n, L.parent[m]))
<1>1. ASSUME L.parent[m] # None, is_ancestor_or_self(L, n, L.parent[m])
      PROVE  is_ancestor_or_self(L, n, m)
  BY <1>1, WellFormedFields DEF is_ancestor_or_self, ParentClosed
<1>2. ASSUME is_ancestor_or_self(L, n, m), n # m, L.parent[m] = None PROVE FALSE
  <2>1. {m} \in SUBSET Slots /\ ParentClosed(L, {m})
    BY <1>2 DEF ParentClosed
  <2> QED BY <1>2, <2>1 DEF is_ancestor_or_self
<1>3. ASSUME is_ancestor_or_self(L, n, m), n # m, L.parent[m] # None
      PROVE  is_ancestor_or_self(L, n, L.parent[m])
  <2> SUFFICES ASSUME NEW S \in SUBSET Slots, L.parent[m] \in S, ParentClosed(L, S) PROVE n \in S
    BY DEF is_ancestor_or_self
  <2>1. S \cup {m} \in SUBSET Slots /\ ParentClosed(L, S \cup {m})
    BY DEF ParentClosed
  <2> QED BY <1>3, <2>1 DEF is_ancestor_or_self
<1> QED BY <1>1, <1>2, <1>3 DEF is_ancestor_or_self

LEMMA AncestorsCompose ==
  ASSUME NEW L, NEW a \in Slots, NEW b \in Slots, NEW c \in Slots,
         is_ancestor_or_self(L, a, b), is_ancestor_or_self(L, b, c)
  PROVE  is_ancestor_or_self(L, a, c)
  BY DEF is_ancestor_or_self

\* A set of nodes that the parent link does not leave is empty.
LEMMA CycleFree ==
  ASSUME NEW L, WellFormed(L), NEW S \in SUBSET Slots, \A n \in S : L.parent[n] \in S
  PROVE  S = {}
  BY DEF WellFormed, NoAncestorCycle, Leaves

(* Two nodes are not each other's ancestors.                               *)
LEMMA AncestorsDiffer ==
  ASSUME NEW L, WellFormed(L), NEW a \in Slots, NEW b \in Slots,
         is_ancestor_or_self(L, a, b), is_ancestor_or_self(L, b, a)
  PROVE  a = b
<1> DEFINE S == {x \in Slots : is_ancestor_or_self(L, a, x) /\ is_ancestor_or_self(L, x, a)}
<1> SUFFICES ASSUME a # b PROVE FALSE
  OBVIOUS
<1>1. ASSUME NEW x \in S
      PROVE  \E y \in Slots : /\ y # x /\ is_ancestor_or_self(L, y, x)
                              /\ is_ancestor_or_self(L, x, y)
  <2>1. CASE x = a
    BY <2>1
  <2>2. CASE x # a
    BY <2>2
  <2> QED BY <2>1, <2>2
<1>2. \A x \in S : L.parent[x] \in S
  <2> SUFFICES ASSUME NEW x \in S PROVE L.parent[x] \in S
    OBVIOUS
  <2>1. PICK y \in Slots : y # x /\ is_ancestor_or_self(L, y, x) /\ is_ancestor_or_self(L, x, y)
    BY <1>1
  <2>2. L.parent[x] \in Slots /\ is_ancestor_or_self(L, y, L.parent[x])
    BY <2>1, AncestorsStepUp, WellFormedFields
  <2>3. is_ancestor_or_self(L, L.parent[x], x)
    BY <2>2, WellFormedFields DEF is_ancestor_or_self, ParentClosed
  <2>4. is_ancestor_or_self(L, a, L.parent[x])
    BY <2>1, <2>2, AncestorsCompose
  <2>5. is_ancestor_or_self(L, L.parent[x], a)
    BY <2>2, <2>3, AncestorsCompose
  <2> QED BY <2>2, <2>4, <2>5
<1>3. a \in S
  BY DEF is_ancestor_or_self
<1> QED BY <1>2, <1>3, CycleFree

(* The ancestors of a node are in line.                                    *)
LEMMA AncestorsInLine ==
  ASSUME NEW L, WellFormed(L), NEW a \in Slots, NEW b \in Slots, NEW k \in Slots,
         is_ancestor_or_self(L, a, k), is_ancestor_or_self(L, b, k)
  PROVE  is_ancestor_or_self(L, a, b) \/ is_ancestor_or_self(L, b, a)
<1> DEFINE S == {x \in Slots : is_ancestor_or_self(L, a, x) /\ is_ancestor_or_self(L, b, x)}
<1> SUFFICES ASSUME ~ is_ancestor_or_self(L, a, b), ~ is_ancestor_or_self(L, b, a) PROVE FALSE
  OBVIOUS
<1>1. \A x \in S : L.parent[x] \in S
  <2> SUFFICES ASSUME NEW x \in S PROVE L.parent[x] \in S
    OBVIOUS
  <2>1. x # a /\ x # b
    OBVIOUS
  <2> QED BY <2>1, AncestorsStepUp, WellFormedFields
<1> QED BY <1>1, CycleFree

(* No node is its own parent, or above it.                                 *)
LEMMA ParentIsAbove ==
  ASSUME NEW L, WellFormed(L), NEW n \in Slots, NEW p \in Slots, L.parent[n] = p
  PROVE  p # n /\ is_ancestor_or_self(L, p, n) /\ ~ is_ancestor_or_self(L, n, p)
<1>1. is_ancestor_or_self(L, p, n)
  BY WellFormedFields DEF is_ancestor_or_self, ParentClosed
<1>2. p # n
  <2> SUFFICES ASSUME p = n PROVE FALSE
    OBVIOUS
  <2>1. {n} \in SUBSET Slots /\ \A x \in {n} : L.parent[x] \in {n}
    OBVIOUS
  <2> QED BY <2>1, CycleFree
<1> QED BY <1>1, <1>2, AncestorsDiffer

(* No node is below two siblings.                                          *)
LEMMA SiblingsShareNone ==
  ASSUME NEW L, WellFormed(L), NEW a \in Slots, NEW b \in Slots, NEW p \in Slots,
         L.parent[a] = p, L.parent[b] = p, NEW k \in Slots,
         is_ancestor_or_self(L, a, k), is_ancestor_or_self(L, b, k)
  PROVE  a = b
<1>1. ASSUME NEW x \in Slots, NEW y \in Slots, L.parent[x] = p, L.parent[y] = p,
             is_ancestor_or_self(L, x, y)
      PROVE  x = y
  <2>1. x = y \/ is_ancestor_or_self(L, x, p)
    BY <1>1, AncestorsStepUp
  <2> QED BY <1>1, <2>1, ParentIsAbove
<1> QED BY <1>1, AncestorsInLine

(* A node below another, and not that one, is below one of its children.   *)
LEMMA BelowAChild ==
  ASSUME NEW L, WellFormed(L), NEW p \in Slots, NEW k \in Slots, k # p,
         is_ancestor_or_self(L, p, k)
  PROVE  \E c \in Slots : L.parent[c] = p /\ is_ancestor_or_self(L, c, k)
<1> DEFINE S == {x \in Slots : /\ x # p /\ is_ancestor_or_self(L, p, x)
                               /\ is_ancestor_or_self(L, x, k)}
<1> SUFFICES ASSUME \A c \in Slots : L.parent[c] = p => ~ is_ancestor_or_self(L, c, k)
             PROVE  FALSE
  OBVIOUS
<1>1. \A x \in S : L.parent[x] \in S
  <2> SUFFICES ASSUME NEW x \in S PROVE L.parent[x] \in S
    OBVIOUS
  <2>1. L.parent[x] \in Slots /\ is_ancestor_or_self(L, p, L.parent[x])
    BY AncestorsStepUp, WellFormedFields
  <2>2. is_ancestor_or_self(L, L.parent[x], k)
    BY <2>1, ParentIsAbove, AncestorsCompose
  <2> QED BY <2>1, <2>2
<1>2. k \in S
  BY DEF is_ancestor_or_self
<1> QED BY <1>1, <1>2, CycleFree

\* A nonempty set of numbers has a least one.
LEMMA LeastNatural ==
  ASSUME NEW S \in SUBSET Nat, S # {}
  PROVE  \E i \in S : \A j \in S : i <= j
<1>1. \A i, j \in Nat : <<j, i>> \in OpToRel(<, Nat) <=> j < i
  BY DEF OpToRel
<1>2. PICK R : IsWellFoundedOn(R, Nat) /\ \A i, j \in Nat : <<j, i>> \in R <=> j < i
  BY <1>1, NatLessThanWellFounded, Zenon
<1>3. PICK i \in S : \A j \in S : ~ (<<j, i>> \in R)
  BY <1>2, WFMin
<1>4. \A j \in S : ~ (j < i)
  BY <1>2, <1>3, Zenon
<1> QED BY <1>4

(***************************************************************************)
(* is_ancestor_or_self walks up to what it is defined to say: where the    *)
(* walk and the definition differed, they would differ above.              *)
(***************************************************************************)
Meets(L, candidate, h) ==
  h = [n \in Slots |-> n = candidate \/ (L.parent[n] # None /\ h[L.parent[n]])]

LEMMA WalkUpMeets ==
  ASSUME NEW candidate, NEW node
  PROVE  walk_up(candidate, node) = (CHOOSE h : Meets(links, candidate, h))[node]
  BY Zenon DEF walk_up, Meets

LEMMA MeetsAncestors ==
  ASSUME NEW L, WellFormed(L), NEW candidate \in Slots, NEW h, Meets(L, candidate, h), NEW node \in Slots
  PROVE  h[node] <=> is_ancestor_or_self(L, candidate, node)
<1>1. \A n \in Slots : h[n] <=> (n = candidate \/ (L.parent[n] # None /\ h[L.parent[n]]))
  BY Zenon DEF Meets
<1> DEFINE S == {n \in Slots : ~ (h[n] <=> is_ancestor_or_self(L, candidate, n))}
<1>2. \A n \in S : L.parent[n] \in S
  <2> SUFFICES ASSUME NEW n \in Slots, ~ (h[n] <=> is_ancestor_or_self(L, candidate, n)),
                      L.parent[n] \notin S
               PROVE  FALSE
    OBVIOUS
  <2>1. L.parent[n] = None \/ (L.parent[n] \in Slots /\
          (h[L.parent[n]] <=> is_ancestor_or_self(L, candidate, L.parent[n])))
    BY WellFormedFields
  <2>2. is_ancestor_or_self(L, candidate, n)
           <=> candidate = n \/ (L.parent[n] # None /\ is_ancestor_or_self(L, candidate, L.parent[n]))
    BY AncestorsStepUp
  <2>3. h[n] <=> (n = candidate \/ (L.parent[n] # None /\ h[L.parent[n]]))
    BY <1>1
  <2> QED BY ONLY <2>1, <2>2, <2>3, ~ (h[n] <=> is_ancestor_or_self(L, candidate, n)), Zenon
<1> QED BY <1>2, CycleFree

LEMMA WalksUp ==
  ASSUME WellFormed(links), NEW candidate \in Slots, NEW node \in Slots
  PROVE  walk_up(candidate, node) <=> is_ancestor_or_self(links, candidate, node)
<1> DEFINE g == [n \in Slots |-> is_ancestor_or_self(links, candidate, n)]
<1>1. Meets(links, candidate, g)
  <2>1. \A n \in Slots : g[n] = (n = candidate \/ (links.parent[n] # None /\ g[links.parent[n]]))
    <3> SUFFICES ASSUME NEW n \in Slots
                 PROVE  g[n] = (n = candidate \/ (links.parent[n] # None /\ g[links.parent[n]]))
      OBVIOUS
    <3>1. is_ancestor_or_self(links, candidate, n)
           <=> candidate = n \/ (links.parent[n] # None /\ is_ancestor_or_self(links, candidate, links.parent[n]))
      BY AncestorsStepUp
    <3>2. links.parent[n] # None => g[links.parent[n]] = is_ancestor_or_self(links, candidate, links.parent[n])
      BY WellFormedFields
    <3>3. g[n] = is_ancestor_or_self(links, candidate, n)
      OBVIOUS
    <3>4. is_ancestor_or_self(links, candidate, n) \in BOOLEAN
      BY DEF is_ancestor_or_self
    <3> QED BY <3>1, <3>2, <3>3, <3>4, Zenon
  <2>2. DOMAIN g = Slots /\ g = [n \in Slots |-> g[n]]
    OBVIOUS
  <2> HIDE DEF g
  <2> QED BY <2>1, <2>2, Zenon DEF Meets
<1>2. Meets(links, candidate, CHOOSE h : Meets(links, candidate, h))
  BY <1>1, Zenon
<1>3. (CHOOSE h : Meets(links, candidate, h))[node] <=> is_ancestor_or_self(links, candidate, node)
  BY <1>2, MeetsAncestors
<1> QED BY <1>3, WalkUpMeets

(***************************************************************************)
(* Following a link to its end.                                            *)
(***************************************************************************)
Following(h, link, node, n) ==
  h = [k \in 0 .. n |-> IF k = 0 THEN [next |-> node, items |-> <<>>] ELSE followed(link, h[k - 1])]

LEMMA FollowIsARun ==
  ASSUME NEW link, NEW node, NEW n
  PROVE  Follow(link, node, n) = (CHOOSE h : Following(h, link, node, n))[n].items
  BY Zenon DEF Follow, Following

\* There is one run of an iterator.
LEMMA FollowingOnce ==
  ASSUME NEW link, NEW node, NEW n \in Nat, NEW g, Following(g, link, node, n),
         NEW h, Following(h, link, node, n)
  PROVE  h = g
<1>1. /\ DOMAIN g = 0 .. n /\ DOMAIN h = 0 .. n
      /\ g[0] = h[0]
      /\ \A k \in 1 .. n : g[k] = followed(link, g[k - 1]) /\ h[k] = followed(link, h[k - 1])
  BY DEF Following
<1> DEFINE D == {k \in 0 .. n : h[k] # g[k]}
<1>2. SUFFICES ASSUME D # {} PROVE FALSE
  <2>1. h = [k \in 0 .. n |-> h[k]] /\ g = [k \in 0 .. n |-> g[k]]
    BY DEF Following
  <2> QED BY <1>1, <2>1
<1>3. PICK k \in D : \A j \in D : k <= j
  <2>1. D \in SUBSET Nat
    OBVIOUS
  <2> QED BY <1>2, <2>1, LeastNatural
<1>4. k # 0 /\ k - 1 \in 0 .. n /\ k - 1 \notin D
  BY <1>1, <1>3
<1> QED BY <1>1, <1>3, <1>4

\* s chains the nodes from node on along a link.
Trails(link, node, s) ==
  /\ node = IF s = <<>> THEN None ELSE s[1]
  /\ \A i \in DOMAIN s : s[i] < len /\ link[s[i]] = IF i = Len(s) THEN None ELSE s[i + 1]

LEMMA FollowYields ==
  ASSUME None \notin Slots, NEW link, NEW node, NEW s \in Seq(Slots), Trails(link, node, s),
         NEW n \in Nat, Len(s) <= n
  PROVE  Follow(link, node, n) = s
<1> DEFINE at(k) == [next |-> IF k < Len(s) THEN s[k + 1] ELSE None,
                     items |-> IF k < Len(s) THEN SubSeq(s, 1, k) ELSE s]
           g == [k \in 0 .. n |-> at(k)]
<1>0. Len(s) \in Nat /\ \A i \in 1 .. Len(s) : s[i] \in Slots
  BY ElementOfSeq, LenProperties
<1>1. at(0) = [next |-> node, items |-> <<>>]
  <2>1. CASE s = <<>>
    BY <2>1 DEF Trails
  <2>2. CASE s # <<>>
    <3>1. 0 < Len(s) /\ SubSeq(s, 1, 0) = <<>>
      BY <2>2, <1>0, EmptySeq
    <3> QED BY <2>2, <3>1 DEF Trails
  <2> QED BY <2>1, <2>2
<1>2. ASSUME NEW k \in 1 .. n PROVE at(k) = followed(link, at(k - 1))
  <2>1. CASE k - 1 < Len(s)
    <3>1. k \in 1 .. Len(s) /\ k - 1 + 1 = k
      BY <1>0, <2>1
    <3>2. at(k - 1) = [next |-> s[k], items |-> SubSeq(s, 1, k - 1)]
      BY <2>1, <3>1
    <3>3. s[k] # None /\ Exists(s[k]) /\ link[s[k]] = IF k < Len(s) THEN s[k + 1] ELSE None
      BY <1>0, <3>1 DEF Trails, Exists
    <3>4. Append(SubSeq(s, 1, k - 1), s[k]) = SubSeq(s, 1, k)
      BY <1>0, <3>1
    <3>5. k = Len(s) => SubSeq(s, 1, k) = s
      BY <1>0, SubSeqFull
    <3>6. at(k) = [next |-> link[s[k]], items |-> SubSeq(s, 1, k)]
      BY <1>0, <3>1, <3>3, <3>5
    <3> QED BY <3>2, <3>3, <3>4, <3>6 DEF followed, LinkOf
  <2>2. CASE ~ (k - 1 < Len(s))
    <3>1. at(k - 1) = [next |-> None, items |-> s] /\ at(k) = [next |-> None, items |-> s]
      BY <1>0, <2>2
    <3> QED BY <3>1 DEF followed
  <2> QED BY <2>1, <2>2
<1>3. g[n].items = s
  BY <1>0
<1>4. Following(g, link, node, n)
  <2>1. \A k \in 0 .. n : g[k] = IF k = 0 THEN [next |-> node, items |-> <<>>]
                                 ELSE followed(link, g[k - 1])
    <3> SUFFICES ASSUME NEW k \in 0 .. n
                 PROVE  g[k] = IF k = 0 THEN [next |-> node, items |-> <<>>]
                               ELSE followed(link, g[k - 1])
      OBVIOUS
    <3>1. g[k] = at(k) /\ (k # 0 => k \in 1 .. n /\ g[k - 1] = at(k - 1))
      OBVIOUS
    <3> HIDE DEF g, at
    <3> QED BY <1>1, <1>2, <3>1
  <2>2. g = [k \in 0 .. n |-> g[k]]
    OBVIOUS
  <2> HIDE DEF g, at
  <2> QED BY <2>1, <2>2 DEF Following
<1> HIDE DEF g, at
<1>5. Following(CHOOSE h : Following(h, link, node, n), link, node, n)
  BY <1>4, Zenon
<1>6. (CHOOSE h : Following(h, link, node, n)) = g
  BY <1>4, <1>5, FollowingOnce
<1> QED BY <1>3, <1>6, FollowIsARun

\* A sequence of different nodes is no longer than there are nodes.
LEMMA DifferentNodesFit ==
  ASSUME NEW S, IsFiniteSet(S), NEW s \in Seq(S),
         \A i, j \in DOMAIN s : s[i] = s[j] => i = j
  PROVE  Len(s) <= Cardinality(S)
<1>1. Len(s) \in Nat /\ \A i \in 1 .. Len(s) : s[i] \in S
  BY ElementOfSeq, LenProperties
<1>2. s \in [1 .. Len(s) -> S]
  BY <1>1
<1>3. s \in Injection(1 .. Len(s), S)
  BY <1>2 DEF Injection, IsInjective
<1>4. Cardinality(1 .. Len(s)) <= Cardinality(S)
  BY <1>3, FS_Injection
<1>5. Cardinality(1 .. Len(s)) = Len(s)
  <2>1. Cardinality(1 .. Len(s)) = IF 1 > Len(s) THEN 0 ELSE Len(s) - 1 + 1
    BY <1>1, FS_Interval
  <2> QED BY <1>1, <2>1
<1> QED BY <1>4, <1>5

LEMMA LiveNodes ==
  ASSUME len \in 1 .. MaxNodes
  PROVE  IsFiniteSet(0 .. len - 1) /\ Cardinality(0 .. len - 1) = len /\ 0 .. len - 1 \subseteq Slots
<1>1. len \in Nat /\ 0 \in Int /\ len - 1 \in Int /\ ~ (0 > len - 1) /\ MaxNodes \in Nat
  BY CapacityAssumption
<1>2. IsFiniteSet(0 .. len - 1) /\ Cardinality(0 .. len - 1) = len - 1 - 0 + 1
  BY <1>1, FS_Interval
<1> QED BY <1>1, <1>2 DEF Slots

\* A node that is linked is live.
LEMMA LinkedIsLive ==
  ASSUME ForestInv, NEW n \in Slots
  PROVE  /\ links.parent[n] # None => n < len
         /\ \A c \in Slots : links.parent[c] = n => n < len
         /\ ~ (n < len) => links.first[n] = None
<1>1. FreshUnlinked(links, len) /\ WellFormed(links) /\ len \in 1 .. MaxNodes
  BY IndInvParts DEF ForestInv
<1>2. ~ (n < len) => n >= len
  BY <1>1, CapacityAssumption DEF Slots
<1> QED BY <1>1, <1>2, ParentsHaveEnds DEF FreshUnlinked

(* The children an iterator yields are the chain of the node's children.   *)
LEMMA ChildrenAreTheChain ==
  ASSUME ForestInv, NEW p \in Slots
  PROVE  /\ children(p) \in Seq(Slots)
         /\ IsChain(links, p, children(p))
         /\ children(p) = Chain(links, p)
<1>1. /\ WellFormed(links) /\ HasChains(links) /\ len \in 1 .. MaxNodes
  BY ForestInvParts
<1>2. PICK s \in Seq(Slots) : IsChain(links, p, s)
  BY <1>1 DEF HasChains
<1>3. Len(s) \in Nat /\ len \in Nat /\ None \notin Slots /\ \A i \in 1 .. Len(s) : s[i] \in Slots
  BY <1>1, LenProperties, ElementOfSeq, WellFormedFields, CapacityAssumption
<1>4. \A i \in 1 .. Len(s) : s[i] < len
  <2> SUFFICES ASSUME NEW i \in 1 .. Len(s) PROVE s[i] < len
    OBVIOUS
  <2>1. links.parent[s[i]] = p /\ s[i] \in Slots
    BY <1>2, <1>3 DEF IsChain
  <2> QED BY <1>3, <2>1, LinkedIsLive
<1>5. LinkOf(links.first, p) = IF s = <<>> THEN None ELSE s[1]
  <2>1. links.first[p] = IF s = <<>> THEN None ELSE s[1]
    BY <1>2 DEF IsChain
  <2> QED BY <2>1, LinkedIsLive DEF LinkOf, Exists
<1>6. Trails(links.next, LinkOf(links.first, p), s)
  BY <1>2, <1>4, <1>5, <1>3 DEF Trails, IsChain
<1>7. Len(s) <= len
  <2>1. s \in Seq(0 .. len - 1)
    BY <1>3, <1>4 DEF Slots
  <2>2. \A i, j \in DOMAIN s : s[i] = s[j] => i = j
    BY <1>1, <1>2, ChainIsInjective
  <2> QED BY <1>1, <2>1, <2>2, LiveNodes, DifferentNodesFit
<1>8. children(p) = s
  BY <1>3, <1>6, <1>7, FollowYields DEF children
<1> QED BY <1>1, <1>2, <1>8, ChainChosen

(***************************************************************************)
(* The way up from a node, which ends: without cycles a node would have to *)
(* be missing that has none.                                               *)
(***************************************************************************)
GoesUp(L, n, s) ==
  /\ s # <<>> /\ s[1] = n
  /\ \A i \in DOMAIN s : L.parent[s[i]] = IF i = Len(s) THEN None ELSE s[i + 1]

LEMMA EveryNodeGoesUp ==
  ASSUME NEW L, WellFormed(L), NEW n \in Slots
  PROVE  \E s \in Seq(Slots) : GoesUp(L, n, s)
<1> DEFINE Lost == {m \in Slots : \A s \in Seq(Slots) : ~ GoesUp(L, m, s)}
<1>1. \A m \in Lost : L.parent[m] \in Lost
  <2> SUFFICES ASSUME NEW m \in Slots, L.parent[m] \notin Lost
               PROVE  \E s \in Seq(Slots) : GoesUp(L, m, s)
    OBVIOUS
  <2>1. CASE L.parent[m] = None
    <3>1. <<m>> \in Seq(Slots) /\ GoesUp(L, m, <<m>>)
      BY <2>1 DEF GoesUp
    <3> QED BY <3>1
  <2>2. CASE L.parent[m] # None
    <3>1. PICK t \in Seq(Slots) : GoesUp(L, L.parent[m], t)
      BY <2>2, WellFormedFields
    <3> DEFINE s == <<m>> \o t
    <3>2. Len(t) \in Nat /\ Len(t) > 0 /\ Len(s) = Len(t) + 1 /\ s \in Seq(Slots)
      BY <3>1, EmptySeq, LenProperties DEF GoesUp
    <3>3. s[1] = m /\ \A i \in 2 .. Len(s) : s[i] = t[i - 1]
      BY <3>2
    <3> HIDE DEF s
    <3>4. ASSUME NEW i \in DOMAIN s
          PROVE  L.parent[s[i]] = IF i = Len(s) THEN None ELSE s[i + 1]
      <4>1. CASE i = 1
        <5>1. s[2] = t[1] /\ i # Len(s)
          BY <3>2, <3>3, <4>1
        <5> QED BY <3>1, <3>3, <4>1, <5>1 DEF GoesUp
      <4>2. CASE i # 1
        <5>1. i \in 2 .. Len(s) /\ i - 1 \in DOMAIN t /\ (i = Len(s) <=> i - 1 = Len(t))
          BY <3>2, <4>2
        <5>2. i # Len(s) => s[i + 1] = t[i - 1 + 1]
          BY <3>2, <3>3, <5>1
        <5> QED BY <3>1, <3>3, <5>1, <5>2 DEF GoesUp
      <4> QED BY <4>1, <4>2
    <3>5. s # <<>>
      BY <3>2
    <3> QED BY <3>2, <3>3, <3>4, <3>5 DEF GoesUp
  <2> QED BY <2>1, <2>2
<1>2. Lost = {}
  <2> HIDE DEF Lost
  <2>1. Lost \in SUBSET Slots
    BY DEF Lost
  <2> QED BY <1>1, <2>1, CycleFree
<1> QED BY <1>2

\* It meets no node twice.
LEMMA WaysUpAreInjective ==
  ASSUME NEW L, WellFormed(L), NEW n, NEW s \in Seq(Slots), GoesUp(L, n, s),
         NEW i \in DOMAIN s, NEW j \in DOMAIN s, s[i] = s[j]
  PROVE  i = j
<1>1. ASSUME NEW a \in DOMAIN s, NEW b \in DOMAIN s, a < b, s[a] = s[b] PROVE FALSE
  <2> DEFINE Between == {s[k] : k \in a .. b - 1}
  <2>1. \A k \in a .. b - 1 : k \in DOMAIN s /\ k + 1 \in DOMAIN s /\ k # Len(s)
    BY <1>1
  <2>2. \A k \in a .. b - 1 : L.parent[s[k]] = s[k + 1]
    BY <2>1 DEF GoesUp
  <2>3. \A k \in a .. b - 1 : s[k + 1] \in Between
    <3> SUFFICES ASSUME NEW k \in a .. b - 1 PROVE s[k + 1] \in Between
      OBVIOUS
    <3>1. CASE k + 1 = b
      <4>1. a \in a .. b - 1 /\ s[k + 1] = s[a]
        BY <1>1, <3>1
      <4> QED BY <4>1
    <3>2. CASE k + 1 # b
      <4>1. k + 1 \in a .. b - 1
        BY <1>1, <3>2
      <4> QED BY <4>1
    <3> QED BY <3>1, <3>2
  <2>4. Between \in SUBSET Slots /\ Between # {}
    <3>1. a \in a .. b - 1
      BY <1>1
    <3>2. \A k \in a .. b - 1 : s[k] \in Slots
      BY <2>1, ElementOfSeq
    <3> QED BY <3>1, <3>2
  <2>5. \A c \in Between : L.parent[c] \in Between
    BY <2>2, <2>3
  <2> HIDE DEF Between
  <2> QED BY <2>4, <2>5, CycleFree
<1> QED BY <1>1

(* It meets the ancestors of the node and no other.                        *)
LEMMA WaysUpMeetAncestors ==
  ASSUME NEW L, WellFormed(L), NEW n \in Slots, NEW s \in Seq(Slots), GoesUp(L, n, s), NEW c \in Slots
  PROVE  (\E i \in DOMAIN s : s[i] = c) <=> is_ancestor_or_self(L, c, n)
<1>0. Len(s) \in Nat /\ 1 \in DOMAIN s /\ \A i \in 1 .. Len(s) : s[i] \in Slots
  BY EmptySeq, ElementOfSeq, LenProperties DEF GoesUp
<1>1. ASSUME is_ancestor_or_self(L, c, n) PROVE \E i \in DOMAIN s : s[i] = c
  <2> DEFINE S == {s[i] : i \in DOMAIN s}
  <2>1. S \in SUBSET Slots /\ n \in S
    BY <1>0 DEF GoesUp
  <2>2. ParentClosed(L, S)
    <3> SUFFICES ASSUME NEW i \in DOMAIN s PROVE L.parent[s[i]] \in S \cup {None}
      BY DEF ParentClosed
    <3>1. i # Len(s) => i + 1 \in DOMAIN s
      BY <1>0
    <3> QED BY <3>1 DEF GoesUp
  <2> QED BY <1>1, <2>1, <2>2 DEF is_ancestor_or_self
<1>2. ASSUME NEW j \in DOMAIN s PROVE is_ancestor_or_self(L, s[j], n)
  <2> SUFFICES ASSUME NEW S \in SUBSET Slots, n \in S, ParentClosed(L, S), s[j] \notin S PROVE FALSE
    BY DEF is_ancestor_or_self
  <2> DEFINE D == {k \in DOMAIN s : s[k] \notin S}
  <2>1. D \in SUBSET Nat /\ D # {}
    OBVIOUS
  <2>2. PICK k \in D : \A i \in D : k <= i
    BY <2>1, LeastNatural
  <2>3. k # 1 /\ k - 1 \in DOMAIN s /\ k - 1 # Len(s) /\ k - 1 + 1 = k
    BY <1>0, <2>2 DEF GoesUp
  <2>4. s[k - 1] \in S
    BY <2>2, <2>3
  <2>5. L.parent[s[k - 1]] = s[k] /\ s[k] # None
    BY <1>0, <2>2, <2>3, WellFormedFields DEF GoesUp
  <2> QED BY <2>2, <2>4, <2>5 DEF ParentClosed
<1> QED BY <1>1, <1>2

(* ancestors() yields the way up from the parent.                          *)
LEMMA AncestorsAreTheWayUp ==
  ASSUME ForestInv, NEW n \in 0 .. len - 1, NEW c \in 0 .. len - 1
  PROVE  c \in ToSet(ancestors(n)) <=> c # n /\ is_ancestor_or_self(links, c, n)
<1>1. WellFormed(links) /\ len \in 1 .. MaxNodes
  BY ForestInvParts
<1>2. n \in Slots /\ c \in Slots /\ len \in Nat /\ None \notin Slots /\ n < len
  BY <1>1, LiveNodes, WellFormedFields, CapacityAssumption
<1>3. LinkOf(links.parent, n) = links.parent[n]
  BY <1>2 DEF LinkOf, Exists
<1>4. CASE links.parent[n] = None
  <2>1. Trails(links.parent, None, <<>>) /\ <<>> \in Seq(Slots) /\ Len(<<>>) <= len
    BY <1>2 DEF Trails
  <2>2. ancestors(n) = <<>>
    BY <1>2, <1>3, <1>4, <2>1, FollowYields DEF ancestors
  <2>3. ~ (c # n /\ is_ancestor_or_self(links, c, n))
    BY <1>1, <1>2, <1>4, AncestorsStepUp
  <2> QED BY <2>2, <2>3 DEF ToSet
<1>5. CASE links.parent[n] # None
  <2>0. links.parent[n] \in Slots
    BY <1>1, <1>2, <1>5, WellFormedFields
  <2>1. PICK p \in Slots : p = links.parent[n]
    BY <2>0
  <2>2. PICK s \in Seq(Slots) : GoesUp(links, p, s)
    BY <1>1, EveryNodeGoesUp
  <2>3. Len(s) \in Nat /\ \A i \in 1 .. Len(s) : s[i] \in Slots
    BY ElementOfSeq, LenProperties
  <2>4. \A i \in 1 .. Len(s) : s[i] < len
    <3> SUFFICES ASSUME NEW i \in 1 .. Len(s) PROVE s[i] < len
      OBVIOUS
    <3>1. CASE i = 1
      BY <1>2, <2>1, <2>2, <3>1, LinkedIsLive DEF GoesUp
    <3>2. CASE i # 1
      <4>1. i - 1 \in DOMAIN s /\ i - 1 # Len(s) /\ i - 1 + 1 = i
        BY <2>3, <3>2
      <4>2. links.parent[s[i - 1]] = s[i]
        BY <2>2, <4>1 DEF GoesUp
      <4> QED BY <2>3, <4>1, <4>2, LinkedIsLive
    <3> QED BY <3>1, <3>2
  <2>5. Trails(links.parent, p, s)
    BY <2>2, <2>4, <2>3 DEF Trails, GoesUp
  <2>6. Len(s) <= len
    <3>1. s \in Seq(0 .. len - 1)
      BY <2>3, <2>4, <1>2 DEF Slots
    <3>2. \A i, j \in DOMAIN s : s[i] = s[j] => i = j
      BY <1>1, <2>2, WaysUpAreInjective
    <3> QED BY <1>1, <3>1, <3>2, LiveNodes, DifferentNodesFit
  <2>7. ancestors(n) = s
    BY <1>2, <1>3, <2>1, <2>5, <2>6, FollowYields DEF ancestors
  <2>8. c \in ToSet(ancestors(n)) <=> \E i \in DOMAIN s : s[i] = c
    BY <2>7 DEF ToSet
  <2>9. c \in ToSet(ancestors(n)) <=> is_ancestor_or_self(links, c, p)
    BY <1>1, <1>2, <2>2, <2>8, WaysUpMeetAncestors
  <2>10. is_ancestor_or_self(links, c, n) <=> c = n \/ is_ancestor_or_self(links, c, p)
    BY <1>1, <1>2, <1>5, <2>1, AncestorsStepUp
  <2>11. ~ is_ancestor_or_self(links, n, p)
    BY <1>1, <1>2, <2>1, ParentIsAbove
  <2> QED BY <2>9, <2>10, <2>11
<1> QED BY <1>4, <1>5

(***************************************************************************)
(* The walk of descendants(): what it has yielded and what is on its stack.*)
(***************************************************************************)
Above(a, b)    == is_ancestor_or_self(links, a, b)
Below(id, m)   == m # id /\ Above(id, m)
Yielded(st, m) == \E i \in DOMAIN st.items : st.items[i] = m

\* What is below id was yielded or is under one node of the stack, and not both.
Parted(id, st) ==
  /\ \A m \in Slots : Below(id, m) <=> Yielded(st, m) \/ \E i \in DOMAIN st.stack : Above(st.stack[i], m)
  /\ \A i \in DOMAIN st.items, j \in DOMAIN st.stack : ~ Above(st.stack[j], st.items[i])
  /\ \A i, j \in DOMAIN st.stack : \A m \in Slots :
       Above(st.stack[i], m) /\ Above(st.stack[j], m) => i = j

\* A node of the stack is pushed below what its earlier sibling has left to yield.
InLine(s) ==
  \A n, m, k \in Slots : links.next[n] = m /\ Above(n, k) =>
    \A i, j \in DOMAIN s : Above(s[i], k) /\ Above(s[j], m) =>
      i <= j /\ (m = s[j] => i < j)

\* Before a node came what is above it, and all there is of its earlier sibling.
Before(s, i, m) == \E j \in 1 .. i - 1 : s[j] = m
InOrder(id, s) ==
  /\ \A i, j \in DOMAIN s : s[i] = s[j] => i = j
  /\ \A i \in DOMAIN s : \A n \in Slots : Below(id, n) /\ Above(n, s[i]) /\ n # s[i] => Before(s, i, n)
  /\ \A i \in DOMAIN s : \A n, k \in Slots : links.next[n] = s[i] /\ Above(n, k) => Before(s, i, k)

PopState == [stack : Seq(Slots), items : Seq(Slots)]
PopInv(id, st) == Parted(id, st) /\ InLine(st.stack) /\ InOrder(id, st.items)

LEMMA AboveFacts ==
  ASSUME WellFormed(links)
  PROVE  /\ \A a \in Slots : Above(a, a)
         /\ \A a, b, c \in Slots : Above(a, b) /\ Above(b, c) => Above(a, c)
         /\ \A a, b \in Slots : Above(a, b) /\ Above(b, a) => a = b
         /\ \A a, b \in Slots : links.parent[b] = a => a # b /\ Above(a, b) /\ ~ Above(b, a)
         /\ \A a, b \in Slots : Below(a, b) => links.parent[b] \in Slots /\ Above(a, links.parent[b])
<1>1. \A a \in Slots : Above(a, a)
  BY DEF Above, is_ancestor_or_self
<1>2. \A a, b, c \in Slots : Above(a, b) /\ Above(b, c) => Above(a, c)
  BY AncestorsCompose DEF Above
<1>3. \A a, b \in Slots : Above(a, b) /\ Above(b, a) => a = b
  BY AncestorsDiffer DEF Above
<1>4. \A a, b \in Slots : links.parent[b] = a => a # b /\ Above(a, b) /\ ~ Above(b, a)
  BY ParentIsAbove DEF Above
<1>5. \A a, b \in Slots : Below(a, b) => links.parent[b] \in Slots /\ Above(a, links.parent[b])
  BY AncestorsStepUp, WellFormedFields DEF Above, Below
<1> QED BY <1>1, <1>2, <1>3, <1>4, <1>5

(* The children of a node share out what is below it, in their order.      *)
LEMMA ChildrenPart ==
  ASSUME ForestInv, NEW p \in Slots, NEW s, s = children(p)
  PROVE  /\ s \in Seq(Slots)
         /\ \A i \in DOMAIN s : s[i] \in Slots /\ links.parent[s[i]] = p
         /\ \A m \in Slots : Below(p, m) <=> \E i \in DOMAIN s : Above(s[i], m)
         /\ \A i, j \in DOMAIN s : \A m \in Slots : Above(s[i], m) /\ Above(s[j], m) => i = j
<1>1. WellFormed(links) /\ s \in Seq(Slots) /\ IsChain(links, p, s)
  BY ForestInvParts, ChildrenAreTheChain
<1>2. \A i \in DOMAIN s : s[i] \in Slots /\ links.parent[s[i]] = p
  BY <1>1, ElementOfSeq DEF IsChain
<1>3. ASSUME NEW m \in Slots, Below(p, m) PROVE \E i \in DOMAIN s : Above(s[i], m)
  <2>1. PICK c \in Slots : links.parent[c] = p /\ Above(c, m)
    BY <1>1, <1>3, BelowAChild DEF Below, Above
  <2>2. PICK i \in DOMAIN s : s[i] = c
    BY <1>1, <2>1, ChainCovers
  <2> QED BY <2>1, <2>2
<1>4. ASSUME NEW m \in Slots, NEW i \in DOMAIN s, Above(s[i], m) PROVE Below(p, m)
  BY <1>1, <1>2, <1>4, AboveFacts DEF Below
<1>5. ASSUME NEW i \in DOMAIN s, NEW j \in DOMAIN s, NEW m \in Slots, Above(s[i], m), Above(s[j], m)
      PROVE  i = j
  <2>1. s[i] = s[j]
    BY <1>1, <1>2, <1>5, SiblingsShareNone DEF Above
  <2> QED BY <1>1, <2>1, ChainIsInjective
<1> QED BY <1>1, <1>2, <1>3, <1>4, <1>5

LEMMA ChildrenInLine ==
  ASSUME ForestInv, NEW p \in Slots
  PROVE  InLine(children(p))
<1> SUFFICES ASSUME NEW s, s = children(p), NEW n \in Slots, NEW m \in Slots, NEW k \in Slots,
                    links.next[n] = m, Above(n, k),
                    NEW i \in DOMAIN s, NEW j \in DOMAIN s, Above(s[i], k), Above(s[j], m)
             PROVE  i <= j /\ (m = s[j] => i < j)
  BY DEF InLine
<1>1. WellFormed(links) /\ s \in Seq(Slots) /\ IsChain(links, p, s)
  BY ForestInvParts, ChildrenAreTheChain
<1>2. links.parent[n] = links.parent[m]
  BY <1>1, WellFormedFields DEF WellFormed, SiblingsShareParent
<1>3. s[i] \in Slots /\ s[j] \in Slots /\ links.parent[s[j]] = p /\ i \in Nat /\ j \in Nat
  BY <1>1, ChildrenPart
<1>4. CASE m = s[j]
  <2>1. PICK a \in DOMAIN s : s[a] = n
    BY <1>1, <1>2, <1>3, <1>4, ChainCovers
  <2>2. a = i
    BY <2>1, ChildrenPart
  <2>3. i # Len(s) /\ s[i + 1] = s[j] /\ i + 1 \in DOMAIN s
    <3>1. links.next[s[i]] = s[j] /\ s[j] # None
      BY <1>1, <1>3, <1>4, <2>1, <2>2, WellFormedFields
    <3> QED BY <1>1, <3>1 DEF IsChain
  <2>4. j = i + 1
    BY <1>1, <2>3, ChainIsInjective
  <2> QED BY <1>3, <2>4
<1>5. CASE m # s[j]
  <2>1. links.parent[n] \in Slots /\ Above(s[j], links.parent[n])
    BY <1>1, <1>2, <1>3, <1>5, AboveFacts DEF Below
  <2>2. Above(links.parent[n], n)
    BY <1>1, <2>1, AboveFacts
  <2>3. Above(s[j], k)
    BY <1>1, <1>3, <2>1, <2>2, AboveFacts
  <2>4. i = j
    BY <2>3, ChildrenPart
  <2> QED BY <1>3, <1>5, <2>4
<1> QED BY <1>4, <1>5

LEMMA PopStart ==
  ASSUME ForestInv, NEW id \in Slots
  PROVE  PopInv(id, [stack |-> children(id), items |-> <<>>])
<1>1. Parted(id, [stack |-> children(id), items |-> <<>>])
  BY ChildrenPart DEF Parted, Yielded
<1>2. InOrder(id, <<>>)
  BY DEF InOrder
<1> QED BY <1>1, <1>2, ChildrenInLine DEF PopInv

\* Where a node of the stack was, or the node it was pushed for, before the pop.
Was(r, i) == IF i <= r THEN 1 ELSE i - r + 1

\* s is the stack q after its first node was popped and the r nodes of c pushed.
IsPushed(S, q, c, s, r) ==
  /\ s \in Seq(S) /\ r \in Nat
  /\ \A i \in DOMAIN c : i \in DOMAIN s /\ s[i] = c[i] /\ i <= r
  /\ \A j \in DOMAIN q : j > 1 => r + j - 1 \in DOMAIN s /\ s[r + j - 1] = q[j]
  /\ \A i \in DOMAIN s :
       /\ i \in Nat /\ s[i] \in S /\ Was(r, i) \in DOMAIN q
       /\ i <= r => i \in DOMAIN c /\ s[i] = c[i] /\ Was(r, i) = 1
       /\ i > r => Was(r, i) > 1 /\ s[i] = q[Was(r, i)] /\ Was(r, i) = i - r + 1

LEMMA PushedPlaces ==
  ASSUME NEW S, NEW q \in Seq(S), q # <<>>, NEW c \in Seq(S)
  PROVE  IsPushed(S, q, c, c \o Tail(q), Len(c))
<1> DEFINE s == c \o Tail(q)
           r == Len(c)
<1>1. /\ Len(q) \in Nat /\ Len(q) > 0 /\ r \in Nat
      /\ Tail(q) \in Seq(S) /\ Len(Tail(q)) = Len(q) - 1
      /\ \A i \in 1 .. Len(q) - 1 : Tail(q)[i] = q[i + 1]
  BY EmptySeq, LenProperties
<1>2. s \in Seq(S) /\ Len(s) = r + (Len(q) - 1)
  BY <1>1
<1>0. DOMAIN c = 1 .. r
  OBVIOUS
<1>3. \A i \in 1 .. Len(s) : s[i] = IF i <= r THEN c[i] ELSE Tail(q)[i - r]
  BY <1>1
<1> HIDE DEF s, r
<1>4. \A i \in 1 .. Len(s) : s[i] \in S
  BY <1>2, ElementOfSeq
<1>5. ASSUME NEW i \in 1 .. r PROVE i \in 1 .. Len(s) /\ s[i] = c[i] /\ i <= r
  BY ONLY <1>1, <1>2, <1>3, <1>5
<1>6. ASSUME NEW j \in 1 .. Len(q), j > 1
      PROVE  r + j - 1 \in 1 .. Len(s) /\ s[r + j - 1] = q[j]
  <2>0. PICK a : a = r + j - 1
    OBVIOUS
  <2>1. a \in 1 .. Len(s) /\ ~ (a <= r) /\ a - r = j - 1
    BY ONLY <1>1, <1>2, <1>6, <2>0
  <2>2. j - 1 \in 1 .. Len(q) - 1 /\ j - 1 + 1 = j
    BY ONLY <1>1, <1>6
  <2>3. s[a] = Tail(q)[a - r]
    BY ONLY <1>3, <2>1
  <2>4. Tail(q)[j - 1] = q[j]
    BY ONLY <1>1, <2>2
  <2> QED BY ONLY <2>0, <2>1, <2>3, <2>4
<1>7. ASSUME NEW i \in 1 .. Len(s), i <= r
      PROVE  i \in 1 .. r /\ s[i] = c[i] /\ Was(r, i) = 1 /\ 1 \in 1 .. Len(q)
  BY ONLY <1>1, <1>2, <1>3, <1>7 DEF Was
<1>8. ASSUME NEW i \in 1 .. Len(s), i > r
      PROVE  /\ Was(r, i) \in 1 .. Len(q) /\ Was(r, i) > 1 /\ Was(r, i) = i - r + 1
             /\ s[i] = q[Was(r, i)]
  <2>1. ~ (i <= r) /\ i - r \in 1 .. Len(q) - 1 /\ i - r + 1 \in 1 .. Len(q) /\ i - r + 1 > 1
    BY ONLY <1>1, <1>2, <1>8
  <2> QED BY ONLY <1>1, <1>3, <2>1 DEF Was
<1>9. \A i \in 1 .. Len(s) : i \in Nat /\ (i <= r \/ i > r)
  BY <1>1, <1>2
<1>10. DOMAIN s = 1 .. Len(s) /\ DOMAIN q = 1 .. Len(q) /\ DOMAIN c = 1 .. r
  BY <1>0, <1>2
<1>11. \A i \in DOMAIN c : i \in DOMAIN s /\ s[i] = c[i] /\ i <= r
  BY ONLY <1>5, <1>10
<1>12. \A j \in DOMAIN q : j > 1 => r + j - 1 \in DOMAIN s /\ s[r + j - 1] = q[j]
  BY ONLY <1>6, <1>10
<1>13. \A i \in DOMAIN s : i <= r => i \in DOMAIN c /\ s[i] = c[i] /\ Was(r, i) = 1
  BY ONLY <1>7, <1>10
<1>14. \A i \in DOMAIN s : i > r => Was(r, i) > 1 /\ s[i] = q[Was(r, i)] /\ Was(r, i) = i - r + 1
  BY ONLY <1>8, <1>10
<1>15. \A i \in DOMAIN s : i \in Nat /\ s[i] \in S /\ Was(r, i) \in DOMAIN q
  BY ONLY <1>4, <1>7, <1>8, <1>9, <1>10
<1>16. IsPushed(S, q, c, s, r)
  BY ONLY <1>1, <1>2, <1>11, <1>12, <1>13, <1>14, <1>15 DEF IsPushed
<1> QED BY <1>16 DEF s, r

LEMMA PopStep ==
  ASSUME ForestInv, NEW id \in Slots, NEW st \in PopState, PopInv(id, st), st.stack # <<>>,
         NEW h, h = Head(st.stack), NEW c, c = children(h), NEW s, s = c \o Tail(st.stack),
         NEW q, q = st.stack, NEW r, r = Len(c), NEW t, t = Append(st.items, h)
  PROVE  /\ popped(st) = [stack |-> s, items |-> Append(st.items, h)]
         /\ popped(st) \in PopState
         /\ Below(id, h) /\ ~ Yielded(st, h)
         /\ PopInv(id, popped(st))
<1> DEFINE new == [stack |-> s, items |-> t]
<1>1. popped(st) = new
  BY DEF popped
<1>2. /\ q \in Seq(Slots) /\ st.items \in Seq(Slots) /\ Len(q) \in Nat /\ 1 \in DOMAIN q
      /\ h = q[1] /\ h \in Slots /\ \A i \in DOMAIN q : q[i] \in Slots
      /\ \A i \in DOMAIN st.items : st.items[i] \in Slots
  BY EmptySeq, ElementOfSeq, LenProperties DEF PopState
<1>3. /\ c \in Seq(Slots) /\ r \in Nat
      /\ \A i \in DOMAIN c : c[i] \in Slots /\ links.parent[c[i]] = h
      /\ \A m \in Slots : Below(h, m) <=> \E i \in DOMAIN c : Above(c[i], m)
      /\ \A i, j \in DOMAIN c : \A m \in Slots : Above(c[i], m) /\ Above(c[j], m) => i = j
  BY <1>2, ChildrenPart, LenProperties
<1>4. /\ s \in Seq(Slots) /\ r \in Nat
      /\ \A i \in DOMAIN c : i \in DOMAIN s /\ s[i] = c[i] /\ i <= r
      /\ \A j \in DOMAIN q : j > 1 => r + j - 1 \in DOMAIN s /\ s[r + j - 1] = q[j]
      /\ \A i \in DOMAIN s :
           /\ i \in Nat /\ s[i] \in Slots /\ Was(r, i) \in DOMAIN q
           /\ i <= r => i \in DOMAIN c /\ s[i] = c[i] /\ Was(r, i) = 1
           /\ i > r => Was(r, i) > 1 /\ s[i] = q[Was(r, i)] /\ Was(r, i) = i - r + 1
  <2>1. q \in Seq(Slots) /\ q # <<>> /\ c \in Seq(Slots) /\ s = c \o Tail(q) /\ r = Len(c)
    BY <1>2, <1>3
  <2>2. IsPushed(Slots, q, c, s, r)
    BY <2>1, PushedPlaces
  <2> QED BY <2>2 DEF IsPushed
<1>5. /\ t \in Seq(Slots) /\ Len(t) = Len(st.items) + 1 /\ Len(st.items) \in Nat
      /\ \A i \in DOMAIN st.items : i \in DOMAIN t /\ t[i] = st.items[i]
      /\ t[Len(st.items) + 1] = h
      /\ \A i \in DOMAIN t : i \in DOMAIN st.items \/ i = Len(st.items) + 1
  BY <1>2
<1>6. WellFormed(links)
  BY ForestInvParts
<1>7. Below(id, h)
  BY <1>2, <1>6, AboveFacts DEF PopInv, Parted
<1>8. ~ Yielded(st, h)
  BY <1>2, <1>6, AboveFacts DEF PopInv, Parted, Yielded
\* What a node of the new stack is above, a node of the old one was.
<1>9. \A i \in DOMAIN s : i <= r \/ i > r
  BY <1>4
<1>11. \A i \in DOMAIN s : \A m \in Slots : Above(s[i], m) => Above(q[Was(r, i)], m)
  <2> SUFFICES ASSUME NEW i \in DOMAIN s, NEW m \in Slots, Above(s[i], m)
               PROVE  Above(q[Was(r, i)], m)
    OBVIOUS
  <2>1. CASE i <= r
    <3>1. Above(c[i], m) /\ i \in DOMAIN c /\ Was(r, i) = 1
      BY <1>4, <2>1
    <3>2. Below(h, m)
      BY <1>3, <3>1
    <3> QED BY <1>2, <3>1, <3>2 DEF Below
  <2>2. CASE i > r
    BY <1>4, <2>2
  <2> QED BY <1>9, <2>1, <2>2
<1>12. \A i \in DOMAIN s : Above(s[i], h) => FALSE
  <2> SUFFICES ASSUME NEW i \in DOMAIN s, Above(s[i], h) PROVE FALSE
    OBVIOUS
  <2>0. Above(s[i], h)
    OBVIOUS
  <2>1. CASE i <= r
    <3>0. s[i] \in Slots /\ i \in DOMAIN c /\ s[i] = c[i]
      BY ONLY <1>4, <2>1, i \in DOMAIN s
    <3>1. s[i] \in Slots /\ links.parent[s[i]] = h
      BY ONLY <1>3, <3>0
    <3>2. h \in Slots
      BY <1>2
    <3> QED BY ONLY <1>6, <2>0, <3>1, <3>2, AboveFacts
  <2>2. CASE i > r
    <3>1. Above(q[Was(r, i)], h) /\ Above(q[1], h)
      BY <1>2, <1>6, <1>11, AboveFacts
    <3>2. Was(r, i) \in DOMAIN q /\ Was(r, i) > 1
      BY <1>4, <2>2
    <3>3. Was(r, i) = 1
      BY <1>2, <3>1, <3>2 DEF PopInv, Parted
    <3> QED BY <3>2, <3>3
  <2> QED BY <1>9, <2>1, <2>2
<1>13. Parted(id, new)
  <2>1. ASSUME NEW m \in Slots
        PROVE  Yielded(new, m) <=> Yielded(st, m) \/ m = h
    BY <1>5 DEF Yielded
  <2>2. ASSUME NEW m \in Slots, Below(id, m)
        PROVE  Yielded(new, m) \/ \E i \in DOMAIN s : Above(s[i], m)
    <3> SUFFICES ASSUME NEW j \in DOMAIN q, Above(q[j], m), m # h
                 PROVE  \E i \in DOMAIN s : Above(s[i], m)
      BY <2>1, <2>2 DEF PopInv, Parted
    <3>1. CASE j = 1
      <4>1. PICK i \in DOMAIN c : Above(c[i], m)
        BY <1>2, <1>3, <3>1 DEF Below
      <4> QED BY <1>4, <4>1
    <3>2. CASE j # 1
      <4>1. j > 1
        BY <1>2, <3>2
      <4> QED BY <1>4, <4>1
    <3> QED BY <3>1, <3>2
  <2>3. ASSUME NEW m \in Slots, Yielded(new, m) PROVE Below(id, m)
    BY <1>7, <2>1, <2>3 DEF PopInv, Parted
  <2>4. ASSUME NEW m \in Slots, NEW i \in DOMAIN s, Above(s[i], m) PROVE Below(id, m)
    BY <1>4, <1>11, <2>4 DEF PopInv, Parted
  <2>5. ASSUME NEW i \in DOMAIN t, NEW j \in DOMAIN s PROVE ~ Above(s[j], t[i])
    <3>1. CASE i \in DOMAIN st.items
      BY <1>2, <1>4, <1>5, <1>11, <3>1 DEF PopInv, Parted
    <3>2. CASE i = Len(st.items) + 1
      BY <1>5, <1>12, <3>2
    <3> QED BY <1>5, <3>1, <3>2
  <2>6. ASSUME NEW i \in DOMAIN s, NEW j \in DOMAIN s, NEW m \in Slots, Above(s[i], m), Above(s[j], m)
        PROVE  i = j
    <3>1. Was(r, i) = Was(r, j)
      BY <1>4, <1>11, <2>6 DEF PopInv, Parted
    <3>2. CASE i <= r /\ j <= r
      <4>1. i \in DOMAIN c /\ j \in DOMAIN c /\ Above(c[i], m) /\ Above(c[j], m)
        BY <1>4, <2>6, <3>2
      <4> QED BY <1>3, <4>1
    <3>3. CASE ~ (i <= r /\ j <= r)
      <4>1. i \in Nat /\ j \in Nat
        BY <1>4
      <4>2. i <= r => Was(r, i) = 1
        BY <1>4
      <4>3. j <= r => Was(r, j) = 1
        BY <1>4
      <4>4. i > r => Was(r, i) > 1 /\ Was(r, i) = i - r + 1
        BY <1>4
      <4>5. j > r => Was(r, j) > 1 /\ Was(r, j) = j - r + 1
        BY <1>4
      <4> QED BY ONLY <1>4, <3>1, <3>3, <4>1, <4>2, <4>3, <4>4, <4>5
    <3> QED BY <3>2, <3>3
  <2>7. new.stack = s /\ new.items = t
    OBVIOUS
  <2> HIDE DEF new
  <2> QED BY ONLY <2>2, <2>3, <2>4, <2>5, <2>6, <2>7, <1>4 DEF Parted
<1>14. InLine(s)
  <2> SUFFICES ASSUME NEW n \in Slots, NEW m \in Slots, NEW k \in Slots, links.next[n] = m, Above(n, k),
                      NEW i \in DOMAIN s, NEW j \in DOMAIN s, Above(s[i], k), Above(s[j], m)
               PROVE  i <= j /\ (m = s[j] => i < j)
    BY DEF InLine
  <2>0. i \in Nat /\ j \in Nat /\ Was(r, i) \in DOMAIN q /\ Was(r, j) \in DOMAIN q
    BY <1>4
  <2>1. Was(r, i) <= Was(r, j) /\ (m = q[Was(r, j)] => Was(r, i) < Was(r, j))
    BY <1>11, <2>0 DEF PopInv, InLine
  <2>2. CASE i <= r /\ j <= r
    <3>1. i \in DOMAIN c /\ j \in DOMAIN c /\ s[i] = c[i] /\ s[j] = c[j]
      BY <1>4, <2>2
    <3>2. InLine(c)
      BY <1>2, ChildrenInLine
    <3>3. /\ links.next[n] = m /\ Above(n, k) /\ Above(c[i], k) /\ Above(c[j], m)
          /\ n \in Slots /\ m \in Slots /\ k \in Slots
      BY <3>1
    <3>4. i <= j /\ (m = c[j] => i < j)
      BY ONLY <3>1, <3>2, <3>3 DEF InLine
    <3> QED BY ONLY <3>1, <3>4
  <2>3. CASE i <= r /\ j > r
    <3>1. r \in Nat
      BY <1>4
    <3> QED BY ONLY <2>0, <2>3, <3>1
  <2>4. CASE i > r
    <3>1. Was(r, i) > 1 /\ Was(r, i) = i - r + 1
      BY <1>4, <2>4
    <3>2. j <= r => Was(r, j) = 1
      BY <1>4
    <3>3. j > r
      BY <1>2, <1>9, <2>0, <2>1, <3>1, <3>2
    <3>4. s[j] = q[Was(r, j)] /\ Was(r, j) = j - r + 1
      BY <1>4, <3>3
    <3> QED BY ONLY <1>4, <2>0, <2>1, <3>1, <3>4
  <2> QED BY <1>9, <2>2, <2>3, <2>4
<1>15. InOrder(id, t)
  <2>1. \A i \in DOMAIN st.items : \A m : Before(st.items, i, m) => Before(t, i, m)
    BY <1>5 DEF Before
  <2>2. \A m : Yielded(st, m) => Before(t, Len(st.items) + 1, m)
    BY <1>5 DEF Before, Yielded
  <2>3. ASSUME NEW i \in DOMAIN t, NEW j \in DOMAIN t, t[i] = t[j] PROVE i = j
    BY <1>5, <1>8, <2>3 DEF PopInv, InOrder, Yielded
  <2>4. ASSUME NEW i \in DOMAIN t, NEW n \in Slots, Below(id, n), Above(n, t[i]), n # t[i]
        PROVE  Before(t, i, n)
    <3>1. CASE i \in DOMAIN st.items
      BY <1>5, <2>1, <2>4, <3>1 DEF PopInv, InOrder
    <3>2. CASE i = Len(st.items) + 1
      <4> SUFFICES ASSUME NEW j \in DOMAIN q, Above(q[j], n) PROVE FALSE
        BY <2>2, <2>4, <3>2 DEF PopInv, Parted
      <4>1. Above(n, h) /\ n # h
        BY <1>5, <2>4, <3>2
      <4>2. Above(q[j], h) /\ Above(q[1], h)
        BY <1>2, <1>6, <4>1, AboveFacts
      <4>3. j = 1
        BY <1>2, <4>2 DEF PopInv, Parted
      <4> QED BY <1>2, <1>6, <4>1, <4>3, AboveFacts
    <3> QED BY <1>5, <3>1, <3>2
  <2>5. ASSUME NEW i \in DOMAIN t, NEW n \in Slots, NEW k \in Slots, links.next[n] = t[i], Above(n, k)
        PROVE  Before(t, i, k)
    <3>1. CASE i \in DOMAIN st.items
      BY <1>5, <2>1, <2>5, <3>1 DEF PopInv, InOrder
    <3>2. CASE i = Len(st.items) + 1
      <4>1. links.next[n] = h
        BY <1>5, <2>5, <3>2
      <4>2. links.parent[n] = links.parent[h] /\ links.parent[h] \in Slots /\ Above(id, links.parent[h])
        BY <1>2, <1>6, <1>7, <4>1, AboveFacts, WellFormedFields DEF WellFormed, SiblingsShareParent
      <4>3. Above(links.parent[h], n) /\ ~ Above(n, links.parent[h])
        BY <1>6, <4>2, AboveFacts
      <4>4. Above(id, k)
        BY <1>6, <2>5, <4>2, <4>3, AboveFacts
      <4>5. k # id
        BY <1>6, <2>5, <4>2, <4>3, AboveFacts
      <4> SUFFICES ASSUME NEW j \in DOMAIN q, Above(q[j], k) PROVE FALSE
        BY <2>2, <3>2, <4>4, <4>5 DEF PopInv, Parted, Below
      <4>6. Above(q[1], h)
        BY <1>2, <1>6, AboveFacts
      <4>7. j < 1
        BY <1>2, <2>5, <4>1, <4>6 DEF PopInv, InLine
      <4> QED BY <1>2, <4>7
    <3> QED BY <1>5, <3>1, <3>2
  <2> QED BY <2>3, <2>4, <2>5 DEF InOrder
<1>16. new \in PopState
  BY <1>4, <1>5 DEF PopState
<1> QED BY <1>1, <1>7, <1>8, <1>13, <1>14, <1>15, <1>16 DEF PopInv

(* A function on states can be taken as often as one likes.                *)
Iterated(S, b, F, n) ==
  \E g \in [0 .. n -> S] : g[0] = b /\ \A k \in 1 .. n : g[k] = F[g[k - 1]]

LEMMA Iterates ==
  ASSUME NEW S, NEW b \in S, NEW F \in [S -> S], NEW n \in Nat
  PROVE  Iterated(S, b, F, n)
<1> DEFINE Run(g, m) == g[0] = b /\ \A k \in 1 .. m : g[k] = F[g[k - 1]]
           Stuck == {m \in Nat : \A g \in [0 .. m -> S] : ~ Run(g, m)}
<1> SUFFICES ASSUME Stuck # {} PROVE FALSE
  BY DEF Iterated
<1>1. PICK m \in Stuck : \A i \in Stuck : m <= i
  <2>1. Stuck \in SUBSET Nat
    OBVIOUS
  <2> QED BY <2>1, LeastNatural
<1>2. m # 0
  <2>1. [k \in 0 .. 0 |-> b] \in [0 .. 0 -> S] /\ Run([k \in 0 .. 0 |-> b], 0)
    OBVIOUS
  <2> QED BY <1>1, <2>1
<1>3. m \in Nat /\ m - 1 \in Nat /\ m - 1 \notin Stuck
  BY <1>1, <1>2
<1>4. PICK f \in [0 .. m - 1 -> S] : Run(f, m - 1)
  BY <1>3
<1> DEFINE g == [k \in 0 .. m |-> IF k = m THEN F[f[m - 1]] ELSE f[k]]
<1>5. g \in [0 .. m -> S]
  <2>1. \A k \in 0 .. m : k # m => k \in 0 .. m - 1
    BY <1>3
  <2>2. m - 1 \in 0 .. m - 1
    BY <1>3
  <2> QED BY <1>4, <2>1, <2>2
<1>6. Run(g, m)
  <2>1. g[0] = b
    BY <1>2, <1>3, <1>4
  <2>2. ASSUME NEW k \in 1 .. m PROVE g[k] = F[g[k - 1]]
    <3>1. k - 1 \in 0 .. m - 1 /\ k - 1 # m /\ k \in 0 .. m /\ k - 1 \in 0 .. m
      BY <1>3
    <3>2. k # m => k \in 1 .. m - 1
      BY <1>3
    <3> QED BY <1>4, <3>1, <3>2
  <2> QED BY <2>1, <2>2
<1> QED BY <1>1, <1>5, <1>6

Popping(h, stack, n) ==
  h = [k \in 0 .. n |-> IF k = 0 THEN [stack |-> stack, items |-> <<>>] ELSE popped(h[k - 1])]

LEMMA PopAllIsARun ==
  ASSUME NEW stack, NEW n
  PROVE  PopAll(stack, n) = (CHOOSE h : Popping(h, stack, n))[n].items
  BY Zenon DEF PopAll, Popping

LEMMA PoppedState ==
  ASSUME ForestInv, NEW st \in PopState
  PROVE  popped(st) \in PopState
<1>1. CASE st.stack = <<>>
  BY <1>1 DEF popped
<1>2. CASE st.stack # <<>>
  <2>1. Head(st.stack) \in Slots /\ Tail(st.stack) \in Seq(Slots)
    BY <1>2, EmptySeq DEF PopState
  <2>2. children(Head(st.stack)) \in Seq(Slots)
    BY <2>1, ChildrenAreTheChain
  <2>3. /\ children(Head(st.stack)) \o Tail(st.stack) \in Seq(Slots)
        /\ Append(st.items, Head(st.stack)) \in Seq(Slots)
    BY <2>1, <2>2 DEF PopState
  <2> QED BY <1>2, <2>3 DEF popped, PopState
<1> QED BY <1>1, <1>2

LEMMA PopAllRuns ==
  ASSUME ForestInv, NEW stack \in Seq(Slots), NEW n \in Nat
  PROVE  \E h : Popping(h, stack, n) /\ PopAll(stack, n) = h[n].items
<1> DEFINE b == [stack |-> stack, items |-> <<>>]
           F == [st \in PopState |-> popped(st)]
<1>1. b \in PopState /\ F \in [PopState -> PopState]
  BY PoppedState DEF PopState
<1>2. PICK g \in [0 .. n -> PopState] : g[0] = b /\ \A k \in 1 .. n : g[k] = F[g[k - 1]]
  <2> HIDE DEF b, F
  <2>1. Iterated(PopState, b, F, n)
    BY ONLY <1>1, n \in Nat, Iterates
  <2> QED BY ONLY <2>1 DEF Iterated
<1>3. \A k \in 0 .. n : g[k] = IF k = 0 THEN b ELSE popped(g[k - 1])
  <2> SUFFICES ASSUME NEW k \in 0 .. n, k # 0 PROVE g[k] = popped(g[k - 1])
    BY <1>2
  <2>1. k \in 1 .. n /\ k - 1 \in 0 .. n
    OBVIOUS
  <2> QED BY <1>2, <2>1
<1>4. Popping(g, stack, n)
  <2>1. g = [k \in 0 .. n |-> g[k]]
    OBVIOUS
  <2> QED BY <1>3, <2>1 DEF Popping
<1>5. Popping(CHOOSE h : Popping(h, stack, n), stack, n)
  BY <1>4, Zenon
<1> QED BY <1>5, PopAllIsARun

LEMMA PopKeepsInv ==
  ASSUME ForestInv, NEW id \in Slots, NEW st \in PopState, PopInv(id, st), st.stack # <<>>
  PROVE  /\ popped(st).items = Append(st.items, Head(st.stack))
         /\ popped(st) \in PopState /\ PopInv(id, popped(st))
<1>1. PICK h, q : h = Head(st.stack) /\ q = st.stack
  OBVIOUS
<1>2. PICK c, t : c = children(h) /\ t = Append(st.items, h)
  OBVIOUS
<1>3. PICK s, r : s = c \o Tail(st.stack) /\ r = Len(c)
  OBVIOUS
<1>4. popped(st).items = t
  BY <1>1, <1>2 DEF popped
<1>5. popped(st) \in PopState /\ PopInv(id, popped(st))
  BY ONLY ForestInv, id \in Slots, st \in PopState, PopInv(id, st), st.stack # <<>>,
          <1>1, <1>2, <1>3, PopStep
<1> QED BY <1>1, <1>2, <1>4, <1>5

(* Every state of the walk is as it should be, and while there is a node on *)
(* the stack, every call yielded one.                                      *)
LEMMA WalkKeepsPopInv ==
  ASSUME ForestInv, NEW id \in Slots, NEW n \in Nat, NEW h, Popping(h, children(id), n),
         NEW k \in 0 .. n
  PROVE  h[k] \in PopState /\ PopInv(id, h[k]) /\ (h[k].stack # <<>> => Len(h[k].items) = k)
<1> DEFINE Good(m) == /\ h[m] \in PopState /\ PopInv(id, h[m])
                      /\ h[m].stack # <<>> => Len(h[m].items) = m
           Bad == {m \in 0 .. n : ~ Good(m)}
<1>1. /\ h[0] = [stack |-> children(id), items |-> <<>>]
      /\ \A m \in 1 .. n : h[m] = popped(h[m - 1])
  BY DEF Popping
<1>2. Good(0)
  <2>1. h[0] \in PopState
    BY <1>1, ChildrenAreTheChain DEF PopState
  <2> QED BY <1>1, <2>1, PopStart
<1>3. ASSUME NEW m \in 1 .. n, Good(m - 1) PROVE Good(m)
  <2> DEFINE st == h[m - 1]
  <2>1. CASE st.stack = <<>>
    <3>1. h[m] = st
      BY <1>1, <2>1 DEF popped
    <3> QED BY <1>3, <2>1, <3>1
  <2>2. CASE st.stack # <<>>
    <3>1. /\ popped(st).items = Append(st.items, Head(st.stack))
          /\ popped(st) \in PopState /\ PopInv(id, popped(st))
      BY <1>3, <2>2, PopKeepsInv
    <3>2. h[m].items = Append(st.items, Head(st.stack)) /\ st.items \in Seq(Slots) /\ Len(st.items) = m - 1
      BY <1>1, <1>3, <2>2, <3>1 DEF PopState
    <3>3. Head(st.stack) \in Slots
      BY <1>3, <2>2, EmptySeq DEF PopState
    <3>4. Len(h[m].items) = m
      BY <3>2, <3>3
    <3> QED BY <1>1, <3>1, <3>4
  <2> QED BY <2>1, <2>2
<1> HIDE DEF Good
<1> SUFFICES ASSUME Bad # {} PROVE FALSE
  BY DEF Good
<1>4. PICK m \in Bad : \A i \in Bad : m <= i
  <2>1. Bad \in SUBSET Nat
    OBVIOUS
  <2> QED BY <2>1, LeastNatural
<1>5. m \in 1 .. n /\ m - 1 \in 0 .. n /\ m - 1 \notin Bad
  BY <1>2, <1>4
<1> QED BY <1>3, <1>4, <1>5

(* descendants() has an empty stack when its calls are used up: else it    *)
(* would have yielded as many nodes as there are, and not the one it       *)
(* started below.                                                          *)
LEMMA DescendantsRunOut ==
  ASSUME ForestInv, NEW id \in 0 .. len - 1, NEW D, D = descendants(id)
  PROVE  /\ D \in Seq(Slots) /\ InOrder(id, D)
         /\ \A m \in Slots : Below(id, m) <=> \E i \in DOMAIN D : D[i] = m
<1>1. WellFormed(links) /\ len \in 1 .. MaxNodes /\ len \in Nat /\ id \in Slots
  BY ForestInvParts, LiveNodes, CapacityAssumption
<1>2. children(id) \in Seq(Slots)
  BY <1>1, ChildrenAreTheChain
<1>3. PICK h : Popping(h, children(id), len) /\ D = h[len].items
  BY <1>1, <1>2, PopAllRuns DEF descendants
<1> DEFINE st == h[len]
<1>4. st \in PopState /\ PopInv(id, st) /\ (st.stack # <<>> => Len(st.items) = len)
  <2>1. len \in 0 .. len
    BY <1>1
  <2> QED BY <1>1, <1>3, <2>1, WalkKeepsPopInv
<1> HIDE DEF st
<1>5. D = st.items /\ D \in Seq(Slots) /\ \A i \in DOMAIN D : D[i] \in Slots
  BY <1>3, <1>4, ElementOfSeq DEF PopState, st
<1>6. st.stack = <<>>
  <2> SUFFICES ASSUME st.stack # <<>> PROVE FALSE
    OBVIOUS
  <2>1. \A i \in DOMAIN D : Below(id, D[i])
    BY <1>4, <1>5 DEF PopInv, Parted, Yielded
  <2>2. \A i \in DOMAIN D : D[i] \in 0 .. len - 1 /\ D[i] # id
    <3> SUFFICES ASSUME NEW i \in DOMAIN D PROVE D[i] \in 0 .. len - 1 /\ D[i] # id
      OBVIOUS
    <3>1. links.parent[D[i]] # None
      BY <1>1, <1>5, <2>1, AboveFacts, WellFormedFields
    <3>2. D[i] < len
      BY <1>5, <3>1, LinkedIsLive
    <3> QED BY <1>1, <1>5, <2>1, <3>2, CapacityAssumption DEF Slots, Below
  <2> DEFINE Rest == (0 .. len - 1) \ {id}
  <2>3. IsFiniteSet(Rest) /\ Cardinality(Rest) = len - 1
    BY <1>1, LiveNodes, FS_RemoveElement
  <2>4. D \in Seq(Rest)
    BY <1>5, <2>2
  <2>5. \A i, j \in DOMAIN D : D[i] = D[j] => i = j
    BY <1>4, <1>5 DEF PopInv, InOrder
  <2>6. Len(D) <= len - 1
    <3> HIDE DEF Rest
    <3> QED BY <2>3, <2>4, <2>5, DifferentNodesFit
  <2> QED BY <1>1, <1>4, <1>5, <2>6
<1> QED BY <1>4, <1>5, <1>6 DEF PopInv, Parted, Yielded

LEMMA DescendantsAgree ==
  ASSUME ForestInv PROVE DescendantsInDocumentOrder
<1> SUFFICES ASSUME NEW id \in 0 .. len - 1, NEW D, D = descendants(id)
             PROVE  LET Pos(n) == CHOOSE i \in DOMAIN D : D[i] = n
                        Under(n, m) == is_ancestor_or_self(links, n, m)
                    IN  /\ ToSet(D) = {n \in Slots : n # id /\ Under(id, n)}
                        /\ IsInjective(D)
                        /\ \A n, m \in ToSet(D) :
                             /\ n # m /\ Under(n, m) => Pos(n) < Pos(m)
                             /\ links.next[n] = m =>
                                  \A k \in Slots : Under(n, k) => Pos(k) < Pos(m)
  BY Zenon DEF DescendantsInDocumentOrder
<1> DEFINE Pos(n) == CHOOSE i \in DOMAIN D : D[i] = n
<1>1. /\ D \in Seq(Slots) /\ InOrder(id, D)
      /\ \A m \in Slots : Below(id, m) <=> \E i \in DOMAIN D : D[i] = m
  BY DescendantsRunOut
<1>2. \A i \in DOMAIN D : D[i] \in Slots /\ i \in Nat
  BY <1>1, ElementOfSeq
<1>3. ToSet(D) = {D[i] : i \in DOMAIN D}
  BY DEF ToSet
<1>4. \A n \in Slots : n \in ToSet(D) <=> Below(id, n)
  BY <1>1, <1>2, <1>3
<1>5. ToSet(D) \subseteq Slots
  BY <1>2, <1>3
<1>6. \A i, j \in DOMAIN D : D[i] = D[j] => i = j
  BY <1>1 DEF InOrder
<1>7. \A i \in DOMAIN D : Pos(D[i]) = i
  BY <1>6
<1> HIDE DEF Pos
<1>8. ASSUME NEW i \in DOMAIN D, NEW m, Before(D, i, m) PROVE Pos(m) < i
  <2>1. PICK j \in 1 .. i - 1 : D[j] = m
    BY <1>8 DEF Before
  <2>2. j \in DOMAIN D /\ j < i
    BY <1>1, <1>2, <2>1, LenProperties
  <2> QED BY <1>7, <2>1, <2>2
<1>9. ASSUME NEW n \in ToSet(D), NEW m \in ToSet(D)
      PROVE  /\ n # m /\ Above(n, m) => Pos(n) < Pos(m)
             /\ links.next[n] = m => \A k \in Slots : Above(n, k) => Pos(k) < Pos(m)
  <2>1. PICK i \in DOMAIN D : D[i] = m
    BY <1>3
  <2>2. Pos(m) = i /\ n \in Slots /\ Below(id, n)
    BY <1>4, <1>5, <1>7, <2>1
  <2>3. n # m /\ Above(n, m) => Before(D, i, n)
    BY <1>1, <2>1, <2>2 DEF InOrder
  <2>4. links.next[n] = m => \A k \in Slots : Above(n, k) => Before(D, i, k)
    BY <1>1, <2>1, <2>2 DEF InOrder
  <2> QED BY <1>8, <2>2, <2>3, <2>4
<1>10. ToSet(D) = {n \in Slots : n # id /\ Above(id, n)}
  BY <1>4, <1>5 DEF Below
<1>11. IsInjective(D)
  BY <1>6 DEF IsInjective
<1> QED BY <1>9, <1>10, <1>11 DEF Pos, Above

LEMMA ChildChainsAgree ==
  ASSUME ForestInv PROVE ChildChainsComplete
<1> SUFFICES ASSUME NEW p \in Slots, NEW s, s = children(p)
             PROVE  /\ ToSet(s) = {c \in Slots : links.parent[c] = p}
                    /\ IsInjective(s)
                    /\ s = Chain(links, p)
                    /\ links.last[p] = IF s = <<>> THEN None ELSE Last(s)
  BY DEF ChildChainsComplete
<1>1. WellFormed(links) /\ s \in Seq(Slots) /\ IsChain(links, p, s) /\ s = Chain(links, p)
  BY ForestInvParts, ChildrenAreTheChain
<1>2. \A i \in DOMAIN s : s[i] \in Slots /\ links.parent[s[i]] = p
  BY <1>1, ElementOfSeq DEF IsChain
<1>3. ToSet(s) = {c \in Slots : links.parent[c] = p}
  BY <1>1, <1>2, ChainCovers DEF ToSet
<1>4. IsInjective(s)
  BY <1>1, ChainIsInjective DEF IsInjective
<1>5. links.last[p] = IF s = <<>> THEN None ELSE s[Len(s)]
  BY <1>1, ChainEnds
<1> QED BY <1>1, <1>3, <1>4, <1>5 DEF Last

LEMMA AncestryIsAgreed ==
  ASSUME ForestInv PROVE AncestryAgrees
<1>1. WellFormed(links) /\ 0 .. len - 1 \subseteq Slots
  BY ForestInvParts, LiveNodes
<1> QED BY <1>1, WalksUp, AncestorsAreTheWayUp DEF AncestryAgrees

(* The iterators of every arena, after every sequence of calls and during  *)
(* the reparenting loop, yield the children, ancestors and descendants its *)
(* links make, all of them, once and in document order: the cap that is to *)
(* end a walk over broken links is met by none.                            *)
THEOREM IteratorsAgreeAlways == Spec => []IteratorsAgree
<1>1. Init => HasChains(links)
  BY InitForest DEF ForestInv
<1>2. IndInv /\ HasChains(links) /\ [Next]_vars => HasChains(links)'
  BY ForestStep DEF ForestInv
<1>3. IndInv /\ HasChains(links) => IteratorsAgree
  BY ChildChainsAgree, AncestryIsAgreed, DescendantsAgree DEF ForestInv, IteratorsAgree
<1> QED BY <1>1, <1>2, <1>3, Invariance, PTL DEF Spec
===============================================================================
