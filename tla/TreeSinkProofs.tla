---------------------------- MODULE TreeSinkProofs ----------------------------
(***************************************************************************)
(* The html5ever callbacks keep the arena a well-formed forest, for every  *)
(* capacity and every sequence of callbacks on handles the sink gave out.  *)
(***************************************************************************)
EXTENDS TreeSink, DomLinksProofs

(* What makes TreeWellFormed inductive: the number of slots is in range,   *)
(* and a running reparent_children stays outside what it empties.          *)
TreeInv ==
  /\ len \in 1 .. MaxNodes
  /\ moving \in {None} \cup [from : Slots, to : Slots]
  /\ TreeWellFormed
  /\ MoveStaysOutside

\* The arena is well-formed and has handed out n slots.
Sound(L, n) == WellFormed(L) /\ FreshUnlinked(L, n)

LEMMA HandlesAreIds == Parents \subseteq Ids /\ Movable \subseteq Ids
BY DEF Parents, Movable, Handles, Ids

-----------------------------------------------------------------------------
(* Placing a node with the arena's error dropped is placing it or nothing. *)
LEMMA TryAppend ==
  ASSUME NEW L, NEW n \in 1 .. MaxNodes, Sound(L, n), NEW up \in Ids, NEW child \in Ids
  PROVE  Sound(try_append(L, n, up, child), n)
BY AppendSound DEF try_append, Sound

LEMMA TryInsert ==
  ASSUME NEW L, NEW n \in 1 .. MaxNodes, Sound(L, n), NEW sibling \in Ids, NEW new \in Ids
  PROVE  Sound(try_insert(L, n, sibling, new), n)
<1>1. CASE check_insert(L, n, sibling, new) = "Ok"
  BY <1>1, InsertSound DEF try_insert, Sound
<1>2. CASE check_insert(L, n, sibling, new) # "Ok"
  BY <1>2 DEF try_insert
<1> QED BY <1>1, <1>2

LEMMA TryDetach ==
  ASSUME NEW L, NEW n \in 1 .. MaxNodes, Sound(L, n), NEW id \in Ids
  PROVE  Sound(try_detach(L, n, id), n)
<1>1. id < n => id \in Slots
  BY CapacityAssumption DEF Ids, Sentinel, Slots
<1> QED BY <1>1, UnlinkSound DEF try_detach, Sound

(* Handing out more slots leaves the rest as fresh as they were.           *)
LEMMA Grow ==
  ASSUME NEW L, NEW n \in 1 .. MaxNodes, NEW m \in n .. MaxNodes, Sound(L, n)
  PROVE  Sound(L, m)
BY DEF Sound, FreshUnlinked, Slots

\* Document::create returns an id, and a slot of the arena if there is room.
LEMMA CreatedIsId ==
  ASSUME len \in 1 .. MaxNodes
  PROVE  /\ Created \in Ids
         /\ ~ Full => Created = len /\ len + 1 \in len .. MaxNodes /\ Created \in Slots
BY CapacityAssumption DEF Created, Full, Ids, Sentinel, Slots

(* A step that ends in a sound arena with no loop running keeps the        *)
(* invariant.                                                              *)
LEMMA IdleStep ==
  ASSUME len' \in 1 .. MaxNodes, Sound(links', len'), moving' = None
  PROVE  TreeInv'
BY DEF TreeInv, TreeWellFormed, MoveStaysOutside, Sound

-----------------------------------------------------------------------------
(* A new node is put after its siblings-to-be in an arena that has counted *)
(* it already.                                                             *)
LEMMA DoctypeStep ==
  ASSUME TreeInv, append_doctype_to_document
  PROVE  TreeInv'
<1> USE DEF TreeInv, TreeWellFormed
<1>1. CASE Full
  BY <1>1, IdleStep DEF append_doctype_to_document, Idle, Sound
<1>2. CASE ~ Full
  <2>1. len + 1 \in len .. MaxNodes /\ Created = len /\ len \in Slots /\ len + 1 \in 1 .. MaxNodes
    BY <1>2, CreatedIsId
  <2>2. Sound(links, len + 1)
    BY <2>1, Grow DEF Sound
  <2>3. links.first[len] = None /\ links.parent[len] = None
    BY <2>1 DEF FreshUnlinked
  <2>4. check_attach(links, len + 1, Root, len) = "Ok"
    BY <2>1, <2>3 DEF check_attach, makes_cycle, Root
  <2>5. Sound(link_last(links, Root, len), len + 1)
    BY <2>1, <2>2, <2>4, AppendSound, CapacityAssumption DEF Sound, Ids, Slots, Root
  <2> QED
    BY <1>2, <2>1, <2>5, IdleStep DEF append_doctype_to_document, Idle
<1> QED BY <1>1, <1>2

LEMMA CreationStep ==
  ASSUME TreeInv,
         create_comment \/ \E template \in BOOLEAN, given \in AttrLists :
                             create_element(template, given)
  PROVE  TreeInv'
<1>1. len' \in len .. MaxNodes
  BY CapacityAssumption DEF TreeInv, create_comment, create_element, Full, Sentinel
<1>2. links' = links /\ moving' = None
  BY DEF create_comment, create_element, Idle
<1> QED BY <1>1, <1>2, Grow, IdleStep DEF TreeInv, TreeWellFormed, Sound

(* Moving and removing nodes.                                              *)
LEMMA AppendNodeStep ==
  ASSUME TreeInv, NEW up \in Ids, NEW node \in Ids, append_node(up, node)
  PROVE  TreeInv'
BY TryAppend, IdleStep DEF TreeInv, TreeWellFormed, append_node, Idle, Sound

LEMMA InsertNodeStep ==
  ASSUME TreeInv, NEW sibling \in Ids, NEW node \in Ids, insert_node(sibling, node)
  PROVE  TreeInv'
<1>1. Sound(try_detach(links, len, node), len)
  BY TryDetach DEF TreeInv, TreeWellFormed, Sound
<1>2. Sound(links', len)
  BY <1>1, TryInsert DEF TreeInv, insert_node, moved_before
<1> QED BY <1>2, IdleStep DEF TreeInv, insert_node, Idle

LEMMA RemoveStep ==
  ASSUME TreeInv, NEW target \in Ids, remove_from_parent(target)
  PROVE  TreeInv'
BY TryDetach, IdleStep DEF TreeInv, TreeWellFormed, remove_from_parent, Idle, Sound

(* Text either joins a node, which touches no link, or is a new node.      *)
LEMMA TextStep ==
  ASSUME TreeInv, NEW candidate, NEW placed, deliver(candidate, placed),
         \A n \in len .. MaxNodes : Sound(links, n) => (n = len' => Sound(placed, n))
  PROVE  TreeInv'
<1>1. len' \in len .. MaxNodes
  BY CapacityAssumption DEF TreeInv, deliver, Full
<1>2. Sound(links, len')
  BY <1>1, Grow DEF TreeInv, TreeWellFormed, Sound
<1>3. Sound(links', len') /\ moving' = None
  BY <1>1, <1>2 DEF deliver, Idle
<1> QED BY <1>1, <1>3, IdleStep DEF TreeInv

LEMMA AppendTextStep ==
  ASSUME TreeInv, NEW up \in Ids, append_text(up)
  PROVE  TreeInv'
<1>1. ASSUME NEW n \in len .. MaxNodes, Sound(links, n), n = len'
      PROVE  Sound(try_append(links, len', up, Created), n)
  BY <1>1, TryAppend, CreatedIsId DEF TreeInv
<1> QED BY <1>1, TextStep DEF append_text

LEMMA InsertTextStep ==
  ASSUME TreeInv, NEW sibling \in Ids, insert_text(sibling)
  PROVE  TreeInv'
<1>1. ASSUME NEW n \in len .. MaxNodes, Sound(links, n), n = len'
      PROVE  Sound(try_insert(links, len', sibling, Created), n)
  BY <1>1, TryInsert, CreatedIsId DEF TreeInv
<1> QED BY <1>1, TextStep DEF insert_text

LEMMA ReparentStep ==
  ASSUME TreeInv,
         ReparentTurn \/ \E node, new_parent \in Ids : ReparentBegin(node, new_parent)
  PROVE  TreeInv'
<1> USE DEF TreeInv, TreeWellFormed, MoveStaysOutside
<1>1. CASE ReparentTurn
  <2>1. CASE links.first[moving.from] # None
    BY <1>1, <2>1, MoveFirstSound DEF ReparentTurn, Idle
  <2>2. CASE links.first[moving.from] = None
    BY <1>1, <2>2 DEF ReparentTurn
  <2> QED BY <2>1, <2>2
<1>2. ASSUME NEW node \in Ids, NEW new_parent \in Ids, ReparentBegin(node, new_parent)
      PROVE  TreeInv'
  <2>1. CASE moving' = None
    BY <1>2, <2>1 DEF ReparentBegin
  <2>2. CASE moving' # None
    <3>1. /\ moving' = [from |-> node, to |-> new_parent]
          /\ MoveIsOutside(links, len, node, new_parent)
      BY <1>2, <2>2, CheckReparentOk DEF ReparentBegin
    <3> QED BY <1>2, <3>1 DEF ReparentBegin, MoveIsOutside
  <2> QED BY <2>1, <2>2
<1> QED BY <1>1, <1>2

LEMMA DataStep ==
  ASSUME TreeInv, UNCHANGED tree
  PROVE  TreeInv'
BY DEF TreeInv, TreeWellFormed, MoveStaysOutside, tree

-----------------------------------------------------------------------------
LEMMA InitTree == Init => TreeInv
BY UnlinkedSound, CapacityAssumption DEF Init, TreeInv, TreeWellFormed, MoveStaysOutside

LEMMA TreeKept == TreeInv /\ [Next]_vars => TreeInv'
<1> SUFFICES ASSUME TreeInv, [Next]_vars PROVE TreeInv'
  OBVIOUS
<1>1. CASE \/ create_comment
           \/ \E template \in BOOLEAN, given \in AttrLists : create_element(template, given)
  BY <1>1, CreationStep
<1>2. CASE append_doctype_to_document
  BY <1>2, DoctypeStep
<1>3. CASE \/ \E up \in Parents, node \in Movable : append_node(up, node)
           \/ \E sibling, node \in Movable : insert_node(sibling, node)
           \/ \E table, below \in Parents, node \in Movable : foster_node(table, below, node)
  BY <1>3, HandlesAreIds, AppendNodeStep, InsertNodeStep DEF foster_node
<1>4. CASE \/ \E up \in Parents : append_text(up)
           \/ \E sibling \in Movable : insert_text(sibling)
           \/ \E table, below \in Parents : foster_text(table, below)
  BY <1>4, HandlesAreIds, AppendTextStep, InsertTextStep DEF foster_text
<1>5. CASE \E target \in Movable : remove_from_parent(target)
  BY <1>5, HandlesAreIds, RemoveStep
<1>6. CASE ReparentTurn \/ \E node, new_parent \in Parents : ReparentBegin(node, new_parent)
  BY <1>6, HandlesAreIds, ReparentStep
<1>7. CASE UNCHANGED tree
  BY <1>7, DataStep
<1>8. \/ \E target \in Movable, new \in AttrLists : add_attrs_if_missing(target, new)
      \/ \E mode \in Modes : set_quirks_mode(mode)
      \/ parse_error \/ UNCHANGED vars
      => UNCHANGED tree
  BY DEF add_attrs_if_missing, set_quirks_mode, parse_error, vars
<1> QED
  BY <1>1, <1>2, <1>3, <1>4, <1>5, <1>6, <1>7, <1>8 DEF Next

(* The invariant that carries the tree through a parse.                    *)
THEOREM TreeInvariance == Spec => []TreeInv
BY InitTree, TreeKept, PTL DEF Spec

(* No sequence of callbacks corrupts the tree html5ever builds.            *)
THEOREM TreeStaysWellFormed == Spec => []TreeWellFormed
<1>1. TreeInv => TreeWellFormed
  BY DEF TreeInv
<1> QED BY <1>1, TreeInvariance, PTL

(* A running reparent_children never has its target below its source.      *)
THEOREM SinkMovesStayOutside == Spec => []MoveStaysOutside
<1>1. TreeInv => MoveStaysOutside
  BY DEF TreeInv
<1> QED BY <1>1, TreeInvariance, PTL
-----------------------------------------------------------------------------
(***************************************************************************)
(* What the callbacks do to the data of the nodes.                         *)
(***************************************************************************)

(* Slots not handed out hold no node, so what a handle names is in the     *)
(* arena; the document is node 0 and stays the document.                   *)
DataInv ==
  /\ TreeInv
  /\ kind[Root] = "Document"
  /\ \A n \in Slots : n >= len => kind[n] = "Free"
  /\ text \in [Slots -> Seq(Nat)]
  /\ delivered \in Nat

\* What push leaves in the nodes.
LEMMA Pushed ==
  ASSUME text \in [Slots -> Seq(Nat)], delivered \in Nat, NEW id, push(id)
  PROVE  /\ text' \in [Slots -> Seq(Nat)]
         /\ id \in Slots => text'[id][Len(text'[id])] = delivered + 1
<1>1. ASSUME NEW q \in Seq(Nat)
      PROVE  /\ Append(q, delivered + 1) \in Seq(Nat)
             /\ Append(q, delivered + 1)[Len(Append(q, delivered + 1))] = delivered + 1
  OBVIOUS
<1>2. \A n \in Slots : text'[n] = IF n = id THEN Append(text[n], delivered + 1) ELSE text[n]
  BY DEF push
<1>3. text' \in [Slots -> Seq(Nat)]
  BY <1>1, <1>2 DEF push
<1>4. id \in Slots => text'[id][Len(text'[id])] = delivered + 1
  BY <1>1, <1>2
<1> QED BY <1>3, <1>4

LEMMA DeliverKeepsData ==
  ASSUME DataInv, NEW candidate, NEW placed, deliver(candidate, placed), TreeInv'
  PROVE  DataInv'
<1>1. text' \in [Slots -> Seq(Nat)] /\ delivered' \in Nat
  BY Pushed DEF DataInv, deliver
<1>2. kind'[Root] = "Document" /\ \A n \in Slots : n >= len' => kind'[n] = "Free"
  <2>1. CASE kind' = kind /\ len' = len
    BY <2>1 DEF DataInv
  <2>2. CASE /\ len' = IF Full THEN len ELSE len + 1
             /\ kind' = [n \in Slots |-> IF n = Created THEN "Text" ELSE kind[n]]
    BY <2>2, CapacityAssumption DEF DataInv, TreeInv, Created, Full, Slots, Sentinel, Root
  <2> QED BY <2>1, <2>2 DEF deliver
<1> QED BY <1>1, <1>2 DEF DataInv

LEMMA DataKept == DataInv /\ [Next]_vars => DataInv'
<1> SUFFICES ASSUME DataInv, [Next]_vars PROVE DataInv'
  OBVIOUS
<1>1. TreeInv'
  BY TreeKept DEF DataInv
<1>2. CASE \E template \in BOOLEAN, given \in AttrLists : create_element(template, given)
  BY <1>1, <1>2, CapacityAssumption
  DEF DataInv, TreeInv, create_element, Created, Full, Slots, Sentinel, Root
<1>3. CASE create_comment
  BY <1>1, <1>3, CapacityAssumption
  DEF DataInv, TreeInv, create_comment, data, Created, Full, Slots, Sentinel, Root
<1>4. CASE append_doctype_to_document
  BY <1>1, <1>4, CapacityAssumption
  DEF DataInv, TreeInv, append_doctype_to_document, data, Created, Full, Slots, Sentinel, Root
<1>5. CASE \E candidate, placed : deliver(candidate, placed)
  BY <1>1, <1>5, DeliverKeepsData
<1>6. CASE UNCHANGED <<len, kind, text, delivered>>
  BY <1>1, <1>6 DEF DataInv
<1>7. \/ \E up \in Parents : append_text(up)
      \/ \E sibling \in Movable : insert_text(sibling)
      \/ \E table, below \in Parents : foster_text(table, below)
      => \E candidate, placed : deliver(candidate, placed)
  BY DEF append_text, insert_text, foster_text
<1>8. \/ \E up \in Parents, node \in Movable : append_node(up, node)
      \/ \E sibling, node \in Movable : insert_node(sibling, node)
      \/ \E table, below \in Parents, node \in Movable : foster_node(table, below, node)
      \/ \E target \in Movable : remove_from_parent(target)
      \/ \E node, new_parent \in Parents : ReparentBegin(node, new_parent)
      \/ ReparentTurn
      \/ \E target \in Movable, new \in AttrLists : add_attrs_if_missing(target, new)
      \/ \E mode \in Modes : set_quirks_mode(mode)
      \/ parse_error \/ UNCHANGED vars
      => UNCHANGED <<len, kind, text, delivered>>
  BY DEF append_node, insert_node, foster_node, remove_from_parent, ReparentBegin, ReparentTurn,
    add_attrs_if_missing, set_quirks_mode, parse_error, vars, tree, data
<1> QED BY <1>2, <1>3, <1>4, <1>5, <1>6, <1>7, <1>8 DEF Next

(* What the sink knows of its nodes beyond their links, in every state.    *)
THEOREM DataInvariance == Spec => []DataInv
<1>1. Init => DataInv
  BY InitTree, CapacityAssumption DEF Init, DataInv, Root, Slots
<1> QED BY <1>1, DataKept, PTL DEF Spec

(* An attribute keeps its first value, whatever is created or merged into  *)
(* the element later.                                                      *)
THEOREM FirstValueStays == Spec => FirstAttributeWins
<1>1. TreeInv /\ [Next]_vars =>
        [\A n \in Slots, a \in Attrs : n < len /\ attrs[n][a] # None =>
           attrs'[n][a] = attrs[n][a]]_vars
  <2> SUFFICES ASSUME TreeInv, Next,
                      NEW n \in Slots, NEW a \in Attrs, n < len, attrs[n][a] # None
               PROVE  attrs'[n][a] = attrs[n][a]
    OBVIOUS
  <2>1. CASE \E template \in BOOLEAN, given \in AttrLists : create_element(template, given)
    BY <2>1, CapacityAssumption DEF TreeInv, create_element, Created, Full, Slots, Sentinel
  <2>2. CASE \E target \in Movable, new \in AttrLists : add_attrs_if_missing(target, new)
    BY <2>2 DEF add_attrs_if_missing
  <2>3. CASE attrs' = attrs
    BY <2>3
  <2> QED
    BY <2>1, <2>2, <2>3
    DEF Next, create_comment, append_doctype_to_document, append_node, append_text,
      insert_node, insert_text, deliver, foster_node, foster_text, remove_from_parent,
      ReparentBegin, ReparentTurn, set_quirks_mode, parse_error, data
<1> QED BY <1>1, TreeInvariance, PTL DEF Spec, FirstAttributeWins

-----------------------------------------------------------------------------
(* Where a new text node goes.                                             *)

\* A handle that is not the sentinel is a node of the arena, and no text.
LEMMA HandlesAreNodes ==
  ASSUME DataInv, NEW h \in Handles
  PROVE  IF h = Sentinel THEN Full ELSE h \in Slots /\ h < len /\ kind[h] # "Text"
BY CapacityAssumption DEF Sentinel, Handles, DataInv, TreeInv, Slots

\* The parents of the nodes in use are in use.
LEMMA ParentsAreNodes ==
  ASSUME TreeInv, NEW n \in Slots, links.parent[n] # None
  PROVE  links.parent[n] \in Slots /\ links.parent[n] < len
<1>1. links.parent[n] \in Slots
  BY WellFormedFields DEF TreeInv, TreeWellFormed
<1> QED BY <1>1, ParentsHaveEnds DEF TreeInv, TreeWellFormed, FreshUnlinked, Slots

\* The slot given out next is linked to nothing.
LEMMA NextIsFresh ==
  ASSUME TreeInv, ~ Full
  PROVE  /\ Created = len /\ len \in Slots /\ len # Root /\ len + 1 \in 1 .. MaxNodes
         /\ links.parent[len] = None /\ links.first[len] = None
         /\ links.next[len] = None /\ links.prev[len] = None
         /\ \A n \in Slots : links.next[n] # len /\ links.prev[n] # len
<1>1. Created = len /\ len \in Slots /\ len # Root /\ len + 1 \in 1 .. MaxNodes
  BY CapacityAssumption DEF TreeInv, Created, Full, Slots, Sentinel, Root
<1>2. links.parent[len] = None /\ links.first[len] = None
  BY <1>1 DEF TreeInv, TreeWellFormed, FreshUnlinked
<1>3. links.next[len] = None /\ links.prev[len] = None
  BY <1>1, <1>2 DEF TreeInv, TreeWellFormed, WellFormed, SiblingsShareParent
<1>4. \A n \in Slots : links.next[n] # len /\ links.prev[n] # len
  BY <1>1, <1>3, WellFormedFields DEF TreeInv, TreeWellFormed, WellFormed, SiblingsAgree
<1> QED BY <1>1, <1>2, <1>3, <1>4

\* The tests never refuse a new node a place under a node of the arena.
LEMMA NewNodeFits ==
  ASSUME TreeInv, ~ Full, NEW up \in Slots, up < len
  PROVE  check_attach(links, len + 1, up, len) = "Ok"
BY NextIsFresh DEF TreeInv, check_attach, makes_cycle, Slots

LEMMA AppendedLast ==
  ASSUME TreeInv, ~ Full, NEW up \in Slots, up < len
  PROVE  IsLinkLast(links, try_append(links, len + 1, up, len), up, len)
BY NewNodeFits, NextIsFresh, LinkLastFields DEF try_append, TreeInv, TreeWellFormed

LEMMA InsertedBefore ==
  ASSUME TreeInv, ~ Full, NEW s \in Slots, s < len, links.parent[s] # None
  PROVE  IsLinkBefore(links, try_insert(links, len + 1, s, len), links.parent[s], s, len)
<1>1. links.parent[s] \in Slots /\ links.parent[s] < len
  BY ParentsAreNodes
<1>2. check_insert(links, len + 1, s, len) = "Ok"
  BY <1>1, NewNodeFits DEF check_insert, TreeInv, Slots
<1> QED BY <1>1, <1>2, NextIsFresh, LinkBeforeFields DEF try_insert, TreeInv, TreeWellFormed

\* A piece of text joins the node it was to follow or the one made for it.
LEMMA DeliveredText ==
  ASSUME DataInv, ~ Full, NEW candidate, NEW placed, deliver(candidate, placed)
  PROVE  \/ /\ candidate \in Slots /\ Ends(candidate)
            /\ links' = links
         \/ /\ ~ Mergeable(candidate) /\ Ends(len)
            /\ links' = placed /\ len' = len + 1
<1>1. delivered' = delivered + 1 /\ None \notin Slots
  BY NoneAssumption DEF deliver, Slots
<1>2. CASE Mergeable(candidate)
  BY <1>1, <1>2, Pushed DEF deliver, DataInv, Mergeable, Ends
<1>3. CASE ~ Mergeable(candidate)
  BY <1>1, <1>3, Pushed, NextIsFresh DEF deliver, DataInv, Ends
<1> QED BY <1>2, <1>3

(* In an arena with room text ends up where it was sent.                   *)
THEOREM TextArrives == Spec => TextLands
<1>1. ASSUME DataInv, ~ Full, NEW up \in Parents, append_text(up)
      PROVE  Ends(links'.last[up])
  <2>1. up \in Slots /\ up < len
    BY <1>1, HandlesAreNodes DEF Parents
  <2>2. \/ links.last[up] \in Slots /\ Ends(links.last[up]) /\ links' = links
        \/ Ends(len) /\ links' = try_append(links, len + 1, up, len)
    BY <1>1, <2>1, DeliveredText, NextIsFresh DEF append_text, LinkOf, DataInv
  <2> QED BY <1>1, <2>1, <2>2, AppendedLast DEF DataInv, IsLinkLast
<1>2. ASSUME DataInv, ~ Full, NEW s \in Movable, insert_text(s), HasParent(s)
      PROVE  Ends(links'.prev[s]) /\ links'.parent[s] = links.parent[s]
  <2>1. s \in Slots /\ s < len /\ links.parent[s] # None
    BY <1>2, HandlesAreNodes DEF Movable, HasParent, LinkOf
  <2>2. \/ links.prev[s] \in Slots /\ Ends(links.prev[s]) /\ links' = links
        \/ Ends(len) /\ links' = try_insert(links, len + 1, s, len)
    BY <1>2, <2>1, DeliveredText, NextIsFresh DEF insert_text, LinkOf, DataInv
  <2> QED BY <1>2, <2>1, <2>2, InsertedBefore DEF DataInv, TreeInv, IsLinkBefore
<1>3. DataInv => [~ Full =>
        /\ \A up \in Parents : append_text(up) => Ends(links'.last[up])
        /\ \A s \in Movable : insert_text(s) /\ HasParent(s) =>
                              Ends(links'.prev[s]) /\ links'.parent[s] = links.parent[s]]_vars
  BY <1>1, <1>2
<1> QED BY <1>3, DataInvariance, PTL DEF TextLands

(* The new text node's neighbours are the node before it, which is no text *)
(* or it would have been merged into, and a handle, which is none either.  *)
LEMMA NoNewPair ==
  ASSUME DataInv, ~ Full, NEW M, NEW k, k = [n \in Slots |-> IF n = len THEN "Text" ELSE kind[n]],
         \A n \in Slots : n # len =>
           \/ M.next[n] = links.next[n]
           \/ M.next[n] = len /\ kind[n] # "Text",
         M.next[len] # None => M.next[len] \in Slots \ {len} /\ kind[M.next[len]] # "Text"
  PROVE  AdjacentText(M, k) \subseteq AdjacentText(links, kind)
<1> SUFFICES ASSUME NEW n \in Slots, k[n] = "Text", M.next[n] # None, k[M.next[n]] = "Text"
             PROVE  kind[n] = "Text" /\ links.next[n] # None /\ kind[links.next[n]] = "Text"
  BY DEF AdjacentText
<1>1. n # len /\ kind[n] = "Text"
  <2>1. CASE n = len
    BY <2>1
  <2> QED BY <2>1
<1>2. M.next[n] = links.next[n]
  BY <1>1
<1>3. links.next[n] \in Slots /\ links.next[n] # len
  BY <1>2, NextIsFresh, WellFormedFields DEF DataInv, TreeInv, TreeWellFormed
<1> QED BY <1>1, <1>2, <1>3

LEMMA DeliveryMakesNoPair ==
  ASSUME DataInv, NEW candidate, NEW placed, deliver(candidate, placed),
         Full => placed = links,
         ~ Full /\ ~ Mergeable(candidate) =>
           \/ placed = links
           \/ \E up \in Slots : IsLinkLast(links, placed, up, len) /\ candidate = links.last[up]
           \/ \E up, s \in Slots : /\ IsLinkBefore(links, placed, up, s, len)
                                   /\ candidate = links.prev[s]
                                   /\ s # len /\ kind[s] # "Text"
  PROVE  AdjacentText(links', kind') \subseteq AdjacentText(links, kind)
<1>1. CASE links' = links /\ kind' = kind
  BY <1>1
<1>2. CASE ~ Mergeable(candidate) /\ Full
  <2>1. links' = links /\ \A n \in Slots : kind'[n] = kind[n]
    BY <1>2, CapacityAssumption DEF deliver, Created, Slots, Sentinel
  <2>2. links.next \in [Slots -> Slots \cup {None}] /\ None \notin Slots
    BY WellFormedFields DEF DataInv, TreeInv, TreeWellFormed
  <2> QED BY <2>1, <2>2 DEF AdjacentText
<1>3. CASE ~ Mergeable(candidate) /\ ~ Full
  <2>1. /\ kind' = [n \in Slots |-> IF n = len THEN "Text" ELSE kind[n]]
        /\ links' = placed
        /\ candidate \in Slots => kind[candidate] # "Text"
    BY <1>3, NextIsFresh DEF deliver, DataInv, Mergeable
  <2>2. /\ len \in Slots /\ links.next[len] = None
        /\ None \notin Slots
        /\ links.last \in [Slots -> Slots \cup {None}]
        /\ links.prev \in [Slots -> Slots \cup {None}]
    BY <1>3, NextIsFresh, WellFormedFields DEF DataInv, TreeInv, TreeWellFormed
  <2>3. /\ \A n \in Slots : n # len =>
             \/ placed.next[n] = links.next[n]
             \/ placed.next[n] = len /\ kind[n] # "Text"
        /\ placed.next[len] # None =>
             placed.next[len] \in Slots \ {len} /\ kind[placed.next[len]] # "Text"
    <3>1. CASE placed = links
      BY <3>1, <2>2
    <3>2. CASE \E up \in Slots : IsLinkLast(links, placed, up, len) /\ candidate = links.last[up]
      <4>1. PICK up \in Slots : IsLinkLast(links, placed, up, len) /\ candidate = links.last[up]
        BY <3>2
      <4>2. /\ \A n \in Slots : placed.next[n] = IF n = candidate THEN len
                                               ELSE IF n = len THEN None ELSE links.next[n]
            /\ candidate \in Slots \cup {None}
        BY <2>2, <4>1 DEF IsLinkLast
      <4>3. candidate # len
        <5>1. links.last[up] # None => links.parent[links.last[up]] = up
          BY WellFormedFields DEF DataInv, TreeInv, TreeWellFormed, WellFormed, EndsAgree
        <5>2. links.parent[len] = None
          BY <1>3, NextIsFresh DEF DataInv
        <5> QED BY <2>2, <4>1, <5>1, <5>2
      <4>4. placed.next[len] = None
        BY <2>2, <4>2, <4>3
      <4> QED BY <2>1, <4>2, <4>4
    <3>3. CASE \E up, s \in Slots : /\ IsLinkBefore(links, placed, up, s, len)
                                    /\ candidate = links.prev[s]
                                    /\ s # len /\ kind[s] # "Text"
      BY <3>3, <2>1, <2>2, <1>3, NextIsFresh DEF IsLinkBefore, DataInv
    <3> QED BY <1>3, <3>1, <3>2, <3>3
  <2> QED BY <1>3, <2>1, <2>3, NoNewPair
<1> QED BY <1>1, <1>2, <1>3 DEF deliver

(* Character data never ends up beside the text it should have joined.     *)
THEOREM TextIsMerged == Spec => DeliveryMakesNoAdjacentText
<1>1. ASSUME DataInv, NEW up \in Parents, append_text(up)
      PROVE  AdjacentText(links', kind') \subseteq AdjacentText(links, kind)
  <2> DEFINE placed == try_append(links, len', up, Created)
             candidate == LinkOf(links.last, up)
  <2>1. deliver(candidate, placed)
    BY <1>1 DEF append_text
  <2>2. Full /\ ~ Mergeable(candidate) => placed = links
    BY <2>1, CapacityAssumption
    DEF deliver, try_append, check_attach, Full, Created, Sentinel
  <2>3. ~ Full /\ ~ Mergeable(candidate) =>
          IsLinkLast(links, placed, up, len) /\ candidate = links.last[up] /\ up \in Slots
    BY <1>1, <2>1, HandlesAreNodes, NextIsFresh, AppendedLast
    DEF Parents, deliver, LinkOf, DataInv
  <2>4. CASE Mergeable(candidate)
    BY <2>1, <2>4 DEF deliver
  <2>5. CASE ~ Mergeable(candidate)
    BY <1>1, <2>1, <2>2, <2>3, <2>5, DeliveryMakesNoPair
  <2> QED BY <2>4, <2>5
<1>2. ASSUME DataInv, NEW s \in Handles, insert_text(s)
      PROVE  AdjacentText(links', kind') \subseteq AdjacentText(links, kind)
  <2> DEFINE placed == try_insert(links, len', s, Created)
             candidate == LinkOf(links.prev, s)
  <2>1. deliver(candidate, placed)
    BY <1>2 DEF insert_text
  <2>2. Full /\ ~ Mergeable(candidate) => placed = links
    BY <2>1, CapacityAssumption
    DEF deliver, try_insert, check_insert, Full, Created, Sentinel
  <2>3. ~ Full => s \in Slots /\ s < len /\ s # len /\ kind[s] # "Text"
    BY <1>2, HandlesAreNodes DEF DataInv, TreeInv
  <2>4. ~ Full /\ ~ Mergeable(candidate) =>
          \/ placed = links
          \/ /\ IsLinkBefore(links, placed, links.parent[s], s, len)
             /\ links.parent[s] \in Slots /\ candidate = links.prev[s]
    <3>1. CASE links.parent[s] = None
      BY <3>1 DEF try_insert, check_insert
    <3>2. CASE links.parent[s] # None
      BY <1>2, <2>1, <2>3, <3>2, NextIsFresh, InsertedBefore, ParentsAreNodes
      DEF deliver, LinkOf, DataInv
    <3> QED BY <3>1, <3>2
  <2>5. CASE Mergeable(candidate)
    BY <2>1, <2>5 DEF deliver
  <2>6. CASE ~ Mergeable(candidate)
    BY <1>2, <2>1, <2>2, <2>3, <2>4, <2>6, DeliveryMakesNoPair
  <2> QED BY <2>5, <2>6
<1>3. DataInv /\ [Next]_vars =>
        [delivered' # delivered => AdjacentText(links', kind') \subseteq AdjacentText(links, kind)]_vars
  <2> SUFFICES ASSUME DataInv, Next, delivered' # delivered
               PROVE  \/ \E up \in Parents : append_text(up)
                      \/ \E s \in Handles : insert_text(s)
    BY <1>1, <1>2
  <2>1. \/ \E up \in Parents : append_text(up)
        \/ \E s \in Movable : insert_text(s)
        \/ \E table, below \in Parents : foster_text(table, below)
    BY DEF Next, create_element, create_comment, append_doctype_to_document, append_node,
      insert_node, foster_node, remove_from_parent, ReparentBegin, ReparentTurn,
      add_attrs_if_missing, set_quirks_mode, parse_error, tree, data
  <2> QED BY <2>1 DEF foster_text, Parents, Movable
<1> QED BY <1>3, DataInvariance, PTL DEF Spec, DeliveryMakesNoAdjacentText

-----------------------------------------------------------------------------
(* Where a fostered node goes.                                             *)

\* A node that is not above the element is not above its parent once detached.
LEMMA DetachedOutside ==
  ASSUME NEW L, WellFormed(L), NEW node \in Slots, NEW element \in Slots,
         L.parent[element] # None, ~ is_ancestor_or_self(L, node, element),
         NEW M, M = unlink(L, node)
  PROVE  /\ element # node /\ M.parent[element] = L.parent[element]
         /\ M.parent[node] = None
         /\ ~ is_ancestor_or_self(M, node, M.parent[element])
<1>1. PICK S \in SUBSET Slots : element \in S /\ ParentClosed(L, S) /\ node \notin S
  BY DEF is_ancestor_or_self
<1>2. /\ M.parent[node] = None
      /\ \A n \in Slots : n # node => M.parent[n] = L.parent[n]
  <2>1. CASE L.parent[node] = None
    BY <2>1 DEF unlink
  <2>2. CASE L.parent[node] # None
    BY <2>2, UnlinkFields DEF IsUnlink
  <2> QED BY <2>1, <2>2
<1>3. element # node /\ M.parent[element] = L.parent[element] /\ M.parent[element] \in S
  BY <1>1, <1>2 DEF ParentClosed
<1>4. ParentClosed(M, S)
  BY <1>1, <1>2 DEF ParentClosed
<1> QED BY <1>1, <1>2, <1>3, <1>4 DEF is_ancestor_or_self

(* Foster parenting loses no node: the tests after the detach never refuse *)
(* one that is not above the place it goes to.                             *)
THEOREM FosterLands == Spec => []FosteredNodeLands
<1>1. ASSUME DataInv, Idle, NEW element \in Parents \ {Sentinel}, NEW node \in Movable \ {Sentinel},
             HasParent(element), ~ is_ancestor_or_self(links, node, element),
             NEW after, after = moved_before(element, node)
      PROVE  after.next[node] = element /\ after.parent[node] = links.parent[element]
  <2> DEFINE M  == unlink(links, node)
             up == M.parent[element]
  <2>1. /\ element \in Slots /\ element < len /\ node \in Slots /\ node < len
        /\ node # Root
    BY <1>1, HandlesAreNodes, CapacityAssumption
    DEF Parents, Movable, DataInv, Sentinel, Root
  <2>2. links.parent[element] # None /\ WellFormed(links) /\ FreshUnlinked(links, len)
    BY <1>1, <2>1 DEF HasParent, LinkOf, DataInv, TreeInv, TreeWellFormed
  <2>3. /\ element # node /\ up = links.parent[element] /\ M.parent[node] = None
        /\ ~ is_ancestor_or_self(M, node, up)
    BY <1>1, <2>1, <2>2, DetachedOutside
  <2>4. WellFormed(M) /\ up \in Slots /\ up < len /\ up # node
    <3>1. up \in Slots /\ up < len
      BY <1>1, <2>1, <2>2, <2>3, ParentsAreNodes DEF DataInv
    <3>2. is_ancestor_or_self(M, node, node)
      BY DEF is_ancestor_or_self
    <3> QED BY <3>1, <3>2, <2>1, <2>2, <2>3, UnlinkWellFormed
  <2>5. check_insert(M, len, element, node) = "Ok"
    BY <1>1, <2>1, <2>2, <2>3, <2>4 DEF check_insert, check_attach, makes_cycle, DataInv, TreeInv, Slots
  <2>6. after = link_before(M, up, element, node)
    BY <1>1, <2>1, <2>5 DEF moved_before, try_detach, try_insert
  <2>7. IsLinkBefore(M, after, up, element, node)
    BY <2>1, <2>4, <2>6, LinkBeforeFields
  <2>8. M.prev[element] # node
    BY <2>1, <2>3, <2>4, WellFormedFields DEF WellFormed, SiblingsAgree, SiblingsShareParent
  <2> QED BY <2>1, <2>3, <2>7, <2>8 DEF IsLinkBefore
<1>2. ASSUME DataInv, Idle, NEW below \in Parents \ {Sentinel}, NEW node \in Movable \ {Sentinel},
             ~ is_ancestor_or_self(links, node, below), links.parent[node] = None
      PROVE  try_append(links, len, below, node).last[below] = node
  <2>1. /\ below \in Slots /\ below < len /\ node \in Slots /\ node < len
        /\ node # Root
    BY <1>2, HandlesAreNodes, CapacityAssumption
    DEF Parents, Movable, DataInv, Sentinel, Root
  <2>2. node # below
    BY <1>2 DEF is_ancestor_or_self
  <2>3. check_attach(links, len, below, node) = "Ok"
    BY <1>2, <2>1, <2>2 DEF check_attach, makes_cycle, DataInv, TreeInv, Slots
  <2> QED BY <1>2, <2>1, <2>3, LinkLastFields
    DEF try_append, IsLinkLast, DataInv, TreeInv, TreeWellFormed
<1>3. DataInv => FosteredNodeLands
  BY <1>1, <1>2 DEF FosteredNodeLands
<1> QED BY <1>3, DataInvariance, PTL
===============================================================================
