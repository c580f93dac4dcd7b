------------------------------- MODULE TreeSink -------------------------------
(***************************************************************************)
(* DomSink of crates/html: what each html5ever tree-construction callback  *)
(* does to the arena.  html5ever itself is outside the repository; here it *)
(* is any sequence of callbacks on handles the sink has given out.  No     *)
(* callback can fail: an error of the arena is dropped (let _ = ...), and  *)
(* the properties say what that costs.                                     *)
(***************************************************************************)
EXTENDS DomLinks, Sequences

CONSTANTS
  MaxText,     \* bound: pieces of character data delivered
  MaxErrors,   \* MAX_PARSE_ERRORS
  MaxReports,  \* bound: parse errors reported
  Attrs,       \* attribute names
  Values,      \* attribute values
  Modes        \* quirks modes html5ever sets, the initial NoQuirks aside

ASSUME BoundsAssumption ==
  /\ MaxText \in Nat /\ MaxErrors \in Nat /\ MaxReports \in Nat
  /\ None \notin Values

VARIABLES
  len, links, \* the arena, as in Document
  moving,     \* a running reparent_children, as in Document
  kind,       \* NodeKind of every slot, Free if not handed out
  contents,   \* Element::template_contents
  text,       \* data of a Text node: the pieces merged into it, in order
  attrs,      \* attributes of every element
  delivered,  \* pieces of character data html5ever has handed over
  kept, suppressed, \* parse errors kept and only counted
  quirks      \* Document::quirks_mode

tree  == <<len, links, moving, kind>>
data  == <<contents, text, attrs, delivered>>
other == <<kept, suppressed, quirks>>
vars  == <<tree, data, other>>

Kinds == {"Free", "Document", "Doctype", "Element", "Text", "Comment", "Fragment"}

NoAttrs == [a \in Attrs |-> None]

Init ==
  /\ len = 1
  /\ links = Unlinked
  /\ moving = None
  /\ kind = [n \in Slots |-> IF n = Root THEN "Document" ELSE "Free"]
  /\ contents = [n \in Slots |-> None]
  /\ text = [n \in Slots |-> <<>>]
  /\ attrs = [n \in Slots |-> NoAttrs]
  /\ delivered = 0
  /\ kept = 0 /\ suppressed = 0
  /\ quirks = "NoQuirks"

Idle    == moving = None
Full    == len = MaxNodes
Created == IF Full THEN Sentinel ELSE len   \* the id Document::create returns

(* The handles html5ever can hold: every id get_document, the create_      *)
(* callbacks and get_template_contents returned to it.  Text and doctype   *)
(* nodes are made inside a callback and their ids stay there; on a full    *)
(* arena the sentinel is given out like any other id.                      *)
Handles == {n \in Slots : kind[n] \in {"Document", "Element", "Comment", "Fragment"}}
             \cup (IF Full THEN {Sentinel} ELSE {})

\* html5ever puts children into the document, elements and template contents,
\* and never moves the document or a template's contents.
Parents == {h \in Handles : h = Sentinel \/ kind[h] # "Comment"}
Movable == {h \in Handles : h = Sentinel \/ kind[h] \in {"Element", "Comment"}}

\* Document::get(id).and_then(link)
LinkOf(link, id) == IF id < len THEN link[id] ELSE None

-----------------------------------------------------------------------------
(* Creation.  html5ever marks <template> start tags; their elements get a  *)
(* fragment of their own, which may no longer fit.                         *)
create_element(template, given) ==
  LET id   == Created
      frag == IF len + 1 < MaxNodes THEN len + 1 ELSE Sentinel
      room == IF template /\ frag # Sentinel THEN 2 ELSE 1
  IN  /\ Idle
      /\ len' = IF Full THEN len ELSE len + room
      /\ kind' = [n \in Slots |-> IF n = id THEN "Element"
                                  ELSE IF template /\ n = frag THEN "Fragment"
                                  ELSE kind[n]]
      /\ contents' = [n \in Slots |-> IF n = id /\ template THEN frag ELSE contents[n]]
      /\ attrs' = [n \in Slots |-> IF n = id THEN given ELSE attrs[n]]
      /\ UNCHANGED <<links, moving, text, delivered, other>>

\* create_comment and create_pi: a leaf of either kind behaves the same here.
create_comment ==
  /\ Idle
  /\ len' = IF Full THEN len ELSE len + 1
  /\ kind' = [n \in Slots |-> IF n = Created THEN "Comment" ELSE kind[n]]
  /\ UNCHANGED <<links, moving, data, other>>

append_doctype_to_document ==
  /\ Idle
  /\ len' = IF Full THEN len ELSE len + 1
  /\ kind' = [n \in Slots |-> IF n = Created THEN "Doctype" ELSE kind[n]]
  /\ links' = IF Full THEN links ELSE link_last(links, Root, Created)
  /\ UNCHANGED <<moving, data, other>>

-----------------------------------------------------------------------------
(* Placing nodes.  The arena after append_child or insert_before with its  *)
(* error, if any, thrown away.                                             *)
\* Mutant of try_append: only the ids are tested.
try_append_untested(L, n, up, child) ==
  IF up < n /\ child < n THEN link_last(L, up, child) ELSE L
try_append(L, n, up, child) ==
  IF check_attach(L, n, up, child) = "Ok" THEN link_last(L, up, child) ELSE L

try_insert(L, n, sibling, new) ==
  IF check_insert(L, n, sibling, new) = "Ok"
  THEN link_before(L, L.parent[sibling], sibling, new) ELSE L

try_detach(L, n, id) == IF id < n THEN unlink(L, id) ELSE L

append_node(up, node) ==
  /\ Idle
  /\ links' = try_append(links, len, up, node)
  /\ UNCHANGED <<len, moving, kind, data, other>>

\* Mutant of moved_before: the old parent keeps the node.
inserted_before(sibling, node) == try_insert(links, len, sibling, node)

\* append_before_sibling(AppendNode): detach first, whatever follows.
moved_before(sibling, node) ==
  try_insert(try_detach(links, len, node), len, sibling, node)

insert_node(sibling, node) ==
  /\ Idle
  /\ links' = moved_before(sibling, node)
  /\ UNCHANGED <<len, moving, kind, data, other>>

remove_from_parent(target) ==
  /\ Idle
  /\ links' = try_detach(links, len, target)
  /\ UNCHANGED <<len, moving, kind, data, other>>

-----------------------------------------------------------------------------
(* Placing character data.                                                 *)

\* merge_into_trailing_text accepts only an existing Text node.
Mergeable(candidate) == candidate \in Slots /\ kind[candidate] = "Text"

\* The new piece goes to the end of the text node id.
push(id) == text' = [n \in Slots |-> IF n = id THEN Append(text[n], delivered + 1)
                                     ELSE text[n]]

\* A piece of text arrives whose place is after the node candidate: it joins
\* that node if it is text, else it becomes a node of its own, put in place by
\* placed (the links after the new node was linked).
deliver(candidate, placed) ==
  /\ Idle
  /\ delivered < MaxText
  /\ delivered' = delivered + 1
  /\ \/ /\ Mergeable(candidate)
        /\ push(candidate)
        /\ UNCHANGED <<len, links, kind>>
     \/ /\ ~ Mergeable(candidate)
        /\ len' = IF Full THEN len ELSE len + 1
        /\ kind' = [n \in Slots |-> IF n = Created THEN "Text" ELSE kind[n]]
        /\ push(Created)
        /\ links' = placed
  /\ UNCHANGED <<moving, contents, attrs, other>>

\* Mutants: text joins the first child of its parent, or the text after the sibling.
append_text_to_first(up) ==
  deliver(LinkOf(links.first, up), try_append(links, len', up, Created))
insert_text_after(sibling) ==
  deliver(LinkOf(links.next, sibling), try_insert(links, len', sibling, Created))

append_text(up) ==
  deliver(LinkOf(links.last, up), try_append(links, len', up, Created))

insert_text(sibling) ==
  deliver(LinkOf(links.prev, sibling), try_insert(links, len', sibling, Created))

-----------------------------------------------------------------------------
(* append_based_on_parent_node: foster parenting goes before a table that  *)
(* has a parent, else into the element below it on the stack.              *)
HasParent(element) == LinkOf(links.parent, element) # None

foster_node(element, prev_element, node) ==
  \/ HasParent(element) /\ insert_node(element, node)
  \/ ~ HasParent(element) /\ append_node(prev_element, node)

foster_text(element, prev_element) ==
  \/ HasParent(element) /\ insert_text(element)
  \/ ~ HasParent(element) /\ append_text(prev_element)

-----------------------------------------------------------------------------
(* reparent_children, its loop turn by turn as in Document.                *)
ReparentBegin(node, new_parent) ==
  /\ Idle
  /\ moving' = IF check_reparent(links, len, node, new_parent) = "Ok" /\ node # new_parent
                 THEN [from |-> node, to |-> new_parent] ELSE None
  /\ UNCHANGED <<len, links, kind, data, other>>

ReparentTurn ==
  /\ ~ Idle
  /\ IF links.first[moving.from] # None
       THEN links' = move_first(links, moving.from, moving.to) /\ moving' = moving
       ELSE moving' = None /\ links' = links
  /\ UNCHANGED <<len, kind, data, other>>

-----------------------------------------------------------------------------
\* Mutant of add_attrs_if_missing: the later value wins.
add_attrs(target, new) ==
  /\ Idle
  /\ attrs' = [n \in Slots |->
                 IF n = target /\ kind[n] = "Element"
                 THEN [a \in Attrs |-> IF new[a] # None THEN new[a] ELSE attrs[n][a]]
                 ELSE attrs[n]]
  /\ UNCHANGED <<tree, contents, text, delivered, other>>

\* An attribute an element already has keeps its value.
add_attrs_if_missing(target, new) ==
  /\ Idle
  /\ attrs' = [n \in Slots |->
                 IF n = target /\ kind[n] = "Element"
                 THEN [a \in Attrs |-> IF attrs[n][a] = None THEN new[a] ELSE attrs[n][a]]
                 ELSE attrs[n]]
  /\ UNCHANGED <<tree, contents, text, delivered, other>>

set_quirks_mode(mode) ==
  /\ Idle
  /\ quirks' = mode
  /\ UNCHANGED <<tree, data, kept, suppressed>>

\* The first MaxErrors messages are kept, the rest counted.
parse_error ==
  /\ Idle
  /\ kept + suppressed < MaxReports
  /\ \/ kept < MaxErrors /\ kept' = kept + 1 /\ UNCHANGED suppressed
     \/ kept >= MaxErrors /\ suppressed' = suppressed + 1 /\ UNCHANGED kept
  /\ UNCHANGED <<tree, data, quirks>>

AttrLists == [Attrs -> Values \cup {None}]

Next ==
  \/ \E template \in BOOLEAN, given \in AttrLists : create_element(template, given)
  \/ create_comment
  \/ append_doctype_to_document
  \/ \E up \in Parents, node \in Movable : append_node(up, node)
  \/ \E up \in Parents : append_text(up)
  \/ \E sibling, node \in Movable : insert_node(sibling, node)
  \/ \E sibling \in Movable : insert_text(sibling)
  \/ \E table, below \in Parents, node \in Movable : foster_node(table, below, node)
  \/ \E table, below \in Parents : foster_text(table, below)
  \/ \E target \in Movable : remove_from_parent(target)
  \/ \E node, new_parent \in Parents : ReparentBegin(node, new_parent)
  \/ ReparentTurn
  \/ \E target \in Movable, new \in AttrLists : add_attrs_if_missing(target, new)
  \/ \E mode \in Modes : set_quirks_mode(mode)
  \/ parse_error

Spec == Init /\ [][Next]_vars

-----------------------------------------------------------------------------
(* The callbacks keep the arena a well-formed forest, whatever handles     *)
(* html5ever passes and however many of the arena's errors are dropped.    *)
TreeWellFormed ==
  /\ WellFormed(links)
  /\ FreshUnlinked(links, len)

MoveStaysOutside ==
  moving # None => MoveIsOutside(links, len, moving.from, moving.to)

(* Text nodes directly followed by another text node.                      *)
AdjacentText(L, k) ==
  {n \in Slots : k[n] = "Text" /\ L.next[n] # None /\ k[L.next[n]] = "Text"}

(* Delivering character data never puts two text nodes side by side: the   *)
(* promise of merge_into_trailing_text, which looks at the node before the *)
(* new text only.  Nothing looks at the node after it; that one is a       *)
(* handle, and no handle is a text node.  (Moving and removing elements    *)
(* does bring text nodes together, as html5ever may.)                      *)
DeliveryMakesNoAdjacentText ==
  [][delivered' # delivered => AdjacentText(links', kind') \subseteq AdjacentText(links, kind)]_vars

(* While the arena has room, a piece of text appended to a node is the end *)
(* of its last child, and one inserted before an attached sibling ends the *)
(* text just before that sibling: no dropped error loses or misplaces it.  *)
Ends(id) == id # None /\ kind'[id] = "Text" /\ text'[id][Len(text'[id])] = delivered'
TextLands ==
  [][~ Full =>
       /\ \A up \in Parents : append_text(up) => Ends(links'.last[up])
       /\ \A s \in Movable : insert_text(s) /\ HasParent(s) =>
                             Ends(links'.prev[s]) /\ links'.parent[s] = links.parent[s]]_vars

(* Foster parenting a node that may be attached anywhere puts it just      *)
(* before an attached table, or on the end of the element below it,        *)
(* although it is detached before the tests that could refuse it run and   *)
(* their refusal is dropped.  What html5ever must not do is foster a node  *)
(* before itself or its own descendant, or append one that is attached.    *)
FosteredNodeLands ==
  Idle => \A element, prev_element \in Parents \ {Sentinel}, node \in Movable \ {Sentinel} :
    IF HasParent(element)
    THEN is_ancestor_or_self(links, node, element)
           \/ LET after == moved_before(element, node)
              IN  after.next[node] = element /\ after.parent[node] = links.parent[element]
    ELSE is_ancestor_or_self(links, node, prev_element) \/ links.parent[node] # None
           \/ try_append(links, len, prev_element, node).last[prev_element] = node

(* An attribute of an element never changes value once it has one.         *)
FirstAttributeWins ==
  [][\A n \in Slots, a \in Attrs : n < len /\ attrs[n][a] # None =>
       attrs'[n][a] = attrs[n][a]]_vars
===============================================================================
