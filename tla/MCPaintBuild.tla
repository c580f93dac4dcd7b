----------------------------- MODULE MCPaintBuild -----------------------------
(***************************************************************************)
(* Trees for build: every way three fragments can name each other, and a   *)
(* fragment that does not exist, as children.                              *)
(***************************************************************************)
EXTENDS PaintBuild

CONSTANTS Size  \* fragments in a tree

Ids == 1 .. Size + 1   \* the last one dangles

\* A block over the viewport, so that it draws and clips.
Block(hidden, children) ==
  [kind |-> "Block", element |-> "other", border_box |-> Bounds, border |-> <<0, 0>>,
   solid |-> <<FALSE, FALSE>>, background |-> TRUE, hidden |-> hidden, runs |-> <<>>,
   children |-> children]

\* Two children at most, and one at most for the last fragment.
AnyTrees ==
  {[root |-> 1, fragments |-> [id \in 1 .. Size |-> Block(hidden[id], Append(lists, last)[id])]] :
     hidden \in [1 .. Size -> BOOLEAN], lists \in TupleOf(BoundedSeq(Ids, 2), Size - 1),
     last \in BoundedSeq(Ids, 1)}
AnyTreesOnly == <<AnyTrees>>
===============================================================================
