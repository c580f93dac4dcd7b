----------------------------- MODULE InlineLayout -----------------------------
(***************************************************************************)
(* inline.rs and text.rs of crates/layout: a block's inline children       *)
(* become pieces of text, one string, lines of clusters, runs of glyphs    *)
(* and at last Line and Text fragments.  Parley, which shapes the string   *)
(* and breaks it into lines, is external: any of the ways it may answer.   *)
(* A character shapes to one glyph, a line feed to nothing.                *)
(***************************************************************************)
EXTENDS BoxTree

CONSTANTS Advance  \* of every glyph, in app units

ASSUME AdvanceAssumption == Advance \in Nat

\* One text node's characters, or none if it is no text node.
text_of(d, node) == IF d.kind[node] = "Text" THEN d.text[node] ELSE <<>>

Text(text, style, node) == [item |-> "Text", text |-> text, style |-> style, node |-> node]
Break == [item |-> "Break"]
IsText(item) == item.item = "Text"

-----------------------------------------------------------------------------
(* collect_pieces: the children in document order, boxes inside inline     *)
(* boxes included, at most as many as there are boxes; a space at the      *)
(* start of the block, after a break or after a space is dropped.          *)
take_box(d, bs, s) ==
  LET box  == bs[Head(s.stack)]
      rest == [s EXCEPT !.stack = Tail(@)]
      done == process(text_of(d, box.node), box.style.text.white_space, s.suppress)
  IN  IF s.stack = <<>> THEN s ELSE
      CASE box.kind = "InlineText" ->
             [rest EXCEPT !.suppress = done.suppress_next_space,
                          !.pieces = Append(@, Text(done.text, box.style, box.node))]
        [] box.kind = "LineBreak" -> [rest EXCEPT !.suppress = TRUE, !.pieces = Append(@, Break)]
        [] box.kind = "Inline"    -> [rest EXCEPT !.stack = box.children \o @]
        [] OTHER                  -> rest

collect_pieces(d, bs, children) ==
  LET walk[k \in 0 .. Len(bs)] ==
        IF k = 0 THEN [stack |-> children, pieces |-> <<>>, suppress |-> TRUE]
        ELSE take_box(d, bs, walk[k - 1])
  IN  walk[Len(bs)].pieces

-----------------------------------------------------------------------------
\* The string handed to the shaper, and the span of it that each text fills.
item_text(item) == IF IsText(item) THEN item.text ELSE <<"lf">>
concatenate(items) ==
  LET end[i \in 0 .. Len(items)] == IF i = 0 THEN 0 ELSE end[i - 1] + Len(item_text(items[i]))
      filled == in_order({i \in DOMAIN items : IsText(items[i]) /\ items[i].text # <<>>})
  IN  [text  |-> FlattenSeq([i \in DOMAIN items |-> item_text(items[i])]),
       spans |-> [k \in DOMAIN filled |-> [start |-> end[filled[k] - 1] + 1,
                                           end |-> end[filled[k]], item |-> filled[k]]]]

(* The item an offset lies in, 0 for none: the first span that ends past   *)
(* it, if it starts before.                                                *)
span_item(spans, offset) ==
  LET past == {k \in DOMAIN spans : spans[k].end < offset}
      at   == Cardinality(past) + 1   \* partition_point
  IN  IF at \in DOMAIN spans /\ spans[at].start <= offset THEN spans[at].item ELSE 0

wrap_mode(style) == IF style.text.white_space = "Pre" THEN "NoWrap" ELSE "Wrap"

(* What parley may answer: a break after every line feed, and after any    *)
(* spaces where wrapping is on; after a last line feed there is an empty   *)
(* line.  A line of right-to-left text comes in reverse.                   *)
shaped_lines(items, text, spans) ==
  LET Forced   == {i \in DOMAIN text : text[i] = "lf"}
      Optional == {i \in 1 .. Len(text) - 1 :
                     /\ text[i] = "sp" /\ span_item(spans, i) # 0
                     /\ wrap_mode(items[span_item(spans, i)].style) = "Wrap"}
      Lines(B) == LET starts == in_order({1} \cup {i + 1 : i \in B})
                      ends == [l \in DOMAIN starts |->
                                 IF l < Len(starts) THEN starts[l + 1] - 1 ELSE Len(text)]
                  IN  [l \in DOMAIN starts |->
                         [k \in 1 .. ends[l] - starts[l] + 1 |-> starts[l] + k - 1]]
      Turned(lines) == [l \in DOMAIN lines |-> Reverse(lines[l])]
      Ltr == {Lines(Forced \cup O) : O \in SUBSET Optional}
  IN  Ltr \cup (IF doc.rtl THEN {Turned(lines) : lines \in Ltr} ELSE {})

-----------------------------------------------------------------------------
\* One line's clusters in visual order.
line_clusters(offsets, items, text, spans) ==
  [k \in DOMAIN offsets |->
     LET item == span_item(spans, offsets[k])
     IN  [text_start |-> offsets[k], item |-> item,
          style   |-> IF item = 0 THEN <<>> ELSE <<items[item].style.text.color>>,
          advance |-> IF text[offsets[k]] = "lf" THEN 0 ELSE Advance,
          glyphs  |-> IF text[offsets[k]] = "lf" THEN <<>> ELSE <<text[offsets[k]]>>]]

is_collapsible_space(offset, items, text, spans) ==
  /\ text[offset] = "sp"
  /\ LET item == span_item(spans, offset)
     IN  item # 0 /\ items[item].style.text.white_space = "Normal"

\* Collapsible spaces at a line's end hang: they and what draws nothing are dropped.
trim_trailing_spaces(clusters, items, text, spans) ==
  LET Kept == {k \in DOMAIN clusters :
                 ~ (\/ clusters[k].glyphs = <<>> /\ clusters[k].advance <= 0
                    \/ is_collapsible_space(clusters[k].text_start, items, text, spans))}
  IN  SubSeq(clusters, 1, IF Kept = {} THEN 0 ELSE Max(Kept))

(* build_runs: a new run where the style or the item changes; runs that    *)
(* have no glyph are left out.                                             *)
run_key(cluster) == <<cluster.style, cluster.item>>
build_runs(clusters, line_x) ==
  LET n == Len(clusters)
      pen[k \in 0 .. n] == IF k = 0 THEN line_x   \* after the k-th cluster
                           ELSE saturating_add(pen[k - 1], clusters[k].advance)
      starts == in_order({k \in 1 .. n : k = 1 \/ run_key(clusters[k - 1]) # run_key(clusters[k])})
      stop(r) == IF r < Len(starts) THEN starts[r + 1] - 1 ELSE n
      run(r)  == [item |-> clusters[starts[r]].item, x |-> pen[starts[r] - 1],
                  glyphs |-> FlattenSeq([k \in 1 .. stop(r) - starts[r] + 1 |->
                                           clusters[starts[r] + k - 1].glyphs])]
      drawn == in_order({r \in DOMAIN starts : run(r).glyphs # <<>>})
  IN  [k \in DOMAIN drawn |-> run(drawn[k])]

\* Where parley's alignment puts a line of some width.
alignment(align, available, width) ==
  IF align = "Left" \/ width > available THEN 0
  ELSE IF align = "Right" THEN available - width ELSE (available - width) \div 2

(* collect_lines: a last line with nothing left on it makes no line box.   *)
collect_lines(lines, items, text, spans, style, available) ==
  LET trimmed(l) == trim_trailing_spaces(line_clusters(lines[l], items, text, spans), items, text, spans)
      kept == IF lines # <<>> /\ trimmed(Len(lines)) = <<>> THEN Len(lines) - 1 ELSE Len(lines)
      width(cs) == Advance * Cardinality({k \in DOMAIN cs : cs[k].advance > 0})
      line_x(cs) == alignment(style.text.align, available, width(cs))
  IN  [l \in 1 .. kept |-> [height |-> Larger(style.text.line_height, 0),
                            runs |-> build_runs(trimmed(l), line_x(trimmed(l)))]]

(* layout_inline: the lines of some items, for every answer of the shaper; *)
(* none for an empty string.                                               *)
layout_inline(items, style, available) ==
  LET whole == concatenate(items)
  IN  IF whole.text = <<>> THEN {<<>>}
      ELSE {collect_lines(lines, items, whole.text, whole.spans, style, available) :
              lines \in shaped_lines(items, whole.text, whole.spans)}

-----------------------------------------------------------------------------
Fragment(node, kind, of, border_box, padding_box, content_box, children, runs) ==
  [node |-> node, kind |-> kind, of |-> of, border_box |-> border_box,
   padding_box |-> padding_box, content_box |-> content_box, children |-> children,
   runs |-> runs]

\* Consecutive runs of one item, as one group.
group_runs(runs) ==
  LET ends == in_order({k \in DOMAIN runs : k = Len(runs) \/ runs[k + 1].item # runs[k].item})
  IN  [g \in DOMAIN ends |-> SubSeq(runs, IF g = 1 THEN 1 ELSE ends[g - 1] + 1, ends[g])]

\* From the first run's origin to the end of the last run's last glyph.
runs_width(runs) ==
  LET last == runs[Len(runs)]
  IN  saturating_sub(saturating_add(last.x, Advance * Len(last.glyphs)), runs[1].x)

span_rect(x, w, y, h) == [x |-> [origin |-> x, size |-> w], y |-> [origin |-> y, size |-> h]]

text_fragment(items, of, x, line_top, line, group) ==
  LET placed == [r \in DOMAIN group |-> [group[r] EXCEPT !.x = saturating_add(x, @)]]
      rect   == span_rect(placed[1].x, runs_width(placed), line_top, line.height)
  IN  Fragment(items[group[1].item].node, "Text", of, rect, rect, rect, <<>>, placed)

\* One line's Text fragments, then the Line over them, as wide as the block.
add_line(items, of, x, y, content_width, line, so_far) ==
  LET groups == group_runs(line.runs)
      texts  == [g \in DOMAIN groups |-> text_fragment(items, of, x, y, line, groups[g])]
      rect   == span_rect(x, content_width, y, line.height)
      before == Len(so_far.fragments)
      whole  == Fragment(NoNode, "Line", of, rect, rect, rect,
                         [g \in DOMAIN texts |-> before + g], <<>>)
  IN  [fragments |-> so_far.fragments \o Append(texts, whole),
       ids |-> Append(so_far.ids, before + Len(texts) + 1)]

(* build_fragments: line after line, each below the one before; what is    *)
(* added, the Lines and their height.                                      *)
build_fragments(lines, items, of, origin, content_width, fragments) ==
  LET below[l \in 0 .. Len(lines)] ==
        IF l = 0 THEN 0 ELSE saturating_add(below[l - 1], lines[l].height)
      after[l \in 0 .. Len(lines)] ==
        IF l = 0 THEN [fragments |-> fragments, ids |-> <<>>]
        ELSE add_line(items, of, origin.x, saturating_add(origin.y, below[l - 1]), content_width,
                      lines[l], after[l - 1])
  IN  [failed |-> FALSE, added |-> after[Len(lines)], height |-> below[Len(lines)]]

FontNotBundled == [failed |-> TRUE]

(* inline::layout: every way a block's inline content may come out, or the *)
(* error of a font that is not bundled.                                    *)
inline_layout(children, style, of, origin, content_width, fragments) ==
  LET items == collect_pieces(doc, boxes, children)
  IN  IF ~ doc.bundled /\ concatenate(items).text # <<>> THEN {FontNotBundled}
      ELSE {build_fragments(lines, items, of, origin, content_width, fragments) :
              lines \in layout_inline(items, style, content_width)}
===============================================================================
