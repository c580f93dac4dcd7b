-------------------------------- MODULE Prescan --------------------------------
(***************************************************************************)
(* encoding.rs and prescan.rs of crates/html: which encoding a document's  *)
(* bytes are decoded with.  A byte is a symbol, and so is a word the scan  *)
(* looks for ("meta", "charset", a label), in lower and upper case: words  *)
(* are compared whole and a position counts symbols.  One step is one      *)
(* iteration of the scan's main loop or of a tag's loop over attributes.   *)
(***************************************************************************)
EXTENDS Naturals, Sequences, SequencesExt, FiniteSetsExt

CONSTANTS
  PRESCAN_LIMIT_BYTES,  \* how much of a document is scanned
  Labels,               \* a function from labels to the encodings they name
  UpperCase             \* a function from the capitals in use to small letters
ASSUME PrescanConstants == PRESCAN_LIMIT_BYTES \in Nat

VARIABLES
  bytes,  \* the document's bytes, never changed
  label,  \* the transport's label, or NoLabel; never changed
  scan    \* where the prescan is and what it has seen

scanVars == <<bytes, label, scan>>

Undeclared == "null"   \* the specification's null, and None
Failed     == "failure"\* a value that names no encoding
NoLabel    == <<>>
Boms == [x \in {"BOM8", "BOM16"} |-> IF x = "BOM8" THEN "UTF-8" ELSE "UTF-16LE"]

Space     == {" "}
TagSpace  == Space \cup {"/"}
Quotes    == {"q2", "q1"}       \* the double and the single quote
Marks     == TagSpace \cup Quotes \cup {"<", ">", "=", "!", "?", "-", ";"} \cup DOMAIN Boms
ascii_lower(s) == [i \in DOMAIN s |-> IF s[i] \in DOMAIN UpperCase THEN UpperCase[s[i]] ELSE s[i]]
for_label(s) ==
  LET name == SelectSeq(ascii_lower(s), LAMBDA c : c \notin Space)
  IN  IF name \in DOMAIN Labels THEN Labels[name] ELSE Failed

window == SubSeq(bytes, 1, Min({Len(bytes), PRESCAN_LIMIT_BYTES}))

-----------------------------------------------------------------------------
\* The first position from p on whose symbol is in S, or the one past the end.
find(b, p, S) == Min({i \in p .. Len(b) : b[i] \in S} \cup {Max({p, Len(b) + 1})})
\* The first position from p on whose symbol is not in S, or the one past the end.
skip_while(b, p, S) == Min({i \in p .. Len(b) : b[i] \notin S} \cup {Max({p, Len(b) + 1})})
at(b, p) == IF p \in DOMAIN b THEN b[p] ELSE "end"
starts_with_at(b, p, s) == \A i \in DOMAIN s : at(b, p + i - 1) = s[i]

-----------------------------------------------------------------------------
(* get_attribute: the next attribute of a tag and the position after it,   *)
(* or that there is none before the tag's end, or that the window ends.    *)
Eof == [is |-> "Eof"]
NoAttr(p) == [is |-> "None", pos |-> p]
Found(name, value, p) == [is |-> "Found", name |-> name, value |-> value, pos |-> p]

\* Mutant of read_attribute_value: a quoted value ends at the end of the tag.
read_attribute_value_to_gt(b, p, name) ==
  LET v == skip_while(b, p, Space)
      e == find(b, v, Space \cup {">"})
  IN  IF e > Len(b) THEN Eof ELSE Found(name, SelectSeq(SubSeq(b, v, e - 1), LAMBDA c : c \notin Quotes), e)

read_attribute_value(b, p, name) ==
  LET v     == skip_while(b, p, Space)
      close == find(b, v + 1, {at(b, v)})
      e     == find(b, v, Space \cup {">"})
  IN  IF at(b, v) \in Quotes
      THEN IF close > Len(b) THEN Eof ELSE Found(name, ascii_lower(SubSeq(b, v + 1, close - 1)), close + 1)
      ELSE IF e > Len(b) THEN Eof ELSE Found(name, ascii_lower(SubSeq(b, v, e - 1)), e)

after_name_whitespace(b, p, name) ==
  LET q == skip_while(b, p, Space)
  IN  IF q > Len(b) THEN Eof
      ELSE IF b[q] = "=" THEN read_attribute_value(b, q + 1, name) ELSE Found(name, <<>>, q)

\* A "=" that starts the name belongs to it.
get_attribute(b, p) ==
  LET s    == skip_while(b, p, TagSpace)
      e    == find(b, s + 1, TagSpace \cup {">", "="})
      name == ascii_lower(SubSeq(b, s, e - 1))
  IN  IF s > Len(b) THEN Eof
      ELSE IF b[s] = ">" THEN NoAttr(s)
      ELSE IF e > Len(b) THEN Eof
      ELSE IF b[e] = "=" THEN read_attribute_value(b, e + 1, name)
      ELSE IF b[e] \in Space THEN after_name_whitespace(b, e, name) ELSE Found(name, <<>>, e)

-----------------------------------------------------------------------------
(* extract_encoding_from_meta_content: the label after the first "charset" *)
(* that an "=" follows; a quote that is not closed names nothing.          *)
charset_value(c) ==
  LET Values == {skip_while(c, i + 1, Space) + 1 :
                   i \in {i \in DOMAIN c : c[i] = "charset" /\ at(c, skip_while(c, i + 1, Space)) = "="}}
  IN  IF Values = {} THEN 0 ELSE skip_while(c, Min(Values), Space)

extract_encoding_from_meta_content(c) ==
  LET v     == charset_value(c)
      close == find(c, v + 1, {at(c, v)})
  IN  IF v = 0 \/ v > Len(c) THEN Failed
      ELSE IF c[v] \notin Quotes THEN for_label(SubSeq(c, v, find(c, v, Space \cup {";"}) - 1))
      ELSE IF close > Len(c) THEN Failed ELSE for_label(SubSeq(c, v + 1, close - 1))

normalize_prescanned_encoding(e) ==
  IF e \in {"UTF-16BE", "UTF-16LE"} THEN "UTF-8" ELSE IF e = "x-user-defined" THEN "windows-1252" ELSE e

-----------------------------------------------------------------------------
(* The main loop: what starts at a position, and where it ends; 0 when the *)
(* window ends first.                                                      *)
in_window(p) == IF p > Len(window) THEN 0 ELSE p
starts_comment(p) == starts_with_at(window, p, <<"<", "!", "-", "-">>)
\* Mutant of skip_comment: the first end in the window is taken, also one before the comment.
skip_comment_from_start(p) ==
  LET Ends == {i \in 5 .. Len(window) : starts_with_at(window, i - 2, <<"-", "-", ">">>)}
  IN  IF Ends = {} THEN 0 ELSE Min(Ends)
\* The two dashes of a comment's end may be those of its start.
skip_comment(p) ==
  LET Ends == {i \in p + 4 .. Len(window) : starts_with_at(window, i - 2, <<"-", "-", ">">>)}
  IN  IF Ends = {} THEN 0 ELSE Min(Ends)
match_meta_start(p) ==
  at(window, p) = "<" /\ at(window, p + 1) \in {"meta", "META"} /\ at(window, p + 2) \in TagSpace
name_start(p) == IF at(window, p + 1) = "/" THEN p + 2 ELSE p + 1
generic_tag_name_start(p) ==
  at(window, p) = "<" /\ at(window, name_start(p)) \notin Marks \cup {"end"}
starts_with_bang_slash_or_question(p) ==
  at(window, p) = "<" /\ at(window, p + 1) \in {"!", "/", "?"}
skip_to_gt(p) == in_window(find(window, p + 2, {">"}))

Page(p) == [at |-> "page", pos |-> p, names |-> {}, got_pragma |-> FALSE, need_pragma |-> Undeclared,
            charset |-> Undeclared]
Done(encoding) == [Page(0) EXCEPT !.at = "done", !.charset = encoding]
resume(p) == IF p = 0 THEN Done(Undeclared) ELSE Page(p + 1)

\* sniff_encoding up to the prescan: a byte-order mark, then the transport's label.
sniff_start(b, l) ==
  IF b # <<>> /\ b[1] \in DOMAIN Boms THEN Done(Boms[b[1]])
  ELSE IF for_label(l) # Failed THEN Done(for_label(l)) ELSE Page(1)

ScanPage ==
  /\ scan.at = "page"
  /\ LET p == scan.pos
         tag_end == find(window, name_start(p), Space \cup {">"})
     IN  scan' = IF p > Len(window) THEN Done(Undeclared)
                 ELSE IF starts_comment(p) THEN resume(skip_comment(p))
                 ELSE IF match_meta_start(p) THEN [Page(p + 3) EXCEPT !.at = "meta"]
                 ELSE IF generic_tag_name_start(p)
                 THEN IF tag_end > Len(window) THEN Done(Undeclared) ELSE [Page(tag_end) EXCEPT !.at = "tag"]
                 ELSE IF starts_with_bang_slash_or_question(p) THEN resume(skip_to_gt(p))
                 ELSE resume(p)
  /\ UNCHANGED <<bytes, label>>

\* skip_generic_tag: an attribute read and dropped.
SkipTagAttribute ==
  /\ scan.at = "tag"
  /\ LET attr == get_attribute(window, scan.pos)
     IN  scan' = IF attr.is = "Eof" THEN Done(Undeclared)
                 ELSE IF attr.is = "None" THEN resume(attr.pos) ELSE [scan EXCEPT !.pos = attr.pos]
  /\ UNCHANGED <<bytes, label>>

\* Mutant of read_meta_attribute: the last attribute of a name counts.
read_meta_attribute_last(s, attr) ==
  LET e == extract_encoding_from_meta_content(attr.value)
  IN  IF attr.name = <<"http-equiv">> THEN [s EXCEPT !.got_pragma = @ \/ attr.value = <<"content-type">>]
      ELSE IF attr.name = <<"content">> /\ s.charset = Undeclared /\ e # Failed
      THEN [s EXCEPT !.charset = e, !.need_pragma = "yes"]
      ELSE IF attr.name = <<"charset">>
      THEN [s EXCEPT !.charset = for_label(attr.value), !.need_pragma = "no"] ELSE s

\* What the first attribute of a name tells; a charset attribute outdoes any content.
read_meta_attribute(s, attr) ==
  LET e    == extract_encoding_from_meta_content(attr.value)
      seen == [s EXCEPT !.names = @ \cup {attr.name}]
  IN  IF attr.name \in s.names THEN s
      ELSE IF attr.name = <<"http-equiv">>
      THEN [seen EXCEPT !.got_pragma = @ \/ attr.value = <<"content-type">>]
      ELSE IF attr.name = <<"content">> /\ s.charset = Undeclared /\ e # Failed
      THEN [seen EXCEPT !.charset = e, !.need_pragma = "yes"]
      ELSE IF attr.name = <<"charset">>
      THEN [seen EXCEPT !.charset = for_label(attr.value), !.need_pragma = "no"] ELSE seen

\* The end of a meta tag: it decides, or the scan goes on after it.
finish_meta(s, p) ==
  IF s.charset \in {Undeclared, Failed} \/ (s.need_pragma = "yes" /\ ~ s.got_pragma) THEN resume(p)
  ELSE Done(normalize_prescanned_encoding(s.charset))

ScanMetaAttribute ==
  /\ scan.at = "meta"
  /\ LET attr == get_attribute(window, scan.pos)
     IN  scan' = IF attr.is = "Eof" THEN Done(Undeclared)
                 ELSE IF attr.is = "None" THEN finish_meta(scan, attr.pos)
                 ELSE [read_meta_attribute(scan, attr) EXCEPT !.pos = attr.pos]
  /\ UNCHANGED <<bytes, label>>

ScanStep == ScanPage \/ SkipTagAttribute \/ ScanMetaAttribute
Scanned  == scan.at = "done"

\* sniff_encoding's answer: UTF-8 when nothing told the encoding.
encoding == IF scan.charset = Undeclared THEN "UTF-8" ELSE scan.charset
===============================================================================
