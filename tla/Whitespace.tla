------------------------------ MODULE Whitespace ------------------------------
(***************************************************************************)
(* whitespace.rs of crates/layout: what is left of a text node, given      *)
(* whether the block's text so far ends in a space.  A text is a sequence  *)
(* of characters: "sp", "tab", "lf", "cr", "ff" and letters.               *)
(***************************************************************************)
EXTENDS Integers, FiniteSets, Sequences, SequencesExt

\* The k-th of a set of positions, and all of them in order.
nth(S, k) == CHOOSE i \in S : Cardinality({j \in S : j < i}) = k - 1
in_order(S) == [k \in 1 .. Cardinality(S) |-> nth(S, k)]

is_collapsible(c) == c \in {"sp", "tab", "lf", "cr", "ff"}

\* The positions of the text's maximal runs of collapsible space: their first characters.
RunStarts(text) ==
  {i \in DOMAIN text : is_collapsible(text[i]) /\ (i = 1 \/ ~ is_collapsible(text[i - 1]))}

\* Every other character, and one space for each run of them whose start is not in Dropped.
CollapseRuns(text, Dropped) ==
  LET Spaces == RunStarts(text) \ Dropped
      kept   == in_order({i \in DOMAIN text : ~ is_collapsible(text[i])} \cup Spaces)
  IN  [k \in DOMAIN kept |-> IF kept[k] \in Spaces THEN "sp" ELSE text[kept[k]]]

\* Mutant of process_normal: each text starts with a clean slate.
process_normal_alone(text, suppress) ==
  [text |-> CollapseRuns(text, {}), suppress_next_space |-> FALSE]

\* A run that leads a text whose space is suppressed goes altogether.
process_normal(text, suppress) ==
  [text |-> CollapseRuns(text, IF suppress THEN {1} ELSE {}),
   suppress_next_space |-> IF text = <<>> THEN suppress ELSE is_collapsible(text[Len(text)])]

\* CR LF and a lone CR become LF.
normalize_segment_breaks(text) ==
  LET kept == in_order({i \in DOMAIN text : ~ (text[i] = "lf" /\ i > 1 /\ text[i - 1] = "cr")})
  IN  [k \in DOMAIN kept |-> IF text[kept[k]] = "cr" THEN "lf" ELSE text[kept[k]]]

process(text, mode, suppress) ==
  IF mode = "Pre" THEN [text |-> normalize_segment_breaks(text), suppress_next_space |-> FALSE]
  ELSE process_normal(text, suppress)
===============================================================================
