----------------------------- MODULE LayoutStyle ------------------------------
(***************************************************************************)
(* LayoutStyle of crates/layout (geom.rs) and style_adapt.rs, which folds  *)
(* stylo's computed values onto it.  Values that exist per axis or per     *)
(* side are functions: of the axis, and of the pair <<near, far>> (left    *)
(* and right, top and bottom).  What text inherits is one record.          *)
(***************************************************************************)
EXTENDS Geometry, Sequences

Axes == {"x", "y"}
Both(v)    == [x |-> v, y |-> v]
Uniform(v) == Both(<<v, v>>)   \* Sides::uniform

AutoLength == [unit |-> "Auto"]
Px(n)      == [unit |-> "Px", n |-> n]
Percent(p) == [unit |-> "Percent", n |-> p]
Unbounded  == [unit |-> "None"]   \* a max-size that is None

\* Au::mul_by_f32(p / 100), rounding half away from zero; f32 is taken as exact.
mul_by_f32(n, p) ==
  LET rounded(m) == (2 * m + 100) \div 200
  IN  clamp(IF n * p >= 0 THEN rounded(n * p) ELSE - rounded(- (n * p)), -MaxAu - 1, MaxAu)

NORMAL_LINE_HEIGHT_RATIO == 120
normal_line_height(font_size) == mul_by_f32(font_size, NORMAL_LINE_HEIGHT_RATIO)

InitialText ==
  [color |-> "black", families |-> <<"sans-serif">>, size |-> 16, weight |-> 400,
   italic |-> FALSE, line_height |-> normal_line_height(16), align |-> "Left",
   white_space |-> "Normal"]

initial ==
  [display |-> "Inline", position |-> "Static", size |-> Both(AutoLength),
   min_size |-> Both(AutoLength),
   max_size |-> Both(Unbounded), margin |-> Uniform(Px(0)), padding |-> Uniform(Px(0)),
   border_width |-> Uniform(0), border_solid |-> Uniform(FALSE), box_sizing |-> "ContentBox",
   overflow |-> "Visible", offset |-> Uniform(AutoLength), background |-> "transparent",
   text |-> InitialText]

\* The two styles a box has that no element has: only what is inherited is the parent's.
anonymous_block(parent)     == [initial EXCEPT !.display = "Block", !.text = parent.text]
inherited_text_style(style) == [initial EXCEPT !.text = style.text]

-----------------------------------------------------------------------------
(* Stylo's side: a length-percentage is a length, a percentage or a calc   *)
(* of both; any other keyword of a size, margin or inset is its key alone. *)
Length(px)        == [key |-> "length", px |-> px]
Percentage(pct)   == [key |-> "percentage", pct |-> pct]
Calc(px, pct)     == [key |-> "calc", px |-> px, pct |-> pct]
Keyword(k)        == [key |-> k]
LengthPercentage  == {"length", "percentage", "calc"}

(* Computed values as stylo hands them over: a length fits an Au, and no   *)
(* padding, border or minimum is negative.                                 *)
Fitting(v, Lengths, Percents) ==
  IF v.key = "percentage" THEN v.pct \in Percents ELSE v.key \in LengthPercentage => v.px \in Lengths
IsComputed(cv) ==
  /\ \A a \in Axes :
       /\ Fitting(cv.size[a], Au, Int) /\ Fitting(cv.max_size[a], Au, Int)
       /\ Fitting(cv.min_size[a], 0 .. MaxAu, Nat)
       /\ \A i \in 1 .. 2 :
            /\ Fitting(cv.margin[a][i], Au, Int) /\ Fitting(cv.inset[a][i], Au, Int)
            /\ cv.padding[a][i].key \in LengthPercentage
            /\ Fitting(cv.padding[a][i], 0 .. MaxAu, Nat)
            /\ cv.border_width[a][i] \in 0 .. MaxAu
  /\ cv.text.size \in Au
  /\ \/ cv.text.line_height.key = "normal"
     \/ cv.text.line_height.key = "number" /\ cv.text.line_height.percent \in Int
     \/ cv.text.line_height.key = "px" /\ cv.text.line_height.px \in Au

\* A calc that mixes both is resolved against nothing.
adapt_length_percentage(lp) ==
  IF lp.key = "percentage" THEN Percent(lp.pct) ELSE Px(lp.px)

adapt_size(size) ==
  IF size.key \in LengthPercentage THEN adapt_length_percentage(size) ELSE AutoLength
adapt_max_size(size) ==
  IF size.key \in LengthPercentage THEN adapt_length_percentage(size) ELSE Unbounded
adapt_margin(margin) ==
  IF margin.key \in LengthPercentage THEN adapt_length_percentage(margin) ELSE AutoLength
adapt_inset(side) ==
  IF side.key \in LengthPercentage THEN adapt_length_percentage(side) ELSE AutoLength

adapt_display(display) ==
  IF display = "none" THEN "None" ELSE IF display = "inline" THEN "Inline" ELSE "Block"
adapt_position(position) == IF position = "relative" THEN "Relative" ELSE "Static"
adapt_box_sizing(sizing) == IF sizing = "border-box" THEN "BorderBox" ELSE "ContentBox"

adapt_overflow(overflow) == IF overflow \in {"hidden", "clip"} THEN "Hidden" ELSE "Visible"
adapt_text_align(align) ==
  IF align \in {"right", "end", "-moz-right"} THEN "Right"
  ELSE IF align \in {"center", "-moz-center"} THEN "Center" ELSE "Left"
adapt_white_space(collapse) == IF collapse = "preserve" THEN "Pre" ELSE "Normal"
adapt_font_weight(weight) == clamp(weight, 1, 1000)
adapt_line_height(height, font_size) ==
  IF height.key = "normal" THEN normal_line_height(font_size)
  ELSE IF height.key = "number" THEN mul_by_f32(font_size, height.percent) ELSE height.px

\* Stylo's "no generic family" must not become a blank name.
generic_family_name(generic) == IF generic = "none" THEN "sans-serif" ELSE generic
single_family_name(family) ==
  IF family.generic THEN generic_family_name(family.name) ELSE family.name
adapt_font_family(families) == [i \in DOMAIN families |-> single_family_name(families[i])]

\* A side whose style is none or hidden has no width.
adapt_border_side(width, style) ==
  [width |-> IF style \in {"none", "hidden"} THEN 0 ELSE width, solid |-> style = "solid"]

adapt_text(text) ==
  [color |-> text.color, families |-> adapt_font_family(text.families), size |-> text.size,
   weight |-> adapt_font_weight(text.weight), italic |-> text.style # "normal",
   line_height |-> adapt_line_height(text.line_height, text.size),
   align |-> adapt_text_align(text.align), white_space |-> adapt_white_space(text.collapse)]

adapt(cv) ==
  LET sides(f(_), values) == [a \in Axes |-> [i \in 1 .. 2 |-> f(values[a][i])]]
      border(a, i) == adapt_border_side(cv.border_width[a][i], cv.border_style[a][i])
  IN  [display |-> adapt_display(cv.display), position |-> adapt_position(cv.position),
       size |-> [a \in Axes |-> adapt_size(cv.size[a])],
       min_size |-> [a \in Axes |-> adapt_size(cv.min_size[a])],
       max_size |-> [a \in Axes |-> adapt_max_size(cv.max_size[a])],
       margin |-> sides(adapt_margin, cv.margin),
       padding |-> sides(adapt_length_percentage, cv.padding),
       border_width |-> [a \in Axes |-> [i \in 1 .. 2 |-> border(a, i).width]],
       border_solid |-> [a \in Axes |-> [i \in 1 .. 2 |-> border(a, i).solid]],
       box_sizing |-> adapt_box_sizing(cv.box_sizing), overflow |-> adapt_overflow(cv.overflow_x),
       offset |-> sides(adapt_inset, cv.inset), background |-> cv.background,
       text |-> adapt_text(cv.text)]
===============================================================================
