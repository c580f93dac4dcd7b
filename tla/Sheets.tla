-------------------------------- MODULE Sheets ---------------------------------
(***************************************************************************)
(* sheets.rs of crates/style: the sheets a document carries or names, in   *)
(* document order.  A linked sheet is loaded on the way, and one that does *)
(* not resolve or load leaves a warning and no sheet.                      *)
(***************************************************************************)
EXTENDS StylePass, FileLoad

VARIABLES
  walk,     \* the nodes collect_document_sheets has still to look at
  warnings  \* the sheets that could not be added: what names them

\* The text below an element, at any depth.
text_content(n) ==
  LET texts == SelectSeq(descendants(doc, n), LAMBDA k : doc.kind[k] = "Text")
  IN  FlattenSeq([i \in DOMAIN texts |-> doc.text[texts[i]]])
\* Words are compared whole, capitals or not.
rel_has_stylesheet_token(rel) == \E i \in DOMAIN rel : rel[i] \in {"stylesheet", "STYLESHEET"}
is_style(n) == is_element(doc, n) /\ doc.local[n] = "style"
names_sheet(n) ==
  /\ is_element(doc, n) /\ doc.local[n] = "link"
  /\ rel_has_stylesheet_token(attr(doc, n, "rel"))
  /\ has_attr(doc, n, "href")
href(n) == attr(doc, n, "href")[1]
\* A warning names the sheet by what its reference resolves to, or else by the reference.
SheetWarning(reference, resolved) == [of |-> reference, resolved |-> resolved]

\* Mutant of collect_order: a stack of nodes, whose children are pushed first child first.
collect_order_reversed(d) == Reverse(descendants(d, 1))
\* The nodes collect_document_sheets looks at, in the order it does.
collect_order(d) == descendants(d, 1)

\* A style element: its text is a sheet.
CollectStyle ==
  /\ walk # <<>> /\ is_style(Head(walk))
  /\ engine' = add_author_sheet(engine, text_content(Head(walk)))
  /\ walk' = Tail(walk)
  /\ UNCHANGED <<doc, pass, arena, store, queue, styles, fileVars, warnings>>

SkipNode ==
  /\ walk # <<>> /\ ~ is_style(Head(walk)) /\ ~ names_sheet(Head(walk))
  /\ walk' = Tail(walk)
  /\ UNCHANGED <<styleVars, fileVars, warnings>>

\* collect_link up to the load: the link's reference is resolved, or is what the warning names.
BeginLink ==
  /\ walk # <<>> /\ names_sheet(Head(walk)) /\ load = NoLoad
  /\ IF join_fails(href(Head(walk)))
     THEN /\ warnings' = Append(warnings, SheetWarning(href(Head(walk)), FALSE))
          /\ walk' = Tail(walk)
          /\ UNCHANGED load
     ELSE /\ load' = load_file(Urls[href(Head(walk))])
          /\ UNCHANGED <<warnings, walk>>
  /\ UNCHANGED <<styleVars, files, writes>>

\* Mutant of sheet_of: a link whose sheet is missing adds an empty one.
sheet_of_missing(e, l) == add_author_sheet(e, l.bytes)
sheet_of(e, l) == IF l.is = "Ok" THEN add_author_sheet(e, l.bytes) ELSE e

\* The end of collect_link.
EndLink ==
  /\ walk # <<>> /\ load.at = "done"
  /\ engine' = sheet_of(engine, load)
  /\ warnings' = IF load.is = "Ok" THEN warnings
                 ELSE Append(warnings, SheetWarning(href(Head(walk)), TRUE))
  /\ walk' = Tail(walk)
  /\ load' = NoLoad
  /\ UNCHANGED <<doc, pass, arena, store, queue, styles, files, writes>>

CollectStep == CollectStyle \/ SkipNode \/ BeginLink \/ EndLink
===============================================================================
