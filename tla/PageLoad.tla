------------------------------- MODULE PageLoad --------------------------------
(***************************************************************************)
(* pipeline.rs of crates/testshell from the file to the styled document:   *)
(* the page is loaded, its encoding is found, it is parsed, dumped, its    *)
(* sheets are collected and a style pass is run.  The parser is html5ever  *)
(* with the sink that module TreeSink models: here a page is its bytes     *)
(* and the document they parse to.                                         *)
(***************************************************************************)
EXTENDS Prescan, Sheets, TreeDump

CONSTANTS
  Pages,        \* a sequence of sets of pages
  MaxRestyles   \* bound: how often a caller edits a styled document and resolves it again

VARIABLES
  page,     \* the page: its bytes, documents and files, and what render is called with
  stage,    \* how far render_file and render_bytes are
  restyles  \* how often the document was styled again

vars == <<scanVars, styleVars, fileVars, walk, warnings, dump, page, stage, restyles>>

Empty == [kind |-> <<>>]
Init ==
  /\ \E f \in DOMAIN Pages : page \in Pages[f]
  /\ stage = "start"
  /\ files = page.files /\ load = NoLoad /\ writes = 0
  /\ bytes = <<>> /\ label = page.label /\ scan = Done(Undeclared)
  /\ doc = Empty /\ engine = NewEngine /\ pass = "idle" /\ arena = <<>> /\ store = <<>>
  /\ queue = <<>> /\ styles = <<>>
  /\ walk = <<>> /\ warnings = <<>>
  /\ dump = [lines |-> <<>>, stack |-> <<>>, remaining |-> 0]
  /\ restyles = 0

-----------------------------------------------------------------------------
NoScan  == UNCHANGED scanVars
NoStyle == UNCHANGED styleVars
NoFiles == UNCHANGED fileVars
NoSheets == UNCHANGED <<walk, warnings>>

\* canonicalize and load_file: the page's file has to exist before it is loaded.
RenderFile ==
  /\ stage = "start"
  /\ IF page.path \in DOMAIN files
     THEN stage' = "fetch" /\ load' = Loading(page.path)
     ELSE stage' = "failed" /\ UNCHANGED load
  /\ UNCHANGED <<files, writes, dump, page, restyles>> /\ NoScan /\ NoStyle /\ NoSheets

FetchStep ==
  /\ stage = "fetch"
  /\ LoadStep
  /\ UNCHANGED <<dump, page, stage, restyles>> /\ NoScan /\ NoStyle /\ NoSheets

\* render_bytes starts with the bytes, or render_file returns the load's error.
RenderBytes ==
  /\ stage = "fetch"
  /\ load.at = "done"
  /\ load' = NoLoad
  /\ bytes' = load.bytes
  /\ IF load.is = "Ok" THEN stage' = "decode" /\ scan' = sniff_start(load.bytes, label)
     ELSE stage' = "failed" /\ UNCHANGED scan
  /\ UNCHANGED <<files, writes, label, dump, page, restyles>> /\ NoStyle /\ NoSheets

DecodeStep ==
  /\ stage = "decode"
  /\ ScanStep
  /\ UNCHANGED <<dump, page, stage, restyles>> /\ NoStyle /\ NoFiles /\ NoSheets

\* parse_document returns.
ParseDocument ==
  /\ stage = "decode"
  /\ Scanned
  /\ doc' = page.doc
  /\ dump' = NewDump(page.doc)
  /\ stage' = "dump"
  /\ UNCHANGED <<engine, pass, arena, store, queue, styles, page, restyles>>
  /\ NoScan /\ NoFiles /\ NoSheets

DumpStep ==
  /\ stage = "dump"
  /\ DumpNode(doc)
  /\ UNCHANGED <<page, stage, restyles>> /\ NoScan /\ NoStyle /\ NoFiles /\ NoSheets

\* A style engine for the viewport, or an error; then its sheets.
NewStyleEngine ==
  /\ stage = "dump"
  /\ DumpEnds
  /\ IF new_accepts(page.viewport)
     THEN /\ stage' = "collect"
          /\ engine' = add_ua_sheet_from(NewEngine, page.ua)
          /\ walk' = collect_order(doc)
     ELSE stage' = "failed" /\ UNCHANGED <<engine, walk>>
  /\ UNCHANGED <<doc, pass, arena, store, queue, styles, warnings, dump, page, restyles>>
  /\ NoScan /\ NoFiles

CollectDocumentSheets ==
  /\ stage = "collect"
  /\ \/ CollectStep
     \/ LoadStep /\ NoStyle /\ NoSheets
  /\ UNCHANGED <<dump, page, stage, restyles>> /\ NoScan

ResolveDocument ==
  /\ stage = "collect"
  /\ walk = <<>>
  /\ Resolve
  /\ stage' = "style"
  /\ UNCHANGED <<dump, page, restyles>> /\ NoScan /\ NoFiles /\ NoSheets

StyleStep ==
  /\ stage = "style"
  /\ PassStep
  /\ stage' = IF pass = "lifting" THEN "served" ELSE "style"
  /\ UNCHANGED <<dump, page, restyles>> /\ NoScan /\ NoFiles /\ NoSheets

\* A caller takes the document back, edits it, adds a sheet, and resolves it again.
IntoDocument ==
  /\ stage = "served"
  /\ restyles < MaxRestyles
  /\ restyles' = restyles + 1
  /\ stage' = "collect"
  /\ \E edit \in page.edits :
       doc' = edit.doc /\ engine' = add_author_sheet(engine, edit.sheet)
  /\ UNCHANGED <<pass, arena, store, queue, styles, dump, page>> /\ NoScan /\ NoFiles /\ NoSheets

\* Between loads nobody looks at the files, and a write may as well come later.
\* Bound: page.writes, how often a page's files are written to.
OtherProgram ==
  /\ writes < page.writes
  /\ stage = "start" \/ load.at \in {"stat", "open", "read"}
  /\ Rewrite \/ RemoveFile
  /\ UNCHANGED <<dump, page, stage, restyles>> /\ NoScan /\ NoStyle /\ NoSheets

Render == \/ RenderFile \/ FetchStep \/ RenderBytes \/ DecodeStep \/ ParseDocument \/ DumpStep
          \/ NewStyleEngine \/ CollectDocumentSheets \/ ResolveDocument \/ StyleStep
CanStep  == stage \notin {"served", "failed"}
Finished == ~ CanStep /\ UNCHANGED vars
Next == Render \/ IntoDocument \/ OtherProgram \/ Finished

\* The process keeps running: while it can step, steps go on being taken.
Runs == []<><<TRUE>>_vars \/ []<>(~ CanStep)
Spec == Init /\ [][Next]_vars /\ Runs

-----------------------------------------------------------------------------
(* What a prescan is to find.  The page's pieces are its comments, tags    *)
(* and texts in order, each with its bytes and the encoding it declares.   *)
Written(k) == FlattenSeq([i \in 1 .. k |-> page.pieces[i].bytes])
Declaring ==
  {i \in DOMAIN page.pieces :
     page.pieces[i].declares # Failed /\ Len(Written(i)) <= PRESCAN_LIMIT_BYTES}

(* The page is decoded as its byte-order mark says, else as its transport  *)
(* said if it named an encoding, else as the first meta element says that  *)
(* names one and whose tag ends inside the window: no comment, attribute   *)
(* value or other tag that looks like a meta element is taken for one, and *)
(* none hides one.  sniff_encoding and prescan_meta_charset.               *)
PrescanFindsDeclared ==
  (stage = "decode" /\ Scanned /\ bytes = page.bom \o Written(Len(page.pieces))) =>
    encoding = IF page.bom # <<>> THEN Boms[page.bom[1]]
               ELSE IF for_label(label) # Failed THEN for_label(label)
               ELSE IF Declaring = {} THEN "UTF-8"
               ELSE normalize_prescanned_encoding(page.pieces[Min(Declaring)].declares)

-----------------------------------------------------------------------------
(* What a load may find in a file: what was there, what another program    *)
(* wrote, or as much of the one as was read before the write and the rest  *)
(* of the other.  At most one write meets a load.                          *)
Original(path) == {page.files[p] : p \in DOMAIN page.files \cap {path}}
Torn(old, new) == {SubSeq(old, 1, k) \o SubSeq(new, k + 1, Len(new)) : k \in 0 .. Len(old)}
Versions(path) ==
  Original(path) \cup (IF writes = 0 THEN {}
                      ELSE Rewrites \cup UNION {Torn(old, new) : old \in Original(path), new \in Rewrites})
IsLocal(n)  == ~ join_fails(href(n)) /\ Urls[href(n)].scheme = "file" /\ maps_to_file_path(Urls[href(n)])
Loadable(n) == IF ~ IsLocal(n) THEN {}
               ELSE {c \in Versions(Urls[href(n)].path) : Len(c) <= MAX_FILE_BYTES}
SheetsOf(n) == IF is_style(n) THEN {Parsed(text_content(n))} ELSE {Parsed(c) : c \in Loadable(n)}
MustAdd(n)  == is_style(n) \/ (writes = 0 /\ Loadable(n) # {})

(* Every style element and every link to a sheet, in the order they have   *)
(* in the document, gives one sheet or one warning; a sheet that cannot be *)
(* had costs the document no other sheet, and the order of the author      *)
(* sheets is the document's.  collect_document_sheets.                     *)
SheetsInDocumentOrder ==
  (stage = "style" /\ restyles = 0) =>
    LET bearing == SelectSeq(descendants(doc, 1), LAMBDA n : is_style(n) \/ names_sheet(n))
        sheets  == [i \in DOMAIN bearing |-> SheetsOf(bearing[i])]
    IN  \E Added \in SUBSET DOMAIN bearing :
          LET added   == SetToSortSeq(Added, <)
              missing == SetToSortSeq(DOMAIN bearing \ Added, <)
          IN  /\ Len(engine.author) = Len(added)
              /\ \A i \in DOMAIN added : engine.author[i] \in sheets[added[i]]
              /\ \A i \in DOMAIN missing : ~ MustAdd(bearing[missing[i]])
              /\ warnings = [i \in DOMAIN missing |->
                               SheetWarning(href(bearing[missing[i]]), ~ join_fails(href(bearing[missing[i]])))]

-----------------------------------------------------------------------------
(* What an element's style is to be: worked out from the document alone,   *)
(* with no table, links, hints or order of visits.                         *)
Siblings(n) == IF doc.parent[n] = NoNode THEN <<>>
               ELSE SelectSeq(doc.children[doc.parent[n]], LAMBDA k : is_element(doc, k))
Earlier(n) == {Siblings(n)[i] : i \in {i \in DOMAIN Siblings(n) :
                                         \E j \in DOMAIN Siblings(n) : Siblings(n)[j] = n /\ i < j}}
RECURSIVE Above(_)
Above(n) == IF is_element(doc, doc.parent[n]) THEN {doc.parent[n]} \cup Above(doc.parent[n]) ELSE {}

Is(n, s) ==
  \/ s.is = "id"    /\ has_attr(doc, n, "id") /\ attr(doc, n, "id") = <<s.of>>
  \/ s.is = "root"  /\ n = root_element(doc)
  \/ s.is = "empty" /\ \A k \in ToSet(descendants(doc, n)) : doc.kind[k] = "Comment" \/ (doc.kind[k] = "Text" /\ doc.text[k] = <<>>)
  \/ s.is = "first" /\ Earlier(n) = {}
  \/ s.is = "last"  /\ Last(Siblings(n)) = n
  \/ s.is = "has"   /\ \E k \in ToSet(doc.children[n]) : is_element(doc, k) /\ doc.local[k] = s.of
  \/ s.is \in {"any", "type", "class", "attr", "link"} /\ matches_simple(n, s)
Selects(sel, n) ==
  /\ Is(n, sel.key)
  /\ LET Left == {m \in Nodes(doc) : is_element(doc, m) /\ Is(m, sel.left)}
     IN  \/ sel.combinator = ""
         \/ sel.combinator = ">" /\ doc.parent[n] \in Left
         \/ sel.combinator = " " /\ Above(n) \cap Left # {}
         \/ sel.combinator = "~" /\ Earlier(n) \cap Left # {}
         \/ sel.combinator = "+" /\ Earlier(n) # {} /\ Siblings(n)[Cardinality(Earlier(n))] \in Left

RECURSIVE StyleOf(_)
StyleOf(n) ==
  LET Applicable == {r \in ranked(engine.ua, 0) \cup ranked(engine.author, 1) : Selects(r.rule.sel, n)}
  IN  ComputedFrom(Applicable \cup inline_ranked(attr(doc, n, "style")),
                   IF Above(n) = {} THEN Initial ELSE StyleOf(doc.parent[n]))
IsStyled(n) ==
  /\ is_element(doc, n)
  /\ root_element(doc) \in Above(n) \cup {n}
  /\ \A a \in Above(n) : StyleOf(a).display # "none"

(* A styled document has the style the cascade gives of every element that *)
(* is in no hidden one, and no other: of the document as it is now and the *)
(* sheets added up to now, also when it was styled before and edited.      *)
(* StyleEngine::resolve.                                                   *)
StylesAreTheCascade ==
  stage = "served" => \A n \in Nodes(doc) : styles[n] = IF IsStyled(n) THEN {StyleOf(n)} ELSE {}

-----------------------------------------------------------------------------
RECURSIVE Listing(_, _)
Listing(n, indent) ==
  LET below(p, k) == FlattenSeq([i \in DOMAIN doc.children[p] |-> Listing(doc.children[p][i], k)])
  IN  <<Line(indent, doc, n)>>
        \o IF doc.contents[n] # NoNode
           THEN <<ContentLine(indent + 1)>> \o below(doc.contents[n], indent + 2)
           ELSE below(n, indent + 1)

(* The dump lists every node of the document once, in document order and   *)
(* as deep as it is nested, a template's contents below a line of their    *)
(* own, and the limit on nodes never cuts it short; the dump of styles     *)
(* lists every element outside a template so, and tells which of them the  *)
(* pass has styled.  html5lib_tree and computed_style_dump.                *)
DumpShowsTheTree ==
  /\ (stage = "dump" /\ DumpEnds) =>
       dump.lines = FlattenSeq([i \in DOMAIN doc.children[1] |-> Listing(doc.children[1][i], 0)])
  /\ stage = "served" =>
       LET elements == SelectSeq(descendants(doc, 1), LAMBDA n : is_element(doc, n))
       IN  computed_style_dump(doc, styles) =
             [i \in DOMAIN elements |->
                [indent |-> Cardinality(Above(elements[i])), node |-> elements[i],
                 style |-> IF IsStyled(elements[i]) THEN {StyleOf(elements[i])} ELSE {}]]

(* Every page that is rendered is styled or refused, and one whose file    *)
(* was there, small enough and left alone is styled if its viewport has an *)
(* area, whatever its sheets do.  render_file.                             *)
Refusable ==
  \/ writes > 0
  \/ page.path \notin DOMAIN page.files
  \/ Len(page.files[page.path]) > MAX_FILE_BYTES
  \/ page.viewport.width = 0 \/ page.viewport.height = 0
PageIsServed == <>[](stage = "served" \/ (stage = "failed" /\ Refusable))
===============================================================================
