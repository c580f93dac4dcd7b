------------------------------ MODULE MCPageLoad -------------------------------
(***************************************************************************)
(* Pages for the way from a file to a styled document.  A family varies    *)
(* one thing: the bytes a prescan looks at, the siblings and the ancestors *)
(* that selectors ask for, the sheets a document names, what makes a load  *)
(* fail.  Words stand for whole words of a file.                           *)
(***************************************************************************)
EXTENDS PageLoad

Node(kind, local, text) ==
  [kind |-> kind, local |-> local, ns |-> "html", attrs |-> <<>>, contents |-> NoNode, text |-> text]
Element(local) == Node("Element", local, <<>>)
With(local, attrs) == [Element(local) EXCEPT !.attrs = attrs]
Text(t)  == Node("Text", "", t)
Comment  == Node("Comment", "", <<"red">>)

\* A document of its node, html, and what is below it, from the third node on.
DocumentOf(children, below) ==
  LET nodes == <<Node("Document", "", <<>>), Element("html")>> \o below
      Parents(n) == {p \in DOMAIN nodes : n \in ToSet(children[p])}
  IN  [children |-> children,
       parent   |-> [n \in DOMAIN nodes |-> IF Parents(n) = {} THEN NoNode ELSE CHOOSE p \in Parents(n) : TRUE],
       kind     |-> [n \in DOMAIN nodes |-> nodes[n].kind],
       local    |-> [n \in DOMAIN nodes |-> nodes[n].local],
       ns       |-> [n \in DOMAIN nodes |-> nodes[n].ns],
       attrs    |-> [n \in DOMAIN nodes |-> nodes[n].attrs],
       contents |-> [n \in DOMAIN nodes |-> nodes[n].contents],
       text     |-> [n \in DOMAIN nodes |-> nodes[n].text]]

OnlyHtml == DocumentOf(<< <<2>>, <<>> >>, <<>>)
Markup   == [bytes |-> <<"<", "html", ">">>, declares |-> Failed]
PlainPage ==
  [path |-> "page", pieces |-> <<Markup>>, bom |-> <<>>, label |-> NoLabel, doc |-> OnlyHtml,
   ua |-> <<"red">>, viewport |-> [width |-> 800, height |-> 600], edits |-> {},
   writes |-> 1, files |-> [p \in {"page"} |-> Markup.bytes]]
Saved(p) ==
  [p EXCEPT !.files = [q \in DOMAIN @ |->
     IF q = "page" THEN p.bom \o FlattenSeq([i \in DOMAIN p.pieces |-> p.pieces[i].bytes]) ELSE @[q]]]

-----------------------------------------------------------------------------
(* Bytes: what a content attribute's value names is written down here.     *)
KnownLabels ==
  [x \in {<<"utf-8">>, <<"koi8-r">>, <<"utf-16">>, <<"x-user-defined">>} |->
     IF x = <<"utf-8">> THEN "UTF-8" ELSE IF x = <<"koi8-r">> THEN "KOI8-R"
     ELSE IF x = <<"utf-16">> THEN "UTF-16LE" ELSE "x-user-defined"]
Capitals == [x \in {"META", "CHARSET", "KOI8-R"} |->
               IF x = "META" THEN "meta" ELSE IF x = "CHARSET" THEN "charset" ELSE "koi8-r"]
Contents ==
  {[value |-> <<"text", ";", " ", "charset", "=", "koi8-r", ";", "x">>, names |-> "KOI8-R"],
   [value |-> <<"charset", "charset", " ", "=", " ", "q1", "koi8-r", "q1", "x">>, names |-> "KOI8-R"],
   [value |-> <<"charset", "=", "q1", "koi8-r">>, names |-> Failed],
   [value |-> <<"charset", "=">>, names |-> Failed],
   [value |-> <<"charset", " ", "koi8-r">>, names |-> Failed]}
Charsets == {[value |-> <<"KOI8-R">>, names |-> "KOI8-R"], [value |-> <<" ", "utf-16">>, names |-> "UTF-16LE"],
             [value |-> <<"x-user-defined">>, names |-> "x-user-defined"], [value |-> <<"bogus">>, names |-> Failed]}
Pragmas  == {[value |-> <<"content-type">>, names |-> "yes"], [value |-> <<"refresh">>, names |-> "no"]}
Attribute(name, v) == [name |-> name, value |-> v.value, names |-> v.names]
Attributes == {Attribute("charset", v) : v \in Charsets} \cup {Attribute("content", v) : v \in Contents}
              \cup {Attribute("http-equiv", v) : v \in Pragmas}

\* The encoding that the attributes of a meta element declare: of each name the first counts.
MetaDeclares(attrs) ==
  LET named(name) == SelectSeq(attrs, LAMBDA a : a.name = name)
      first(name) == named(name)[1].names
  IN  IF named("charset") # <<>> THEN first("charset")
      ELSE IF named("content") # <<>> /\ named("http-equiv") # <<>> /\ first("http-equiv") = "yes"
      THEN first("content") ELSE Failed
Quoted(a) == <<" ", a.name, "=", "q2">> \o a.value \o <<"q2">>
Meta(word, attrs) ==
  [bytes |-> <<"<", word>> \o FlattenSeq([i \in DOMAIN attrs |-> Quoted(attrs[i])]) \o <<">">>,
   declares |-> MetaDeclares(attrs)]
Nothing(b)  == [bytes |-> b, declares |-> Failed]
CharsetMeta == <<"<", "meta", " ", "charset", "=", "koi8-r", ">">>
Plain       == Nothing(<<"text", ">", "<", " ">>)
NotMetas ==
  {Nothing(<<"<", "!", "-", "-">> \o CharsetMeta \o <<"-", "-", ">">>),
   Nothing(<<"<", "!", "-", "-", ">">>), Nothing(<<"<", "!", "-", "-", "-", ">">>),
   Nothing(<<"<", "p", " ", "x", "=", "q2", ">">> \o CharsetMeta \o <<"q2", ">">>),
   Nothing(<<"<", "p", "/", "x", " ", "=", " ", "q1", "<", "!", "-", "-", "q1", ">">>),
   Nothing(<<"<", "!", "meta", "q2", ">">>), Nothing(<<"<", "/", "p", " ", "=", ">">>),
   Nothing(<<"<", "/", " ", "charset", ">">>), Nothing(<<"<", "?", "charset", "=", "koi8-r", ">">>),
   Nothing(<<"<", "META", ">">>), Nothing(<<"<", "meta", "/", "charset", ">">>), Plain}
Unclosed == {Nothing(<<"<", "!", "-", "-">> \o CharsetMeta), Nothing(<<"<", "p", " ", "x", "=", "q2">> \o CharsetMeta),
             Nothing(<<"<", "meta", " ", "charset", "=", "koi8-r">>), Nothing(<<"<", "/", "p">>),
             Nothing(<<"<", "?", "x">>)}
Bare == {[bytes |-> <<"<", "META", "/", "CHARSET", " ", "=", " ", "koi8-r", " ", "/", ">">>, declares |-> "KOI8-R"],
         [bytes |-> <<"<", "META", " ", "charset", "=", "koi8-r", "/", ">">>, declares |-> Failed]}
OneMeta   == {Meta("META", <<a>>) : a \in Attributes} \cup Bare
TwoMeta   == {Meta("meta", <<a, b>>) : a, b \in Attributes}
ThreeMeta == {Meta("meta", <<a, b, c>>) : a, b, c \in {x \in Attributes : x.names \in {"KOI8-R", "yes", "x-user-defined", "no"}}}
Default   == [bytes |-> CharsetMeta, declares |-> "KOI8-R"]

PageOfPieces(pieces) == Saved([PlainPage EXCEPT !.pieces = pieces])
Prescanned ==
  {PageOfPieces(<<a, b, Default>>) : a \in NotMetas, b \in NotMetas \cup OneMeta}
  \cup {PageOfPieces(<<a, Plain, b>>) : a, b \in NotMetas}
  \cup {PageOfPieces(<<a, b>>) : a \in NotMetas \cup OneMeta, b \in OneMeta \cup Unclosed}
  \cup {PageOfPieces(<<a, Default>>) : a \in TwoMeta \cup ThreeMeta}
Labelled ==
  {Saved([PlainPage EXCEPT !.pieces = <<Default>>, !.bom = b, !.label = l]) :
     b \in {<<>>, <<"BOM8">>, <<"BOM16">>}, l \in {NoLabel, <<"utf-16">>, <<" ", "x-user-defined">>, <<"bogus">>}}

-----------------------------------------------------------------------------
(* Rules: what they are called says what they set.                         *)
Simple(is, of) == [is |-> is, of |-> of]
Alone(s)       == [key |-> s, combinator |-> "", left |-> s]
Sets(sel, specificity, color) == [sel |-> sel, specificity |-> specificity, sets |-> "color", to |-> color]
P == Simple("type", "p")
Selectors ==
  [id |-> Alone(Simple("id", "i")), class |-> Alone(Simple("class", "x")), attribute |-> Alone(Simple("attr", "href")),
   root |-> Alone(Simple("root", "")), empty |-> Alone(Simple("empty", "")), linked |-> Alone(Simple("link", "")),
   first |-> Alone(Simple("first", "")), last |-> Alone(Simple("last", "")), has |-> Alone(Simple("has", "p")),
   child |-> [key |-> P, combinator |-> ">", left |-> Simple("class", "x")],
   within |-> [key |-> P, combinator |-> " ", left |-> Simple("id", "i")],
   after |-> [key |-> P, combinator |-> "+", left |-> Simple("class", "x")],
   later |-> [key |-> P, combinator |-> "~", left |-> Simple("id", "i")]]
Sheet == [red    |-> Sets(Alone(P), 1, "red"), blue |-> Sets(Alone(P), 1, "blue"),
          hidden |-> [sel |-> Alone(Simple("class", "x")), specificity |-> 10, sets |-> "display", to |-> "none"]]
AllRules == [name \in DOMAIN Selectors \cup DOMAIN Sheet |->
               IF name \in DOMAIN Sheet THEN Sheet[name] ELSE Sets(Selectors[name], 10, "green")]
AllDeclarations == [white |-> [sets |-> "color", to |-> "white"], none |-> [sets |-> "display", to |-> "none"]]

(* Siblings: a body (5) of three nodes, and a node below the second.       *)
StyleElement(t) == <<Element("style"), Text(t)>>
Some == {Element("p"), With("p", [class |-> <<"y", "x">>]), With("a", [id |-> <<"i">>, href |-> <<"u">>]),
         Text(<<>>), Text(<<"t">>), Comment}
Bodies(rule, inside) ==
  {[PlainPage EXCEPT !.writes = 0, !.doc =
      DocumentOf(<< <<2>>, <<3, 5>>, <<4>>, <<>>, <<6, 7, 8>>, <<>>, <<9>>, <<>>, <<>> >>,
                 StyleElement(<<"bad", rule>>) \o <<Element("body"), a, b, c, inside>>)] :
     a, c \in Some, b \in {x \in Some : x.kind = "Element"}}
SiblingPages == UNION {Bodies(rule, Element("p")) : rule \in DOMAIN Selectors}
InsidePages  == UNION {Bodies(rule, inside) : rule \in {"empty", "has", "first"}, inside \in {Text(<<>>), Comment}}

(* Ancestors: three nested elements, and the edits of a caller.            *)
Nested(a, b, c, sheet) ==
  DocumentOf(<< <<2>>, <<3, 5>>, <<4>>, <<>>, <<6>>, <<7>>, <<8>>, <<>> >>,
             StyleElement(sheet) \o <<a, b, c, Text(<<"t">>)>>)
Holders == {Element("p"), With("p", [class |-> <<"x">>]), With("div", [id |-> <<"i">>, style |-> <<"white", "bad">>]),
            With("div", [style |-> <<"white", "none">>])}
NestedSheets == {<<"child", "hidden">>, <<"within", "red", "blue">>, <<"blue", "red">>}
AncestorPages ==
  {[PlainPage EXCEPT
      !.writes = 0, !.doc = Nested(a, b, c, sheet),
      !.edits = {[doc |-> Nested(a, e, c, sheet), sheet |-> t] : e \in Holders, t \in {<<>>, <<"id", "blue">>}}] :
     a, b, c \in Holders, sheet \in NestedSheets}

-----------------------------------------------------------------------------
(* Sheets: what a document's head (3) carries and names, and an svg link.  *)
References ==
  [near    |-> [scheme |-> "file", host |-> "", path |-> "near"],
   local   |-> [scheme |-> "file", host |-> "localhost", path |-> "near"],
   missing |-> [scheme |-> "file", host |-> "", path |-> "missing"],
   large   |-> [scheme |-> "file", host |-> "", path |-> "large"],
   web     |-> [scheme |-> "http", host |-> "", path |-> "near"],
   share   |-> [scheme |-> "file", host |-> "server", path |-> "near"]]
LinkTo(reference, rel) == With("link", [rel |-> rel, href |-> <<reference>>])
Stylesheet == <<"stylesheet">>
Bearers == {LinkTo(r, Stylesheet) : r \in DOMAIN References \cup {"unresolved"}}
           \cup {LinkTo("near", <<"alternate", "STYLESHEET">>), LinkTo("near", <<"icon">>),
                 With("link", [rel |-> Stylesheet]), With("link", [href |-> <<"near">>]), Element("style"),
                 [Element("style") EXCEPT !.ns = "svg"]}
TooMany == [i \in 1 .. MAX_FILE_BYTES + 1 |-> "blue"]
SheetFiles == [p \in {"page", "near", "large"} |->
                 IF p = "page" THEN Markup.bytes ELSE IF p = "near" THEN <<"red">> ELSE TooMany]
SheetPage(a, t, b, c) ==
  [PlainPage EXCEPT
     !.files = SheetFiles, !.writes = 0,
     !.doc = DocumentOf(<< <<2>>, <<3, 9>>, <<4, 6, 8>>, <<5>>, <<>>, <<7>>, <<>>, <<>>, <<>> >>,
                        <<Element("head"), a, t, b, Text(<<"red", "bad">>), c, Element("p")>>)]
Linked == {LinkTo(r, Stylesheet) : r \in {"near", "missing"}}
SheetPages ==
  {SheetPage(a, t, b, c) : a, b \in Bearers, t \in {Text(<<"blue">>), Comment}, c \in Linked}
\* The files of these are written to while they are loaded.
ContestedPages ==
  {[SheetPage(a, Text(<<"blue">>), b, c) EXCEPT !.writes = 1] :
     a, b \in Linked \cup {LinkTo("large", Stylesheet), LinkTo("local", Stylesheet), Element("style")},
     c \in Linked}

-----------------------------------------------------------------------------
(* Templates, documents with no element, and what refuses a page.          *)
TemplateOf(attrs) == [With("template", attrs) EXCEPT !.contents = 5]
Odd ==
  {DocumentOf(<< <<3>>, <<>>, <<>> >>, <<Comment>>), DocumentOf(<< <<>>, <<>> >>, <<>>),
   DocumentOf(<< <<3, 2, 4>>, <<>>, <<>>, <<>> >>, <<Comment, Element("p")>>)}
  \cup {DocumentOf(<< <<2>>, <<3, 4>>, <<>>, <<>>, <<6, 8>>, <<7>>, <<>>, <<>>, <<10>>, <<>> >>,
                   <<Text(<<"t">>), TemplateOf(a), Node("DocumentFragment", "", <<>>), Element("style"),
                     Text(<<"red">>), x, Node("DocumentFragment", "", <<>>), Element("p")>>) :
          a \in {<<>>, [class |-> <<"x">>]}, x \in {Element("p"), Text(<<"u">>), [TemplateOf(<<>>) EXCEPT !.contents = 9]}}
OddPages == {[PlainPage EXCEPT !.doc = d, !.viewport = [width |-> w, height |-> h]] : d \in Odd, w, h \in {0, 800}}
RefusedPages ==
  {[PlainPage EXCEPT !.path = "missing"]}
  \cup {[PlainPage EXCEPT !.files = [p \in {"page"} |-> [i \in 1 .. MAX_FILE_BYTES + k |-> "x"]]] : k \in {0, 1}}

Overwrites == {<<"blue", "blue">>, TooMany, [i \in 1 .. MAX_FILE_BYTES |-> "red"]}
AllPages == <<Prescanned, Labelled, SiblingPages, InsidePages, AncestorPages, SheetPages, ContestedPages,
              OddPages, RefusedPages>>
===============================================================================
