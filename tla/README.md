# Chromelight in TLA+

This directory holds the verification project of the chromelight browser: TLA+
modules translated from the Rust sources, TLC configurations that check them on
small instances, and proofs, checked by TLAPS, that the properties that matter
most hold for every value of the constants.

Every definition that stands for code carries the name the code has for it; where
the two differ the comment above the definition says which function it is.
`PROJECT.json` records, for every definition, the lines of the source it models.

* [The system](#the-system) - its parts, their state, how they interact, what makes them correct
* [The modules](#the-modules) - which module models which part
* [The runs](#the-runs) - what TLC checks, on which instance, and why it is enough
* [Fairness](#fairness)
* [The proofs](#the-proofs)
* [Findings](#findings)
* [What is not modelled](#what-is-not-modelled)
* [Plan](#plan)

## The system

Chromelight is a small browser in the making. A browser process spawns sandboxed
child processes and talks to them over validated messages; a pipeline turns HTML
bytes into a DOM, a style per element, a fragment tree, a display list and
finally pixels. The stages of the pipeline are libraries; `testshell` runs them
in one thread, and no stage runs concurrently with another. Real concurrency is
in the process layer: the browser's main thread, its accept thread, and the child.

| part (crate) | state it keeps | operations | hard behaviour |
|---|---|---|---|
| arena (`dom`: `document.rs`, `node.rs`) | a vector of nodes with five intrusive links each, quirks mode | `create`, `append_child`, `insert_before`, `detach`, `reparent_children` with any ids | six links on four nodes per call; a loop that tests only on entry; a capacity and a sentinel id |
| traversal (`dom`: `traverse.rs`) | an iterator's stack and remaining count | `children`, `ancestors`, `descendants` | a cap that must never cut a walk short |
| dumps (`dom`: `serialize.rs`; `dump.rs` of `style` and `layout`) | a stack and a limit on nodes | list a document, its styles, its boxes, its fragments | template contents; a limit that must never cut a walk short |
| tree sink (`html`: `sink.rs`) | the arena behind a `RefCell`, parse errors | the callbacks of html5ever's `TreeSink` | no callback can fail: arena errors are dropped; text merging; foster parenting; detach before the tests |
| encoding, prescan (`html`) | none | sniff an encoding, decode | byte scanners that must stop at the same place as the standard |
| messages (`ipc`: `message.rs`, `validate.rs`, `codec.rs`) | none | encode, decode, validate a hello | everything a child says is untrusted |
| bootstrap (`ipc`: `bootstrap.rs`) | a one-shot server, two byte channels, an accept thread | `accept_with_timeout`, `connect_child`, send, recv | a deadline racing the thread that accepts |
| handshake (`ipc`: `handshake.rs`) | none beyond the channels | `browser_side`, `child_side` | deadline, early hang-up, rejection |
| spawn (`process`: `spawn.rs`, `sandbox.rs`) | a `ChildProcess` handle | `spawn`, `wait`, `Drop` | every error path must kill and reap, once |
| binary (`apps/chromelight`) | the run of each process | `browser::run`, `child::run`, `serve` | ping, pong, shutdown, a wait without a deadline |
| network (`net`) | none | parse a URL, read a bounded file | a file is asked for its size, opened and read call by call, and may change between any two calls |
| style (`style`) | an engine with its sheets; for one pass a table of handles and a `StyleStore` beside the tree, stylo inside | add sheets, collect a document's, resolve | a second copy of the tree's links; hints that carry the traversal; data of one pass read in another |
| fonts (`fonts`) | a face table | look up a family, a weight, a fallback | fallback order |
| layout (`layout`) | a box tree, then a fragment tree, each walked with a stack; a margin memo | box generation, white space, block and inline layout | anonymous boxes, margins that collapse through chains, saturating units |
| paint (`paint`) | none, a list is built and validated | `build`, `validate` | balanced clips, culling and validation that must agree |
| raster (`gfx`) | a pixmap, a clip stack, a glyph cache | `rasterize` | clip stack, byte budget of the cache |
| test shell (`testshell`) | none | run the pipeline, compare images | which stage's failure ends a page and which only warns |
| platform, tools | none | clock, paths, fuzz targets | - |

How they interact: `html` calls `dom` under a `RefCell` borrow and holds only
`NodeId`s; `style`, `layout` and `paint` read the finished tree through the
iterators of `dom`; `layout` reads `style` and `fonts`; `paint` reads the fragment
tree and hands a `DisplayList` across what will be a process boundary, which is why
it is validated; `gfx` draws it. `process` spawns a child, `ipc` connects it, and
the binary drives both.

What makes each part correct:

* **arena** - after any calls the links agree and form a forest; a refused call
  changes nothing; the reparenting loop ends; ids past the arena are harmless.
* **traversal** - each iterator yields exactly the nodes it names, once, in document order.
* **tree sink** - any callback sequence leaves a forest; text lands at the end of the
  right node and merges; a fostered node is not lost.
* **process layer** - a child is reaped exactly once before `run` returns; only a child
  that proved who it is gets accepted; spawn ends by its deadlines; the two
  programs never wait for each other; a child outlives no browser.
* **paint, raster** - the list balances whatever the tree, is accepted by the check it
  will meet, and draws the pixels an ideal painter would; a hostile list draws only
  inside its clips; the glyph cache changes no pixel.
* **encoding, network** - the encoding a page declares is the one it is decoded with; what a
  load returns is within the cap and not cut short, whoever writes to the file meanwhile.
* **style** - every element that is in no hidden one has the style the cascade gives it, for
  the document and the sheets of this pass; one bad sheet costs a warning and no other sheet.
* **layout** - every character is drawn once and words stay apart; fragments mirror the boxes and
  the boxes the document; sizes, margins and lines are those CSS asks for.
* **dumps** - each lists every node once, in order, as deep as it is.

## The modules

| module | models | state and actions |
|---|---|---|
| `DomLinks` | the arena's links and the pure part of every mutator | no state: `unlink`, `link_last`, `link_before`, the checks with their errors, as operators on a record of functions from ids |
| `Document` | the arena in use | `links`, how many slots are taken, what `reparent_children` has left; one action per mutator, one per turn of the loop |
| `OrderedForest` | what the arena promises | a tree as a function from a node to the sequence of its children; no links, no ids past the end |
| `DocumentForest` | - | extends `Document`; instantiates `OrderedForest` with each node's children read off the links that chain them (`Chains`, `RefinesForest`) |
| `DocumentTraversal` | the iterators, caps included | extends `DocumentForest`; each iterator as the sequence it yields, from the links |
| `TreeSink` | html5ever's callbacks | uses `DomLinks`; one action per callback, over any handle html5ever can hold; text is counted, each delivery with where it ended |
| `Handshake` | messages, `Hello::validate`, the verdict of either side | no state |
| `Lifecycle` | both processes, the accept thread, the channels, the operating system's part | the program counters of `browser::run` and `child::run`, the channels, the child's fate; one action per step that blocks or calls out, plus the faults |
| `Prescan` | `encoding.rs` and `prescan.rs` | what the scan has seen and where it is; one action per turn of the main loop and of either loop over a tag's attributes |
| `FileLoad` | `url.rs` and `file.rs` | the files and the load under way; `StatFile`, `OpenFile`, one `ReadSome` per call of read and `ReadEnd`; another program that writes in place, replaces or removes between any two of them |
| `StyleTree` | what the handles tell stylo of a document | no state: links among elements, `:root`, `:empty`, links of a document |
| `StylePass` | `StyleEngine` and one `resolve` | engine, the pass's arena and side table, stylo's queue, the result; one action per node visited, one to seed, one to lift |
| `Sheets` | `collect_document_sheets` | the nodes still to look at and the warnings; a linked sheet is loaded by `FileLoad` on the way |
| `TreeWalk`, `TreeDump` | the dumps | `html5lib_tree` one popped node at a time; the dump of styles as a function |
| `PageLoad` | `render_file` as far as the styled document | composes `Prescan`, `Sheets` (with `FileLoad` and `StylePass`) and `TreeDump`; `stage` says how far the page is |
| `LayoutStyle` | `LayoutStyle` and `style_adapt.rs` | no state: computed values to layout's |
| `Whitespace` | `whitespace.rs` | no state |
| `BoxTree` | `box_tree.rs` | the walk's frames and the boxes; one action per child classified and per box finished |
| `InlineLayout` | `inline.rs`, `text.rs` | no state: pieces, clusters, lines, runs, fragments of one block |
| `BlockLayout` | `block.rs` | frames, fragments, the margin memo, the error; one action per child placed and per block finished |
| `Layout` | `layout::layout` and its dumps | composes `BoxTree` and `BlockLayout`; what a page must look like, stated from the document |
| `Geometry` | `Au` and `Rect` along an axis, saturating | no state |
| `DisplayList` | items, the region of culling, `validate` | no state |
| `PaintBuild` | `build`: canvas background, the walk | the walk's stack and budget, the list so far; one action per kind of frame |
| `Raster` | `rasterize`: the draw loop, clips, borders, glyph runs, cache | item and glyph to draw next, clip stack, pixels, cache; one action per kind of item |
| `Painting` | the two joined as `render_bytes` joins them | extends `PaintBuild` and instantiates `Raster` on the list built; `Meant` is the ideal painter |
| `MCTreeSink`, `MCPageLoad`, `MCLayout`, `MCPaintBuild`, `MCRaster`, `MCPainting` | - | inputs for TLC |
| `DomLinksProofs`, `DocumentProofs`, `TreeSinkProofs`, `LifecycleProofs`, `PaintProofs`, `PaintingProofs`, `RasterProofs`, `PageProofs` | - | the theorems |

Modelling decisions a reader should know:

* Ids past the arena and the sentinel of a full arena are values like any other:
  every call of `Document` is tried with them.
* `reparent_children` takes one step per child moved. The code holds `&mut` during
  the loop, so nothing runs in between; the steps are there because what the loop
  relies on (the target stays outside the moved subtree) must hold at each turn.
* html5ever itself is not modelled: in `TreeSink` it calls back in any order with any
  handle it may have, except that it never moves the document node and never
  appends to a text node, as its `TreeSink` contract says. In `PageLoad` a page is its
  bytes together with the document they parse to.
* `position: relative` moves boxes and leaves glyph runs where they are, as `shift_fragment` does
  (finding 5). In the model a run has an origin along x only.
* A child may be another program than `child.rs` (`Misbehave`): it sends what it likes and leaves with any status
  at any time, with `Shutdown` unread if it likes. `wrong` keeps which faults have happened.
* A message is a record; one that does not decode is `Undecodable`. Time is
  whether a deadline has passed: with the fault `deadline` it may pass at any step.
* A byte that a prescan looks at is a symbol, and so is a word it compares as a whole; a
  position counts symbols. A transport's label is modelled for callers of
  `parse_document` other than the test shell, which has none.
* A load asks for the size, opens, and reads call by call; each call is atomic, and brings as
  many bytes as it likes out of `Reads`. Other programs act before the first load and between any two of these steps: at
  any other time nobody looks. One that writes in place changes the file the reader has open, so
  a load may return bytes of two versions, which no file ever held together; `versions` keeps what the
  open file has held. One that replaces or removes the file does not touch the reader's.
  The parser is external: a page that was overwritten is given the document of the page, which any document may be.
  The base URL of a page comes from a path that exists, so the only error
  `collect_document_sheets` can return cannot occur here.
* Stylo is external and modelled by what the code relies on: it visits the nodes noted so far in
  the order they were noted, a hint on an element is passed to its children, and the cascade ranks
  declarations by origin, specificity and order. What it asks of a node (siblings, attributes, ids,
  classes, emptiness) goes through the handles and the side table, which are the code's.
* Parley, which breaks lines, is any of the ways it may answer; a character shapes to one
  glyph. Layout keeps both axes: a length is a function of the axis, a margin of the side.
* Painting works axis by axis with the same code for x and y and joins the answers
  with "and". Its models keep one axis: a rectangle is an interval, the canvas a
  row of pixels, a glyph mask one pixel, every colour opaque. What needs both axes at
  once (a rectangle empty on the other axis) is lost; borders keep the two strips of the axis.
* A drawing item names its fragment in the field `of`, which stands for the colour. In
  layout a fragment names its box in `of`; the code has no such field.
* `PageLoad` ends with the styled document, `Layout` starts from any styled document and
  `Painting` from any fragment tree: each takes more inputs than the stage before hands on.

## The runs

| run | instance | what it shows |
|---|---|---|
| `document_arena` | 5 nodes, all ids and the sentinel | the links stay well-formed, refused calls included, and implement `OrderedForest`; reparenting ends; iterators are complete, in order, and their caps cut nothing |
| `sink` | 4 nodes, texts of up to 2, an attribute with 2 values, one kept error of 2 | trees stay well-formed although callbacks cannot fail, text lands and merges, a fostered node is not lost, the first attribute wins |
| `lifecycle` | queue of 2, every fault, a child that may hang or be another program | one reap, only proven children, spawn ends; success is an orderly end unless the child was another program; a child that runs outlives no browser; a run without faults succeeds |
| `page_load` | nine families of pages, a window of 30 symbols, a cap of 60, reads of 30 or 61, one write by another program where the family allows it, one edit and second pass | the declared encoding is found, sheets come in order, styles are the cascade's, dumps show the tree, loads are uncut, the page is served |
| `layout_pages` | every tree of three nodes below html, and three families of pages that vary margins, sizes and lengths near the limit | text is drawn once, boxes nest, margins and sizes are those asked for |
| `raster_any_list` | all lists of at most 5 of 16 items on 3 pixels, a cache of 3 bytes | a hostile list cannot pop the canvas or draw outside its clips; the budget changes no pixel |
| `painting_pages` | all ways 3 fragments and a dangling id name each other, and 15,840 pages of 3 fragments, 2 pixels, a margin of 2 pixels | balanced clips, right scope, termination; lists are accepted, pixels are those of the ideal painter |
| `lifecycle_hang`, `paint_deep_clips`, `painting_long_run`, `layout_sibling_margins`, `layout_relative_text` | - | the findings below |

Every property is broken by at least one plausible bug in the code it is about: `PROJECT.json`
lists them as mutants, and each module has the mutated form before the definition it
replaces.

Why the bounds are enough.

* *Arena*: a link write touches a node, its parent and its two neighbours; five nodes hold a moved
  subtree with a child, both neighbours of its new place and the parent. Nothing in the code counts
  beyond neighbours, and the proofs cover every size.
* *Sink*: 4 nodes are the document, a parent and two children, which is where text merges on the wrong
  side, and the arena is full soon. The constraint of the run lets errors, modes and attributes vary on
  small trees only: no callback reads both.
* *Lifecycle*: one child is what the code spawns; each side has at most two messages outstanding,
  except a misbehaving child, and a longer queue would hold only more of what is read one at a time.
  Values that can be compared only for equality are two each, one right and one wrong.
* *Page load*: the window is longer than any tag of a page and shorter than a page, so that
  every kind of piece is cut by its end in some page; markup comes in threes of comments, quoted
  values, other tags and meta elements. Files are small, of exactly the cap, and one byte above it. Sheets: a
  head with three places for a style element, a link of any kind or a text, so one sheet fails between
  two that do not. Selectors: siblings with a text or a comment between them, three nested elements,
  each combinator and each way a node is asked for. One write and one second pass: a load sees one
  file, and a pass keeps nothing of the one before except the engine, which has then had one.
* *Layout*: all shapes, displays and texts of three nodes below html hold a block beside inline boxes, a
  nested inline box and a blank run between blocks. A body with two blocks that hold one
  each has every kind of gap (first, between, last) with a chain on each side. Margins are positive,
  negative and zero; sizes cross both clamps; the last family reaches `MaxAu`, where every
  addition saturates. Properties that compare exact sums exclude that family and are
  checked on the others (`Exact`).
* *Painting*: two fragments in a cycle below a clip, a shared child, and one more clip than the
  others; spans are inside, across either edge, at the margin's edge, beyond it, empty, and larger than
  everything; offsets of glyphs are below the margin, less half a pixel, since `round_px` rounds up to it.
  `MaxAu` is large enough that no such page reaches it; the saturating end is what the proofs are for.

Deadlock is checked for the arena, where some call is always possible, for
`Lifecycle` and `PageLoad`, whose rest states are an explicit action. It is not checked where the code
really stops: a sink's parse ends, and `layout`, `build` and `rasterize` return.

## Fairness

* `Document`: weak fairness of the reparenting loop only. A loop that is entered goes
  on; which calls a program makes is its own affair.
* `PaintBuild`: weak fairness of the walk, for the same reason.
* `Layout` and `PageLoad`: the thread that runs the stage goes on while it can (`Runs`). This is weak
  fairness of the next-state relation, written with the actions' guards in place of `ENABLED`,
  which TLC would evaluate in every state. Another program is under no obligation, nor is a
  caller to edit a document.
* `Lifecycle`: `Spec` asks weak fairness of the browser's thread and of its accept
  thread, which the operating system schedules; a call that blocks is not enabled. The
  child has none, since a child may hang: the code says it must survive that.
  `ChildRuns` adds weak fairness of the child's steps as a premise of the properties about a child that runs.
* `TreeSink`, `Raster` and `Painting`'s drawing state only safety.

## The proofs

TLAPS proves, for every capacity, alphabet, protocol version and width, for every
document, tree, list and file:

* **`DomLinksProofs`** - each link operator keeps `WellFormed`, the conjunction of local
  agreement (siblings name each other, ends are ends, a parent is right), no ring of
  siblings and no cycle of parents. Cycles are stated without recursion: no nonempty set of ids
  is closed under parent links. `ChildlessIsNoAncestor` justifies the shortcut in
  `check_attach`.
* **`DocumentProofs`** - `IndInv` is types, well-formed links, unlinked fresh slots and
  the moving target. The last one is needed because `reparent_children` tests for a
  cycle only on entry: that the target stays outside the subtree being emptied has to
  be carried from turn to turn, or the second move could not be shown safe. One lemma per action.
  `TypeCorrect`, `ArenaStaysWellFormed` and `MovesStayOutside` follow.
* **`DocumentProofs`, the refinement** - `ImplementsForest`: the arena implements `OrderedForest`.
  The mapping reads the children of a node as the sequence that is a chain of its links
  (`IsChain`), and well-formed links say only that there is at most one such chain. `ForestInv` therefore
  adds `HasChains`: every node has one. It is kept because each link operator
  edits chains as the forest edits sequences: `LinkLastChains` (append), `LinkBeforeChains`
  (insert), `UnlinkChains` (remove), `MoveFirstChains` (both at once). With them one
  lemma per action, each of which says that a call that the arena refuses is refused by the forest for
  the same reason (`VerdictAgrees`), and a turn of the reparenting loop is a turn of the forest's.
* **`DocumentProofs`, the iterators** - `IteratorsAgreeAlways`, from the same `ForestInv`. The walks are recursive
  functions that stop after as many turns as the arena has slots; each run is shown to exist (`Iterates`) and to be the only one
  by its least turn. `FollowYields`: a walk along a link yields the chain of it, so `children` is the child sequence
  of the forest and `ancestors` the way up, which ends because there is no cycle (`EveryNodeGoesUp`). For `descendants` the
  loop has an invariant of its own, `PopInv`: what is below the node was yielded or is under exactly one node of the stack
  (`Parted`), the stack holds earlier siblings above later ones (`InLine`), and what was yielded stands in document order
  (`InOrder`). That the cap ends no walk early is by counting: as long as the stack holds a node each
  turn yields another, and after as many turns as slots it would have yielded all nodes and one more (`DescendantsRunOut`).
* **`TreeSinkProofs`** - `TreeInv` is well-formedness for the sink, whose actions are guarded
  link operators, so the lemmas of `DomLinksProofs` do the work. On it rest the properties of what
  the tree holds: `DataInv` (slots not handed out hold no node, the document stays the document) for `FirstValueStays`;
  `DeliveredText` for `TextArrives`, under the condition of the property, an arena with room, and for
  `TextIsMerged`, which looks at the pairs of neighbours a delivery can have changed (`NoNewPair`);
  `DetachedOutside` for `FosterLands`, where a node is detached before the arena can refuse its new place.
* **`LifecycleProofs`** - `Custody` says where the handle of the child is at each point of `browser::run`:
  who still has to kill, whether it can have been reaped already. From it and types
  (`TypeCorrect`): nothing outlives its handle, and no signal goes to a reaped child (`ReapedOnce`).
  `AnswerComesFirst` says the first message to the child answers
  the hello and no other does; `QueueInv` adds that a verdict was given on
  the claims of the spawned child (`HandshakeIsSound`). `LastWord` says that `Shutdown` is the
  last message a child is sent, so a child that ran `child.rs` and has read it has read everything; `FailuresStop` that a
  fault other than a child of another program has taken the browser off the path to success: with all three, `SuccessProven`.
* **`PaintProofs`** - facts of the saturating arithmetic: the clip `build` emits passes
  the check it will meet, whatever the padding box; intersecting a clip on the canvas is
  exact. The assumption is that canvas and margins fit in an `Au`, far from the limit
  with the constants of the code. Also how `depth` and the clips open change with one more item, which
  both sides of painting use.
* **`PaintingProofs`** - three invariants of the walk, and what each is for.
  - `WalkInv`: the clips open are exactly as many as the ends on the stack. It holds for every tree,
    cycles and dangling ids included, and gives `ListsBalance`.
  - `ScopeInv`, for trees as layout builds them (`IsLaidOut`): a frame on the stack will be drawn below the
    clips that are left once every end above it has been taken, so `FramesInScope` speaks of the clips
    opened below that depth, at every place of the stack, and `DrawnInScope` of what is in the list.
    `ClipsAreScoped` needs both, and the shape of a tree: that one's own clip
    is not above oneself is shown by `NoRing`, which again takes a set closed under parents.
  - `PageInv`, for pages that can be drawn (`DrawablePage`: the canvas leaves room for the margins, and in every
    fragment the box holds its borders and box, runs and glyphs stay inside `Au`): no item of the list can be refused for its geometry. So a list is
    refused for its length or its depth of clips only (`OnlyLimitsRefuse`), and within those two limits
    it is accepted (`PagesAreDrawn`). The limits are a hypothesis since finding 2 is what happens above them.
* **`RasterProofs`** - for lists nobody built. `StackIsWhatIsOpen`: each level of the clip stack is the
  intersection of the clips open up to it, so popping one restores what was in force (`ClipsAreExact`).
  `CacheInv` counts the pairs of a cached mask and one of its bytes, which makes the byte budget a
  cardinality (`CacheIsAccounted`). `DrawsAreListed` follows from the first: a pixel changes only
  within every open clip, by the item at hand.
* **`PageProofs`** - how a page comes and what becomes of it, in three parts.
  - Whatever other programs write, replace or remove between any two calls of a load, in any number of writes and
    reads of any size, what it returns is not cut short and within the cap, and each byte stood at its place while the file was open
    (`LoadsAreUncut`); that the bytes stood there together holds of a file nobody wrote to in place, and of no other. `LoadKept` says where
    each byte read so far comes from. The read asks for one byte above the cap, so a verdict that is not too large
    is given at the file's own end, not at the limit: that is what `EndIsUncut` uses.
  - For every document and all computed values, the boxes are well formed at every step of the walk
    (`BoxesStayWellFormed`). `BoxesWellFormed` is not inductive: it counts the owners of a box, and neither says that
    a frame's own `built` has no box twice, nor what `finalize_kind` may still make of a frame. `BoxInv` says that no box is in two
    places, that each box is somewhere but for the one made last (the root, once the walk is over) and
    blank ones, and that an unfinished frame still has the kind of its style. The step that matters is
    `FinishBox`: `WrapSound` says what `wrap_inline_runs` may do with the children it is given - the
    wrappers share out inline children among themselves, the children left are the others and all
    wrappers, and what is in neither is blank - and `FinishFrame` that with it the boxes of the finished frame are
    handed over, none lost and none twice. `WrapIsSound` shows it of the code's runs by counting:
    `nth` numbers the wrappers in order, and two runs that start at different places have no child in common.
  - On a page laid out from any of the `Documents`, no box has a negative size and none that is not empty leaves the box around it
    (`BoxesNestAlways`). `BoxesNest` is not inductive for two reasons. It compares edges that saturate, and two boxes
    that nest so need not nest once both are moved, as every relatively positioned block moves all it holds. `Fits` compares the true
    edges instead: `inset` makes a box that fits (`InsetFits`), `add` keeps it so because saturation brings no two coordinates
    out of order nor further apart (`MovedFits`), and what fits is inside (`FitsIsInside`). And the sides that are cut off have to be
    non-negative, which is a property of the style of a box two walks earlier. `LayInv` therefore adds to `BoxInv` that every box and frame has a
    style as the adapter makes it (`StyleInv`, `GoodStyle`), that the box model of each open block comes from one (`GoodStack`), and that every
    margin that is remembered is an `Au`. Below it stand the functions of layout: lengths and box models (`ModelIsGood`), the chains of
    margins, whatever is remembered (`ChainIsGood`), the pieces of an inline box (`PiecesAreGood`), its lines however they are broken
    (`InlineLinesAreGood`), and their fragments (`AddedNest`).
    Recursive functions are taken as in `DocumentProofs`: what a step keeps is kept by any number of them (`Upwards`), and the function exists because
    each step does (`CanRepeat`).

A theorem whose hypothesis is more than `Spec` names the hypothesis: `DrawablePage` and
`WithinLimits` above, `IsLaidOut` within the property `ClipScope`; all states of `painting_pages` that the properties
speak of satisfy them. `BuildSpec`, `RasterSpec`, `FileSpec` and `BoxSpec` are the components on their own, with any
tree, list, files or document: the runs check them under a composition, whose steps are theirs.

Assumptions on constants are those of the modules that declare them, each evaluated by TLC in some run. Most bound a number
from below, as `CapacityAssumption` does. `ViewportAssumption` says the viewport has no negative side, `AdvanceAssumption` that no
glyph advances backwards. `DocumentAssumption` is what stylo guarantees of computed values: a length fits an `Au`, and no padding, border or minimum is
negative; the parser of CSS refuses the others.

Model-checked only:

* all liveness (`ReparentTerminates`, `SpawnReturns`, `ChildFollowsBrowser`,
  `CleanRunSucceeds`, `BuildReturns`, `LayoutReturns`, `PageIsServed`), which together with `ENABLED` is out
  of the prover's reach;
* what is defined by recursion over the data: the styles and dumps of `PageLoad`
  (`StylesAreTheCascade`, `SheetsInDocumentOrder`, `DumpShowsTheTree`), whose modules use `RECURSIVE` operators the prover cannot take;
* the other properties of `Layout`. Some (`FragmentsMirrorBoxes`, `SizesAsSpecified`, `TextIsDrawnOnce`) compare the page with recursive functions
  over the whole tree, `GapsAreCollapsedMargins` with the margins a walk collects;
* `PixelsAsMeant`, the ideal painter being a fold over the fragments, and `PrescanFindsDeclared`, whose reference
  definition reads a page by induction on its length.

## Findings

Four sentences in the sources do not hold of the code, and text in moved blocks is drawn in the wrong place; each has a run.

1. `browser::run` waits without a deadline after `Shutdown` (`lifecycle_hang`), against
   the rule that the browser never blocks unboundedly on a hung child.
2. A page with more than 256 nested `overflow: hidden` boxes makes a list that `validate` refuses as a whole
   (`paint_deep_clips`); `list.rs` says a list from `build` always passes the clip check.
3. A glyph run that starts beyond the margin is culled with glyphs that are on the
   canvas (`painting_long_run`); `build.rs` says culling drops only what nothing can see.
4. The gap between siblings is folded from two values, each perhaps the collapse of a chain
   (`layout_sibling_margins`): 5 and -3 above, -2 below give 0, the whole set gives 2. `block.rs` says that
   sibling collapsing only ever adjoins two margins and that a set must never be folded pairwise.
5. `position: relative` leaves text behind (`layout_relative_text`): `shift_fragment` moves the three boxes of
   every fragment in the block and no glyph run, whose origin is absolute and drawn as it is. `block.rs` says the
   offset applies to the whole subtree. The run shows it along x; along y the code is the same.

Others have no run:

* A percentage `max-height` in a block of unknown height is resolved against zero (`block.rs:819`): the box
  gets no height and its content overflows. `block.rs:790-793` and `SPEC_REGISTRY.md:35` claim CSS 2.1 10.7,
  where such a maximum counts as none. The model does as the code; no page of `layout_pages` has such
  a maximum, as `SizesAsSpecified` asks for the standard's.
* A box at 1 that saturates to a width of `Au::MAX` survives culling, which compares saturated edges, and
  is refused by `validate`, which compares checked ones; `build.rs:45-47` calls acceptance guaranteed. The pages of
  the runs stay inside `Au`.
* `Document::reparent_children`'s comment says both that `from == to` is a no-op and that it is rejected; in
  the code and in the model it is a no-op.
* In `build` and `find_element_fragment` an id that does not resolve uses up the walk's budget, so a tree
  with dangling ids may lose fragments that are well formed; the comments promise only a valid list.
* `style_adapt.rs` says `-moz-center` folds onto `Left`; the code maps it to `Center`, and so does the model.
* An empty content box may lie beyond its border box once padding saturates. It draws nothing.
* A blank text box that is dropped from between blocks stays in the box arena with no owner.

## What is not modelled

* Stylo, html5ever, parley, fontique, encoding_rs, swash, tiny-skia, ipc-channel and the operating system are
  external: what the code asks of them is an input, or a parameter as `Filled` and `render` are.
* `!important`, selector flags, the dirty bit and the count of pending children, which only stylo
  reads; the answers of the bridge that are constant (no shadow trees, no animations);
  `is_html_document_body_element`, which nothing but stylo asks for. Non-negative lengths are taken as stylo clamps them.
* How values are spelled in the dumps, and the dump of display lists: formatting.
* `fonts`: a map filled once; fontique selects. Fonts are known or unknown to layout and drawing.
* The reftest verdict, the command line, image files, telemetry, clocks and paths: straight-line
  code and I/O. Fuzz targets and scripts have no state.
* The cap on kept parse errors is in `TreeSink`, but no property is about it: what it promises is its own guard.
* A failing `kill` and a failing `try_wait`: the handle's own code ignores or returns the error and
  nothing in the system retries; `ChildProcess::kill` has no caller.
* Wall-clock time, back-pressure of the channel and threads that outlive a failed spawn: the binary spawns
  once, and a model with many children would need code that does not exist yet.
* Blending of colours and the shape of glyph masks; the four-sided order of borders.

## Plan

1. **Proofs**: the collapse of a set of margins, once `GapsAreCollapsedMargins` has a statement without a
   walk; lines stand in their block, from `LayInv` and the place each block hands its lines; `SheetsInDocumentOrder`,
   once the order of a document is stated by the forest's chains.
2. **Composition**: layout after the style pass and painting after layout, on the pages both
   can hold, in place of inputs of their own.
