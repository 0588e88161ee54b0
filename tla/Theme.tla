-------------------------------- MODULE Theme --------------------------------
(***************************************************************************)
(* How a theme is put together from its files (theme.rs, theme/input.rs    *)
(* and the overlay in theme_loader.rs): imports are parsed in place, within *)
(* a budget that the scene and a forced palette share.                     *)
(*                                                                         *)
(* A file is a sequence of comments and top-level nodes, each with one     *)
(* child at most; each counts as a byte.  Of the two axes of a surface     *)
(* this is the horizontal one.                                             *)
(***************************************************************************)
EXTENDS Integers, Sequences, FiniteSetsExt, SequencesExt, TLC

CONSTANTS Authors,         \* records: the files, the nodes they are written with, how many
                           \* at most, and the files that may be the forced palette
          FileBytes, TotalBytes, MaxImports, ImportDepth, MaxNodes

SceneFile == "scene"
NoFile == "none"

VARIABLES author,    \* who writes the theme
          source,    \* the files
          force,     \* the forced palette, or NoFile
          theme      \* what a load makes of them

themeVars == <<author, source, force, theme>>

Blocks == {"palette", "style", "scene", "anchor", "offset", "margin", "width"}

-----------------------------------------------------------------------------
(* The parser's accumulator, budget included.                              *)

NoSurface == [width |-> 1, anchor |-> "center", left |-> 0, right |-> 0]
Acc == [ok |-> TRUE, bytes |-> 0, imports |-> 0, syntax |-> 0, parsed |-> 0, seen |-> {},
        palette |-> <<>>, styles |-> <<>>, elements |-> <<>>, surface |-> NoSurface, imported |-> <<>>]
Refused(acc) == [acc EXCEPT !.ok = FALSE]

\* input::read: a regular UTF-8 file, not too large.
Readable(files, file) == /\ file \in DOMAIN files /\ Len(files[file]) <= FileBytes
                         /\ \A i \in DOMAIN files[file] : files[file][i].is # "binary"

\* The nodes of a top-level node; preflight counts what a slashdash hides.
NodesOf(node) == CASE node.is \in Blocks \cup {"ignored"} -> 2
                   [] node.is = "comment" -> 0
                   [] OTHER -> 1
ParsedOf(node) == IF node.is = "ignored" THEN 0 ELSE NodesOf(node)
NodesIn(nodes) == FoldLeft(LAMBDA n, node : n + NodesOf(node), 0, nodes)
ParsedIn(nodes) == FoldLeft(LAMBDA n, node : n + ParsedOf(node), 0, nodes)

\* LoadBudget::document
Document(acc, nodes) ==
  LET next == [acc EXCEPT !.bytes = @ + Len(nodes), !.syntax = @ + NodesIn(nodes),
                          !.parsed = @ + ParsedIn(nodes)]
  IN IF next.bytes > TotalBytes \/ next.syntax > MaxNodes \/ next.parsed > MaxNodes
     THEN Refused(next) ELSE next

Most(a, b) == IF a >= b THEN a ELSE b
ParseSurface(s, node) ==
  CASE node.is = "width"  -> [s EXCEPT !.width = node.to]
    [] node.is = "anchor" -> [s EXCEPT !.anchor = node.of]
    [] node.is = "margin" -> [s EXCEPT !.left = node.to, !.right = node.to]
    [] node.is = "offset" -> CASE s.anchor = "start" -> [s EXCEPT !.left = Most(node.to, 0)]
                               [] s.anchor = "end"   -> [s EXCEPT !.right = Most(0 - node.to, 0)]
                               [] OTHER -> s

\* One map's entry over another's.
Entry(node) == node.of :> node.to
\* parse_scene appends the element and sorts all of them again, stably.
ParseScene(elements, new) ==
  LET i == SelectInSeq(elements, LAMBDA e : e.z > new.z)
  IN IF i = 0 THEN Append(elements, new) ELSE InsertAt(elements, i, new)

RECURSIVE ParseInto(_, _, _, _)
ParseInto(files, acc, file, depth) ==
  LET Import(a, node) ==
        LET seen == [a EXCEPT !.seen = @ \cup {node.of}, !.imports = @ + 1]
        IN IF \/ node.of \notin DOMAIN files \/ node.of \in a.seen
              \/ seen.imports > MaxImports \/ depth >= ImportDepth \/ ~Readable(files, node.of)
           THEN Refused(seen)
           ELSE ParseInto(files, [seen EXCEPT !.imported = Append(@, node.of)], node.of, depth + 1)
      Node(a, i) ==
        LET node == files[file][i]
        IN CASE ~a.ok -> a
             [] a.ok /\ node.is = "import" -> Import(a, node)
             [] a.ok /\ node.is = "palette" -> [a EXCEPT !.palette = Entry(node) @@ @]
             [] a.ok /\ node.is = "style" -> [a EXCEPT !.styles = Append(@, node)]
             [] a.ok /\ node.is = "scene" ->
                  [a EXCEPT !.elements = ParseScene(@, [z |-> node.of, file |-> file, at |-> i])]
             [] a.ok /\ node.is \in {"width", "anchor", "margin", "offset"} ->
                  [a EXCEPT !.surface = ParseSurface(@, node)]
             [] a.ok /\ node.is \in {"ignored", "comment"} -> a
             [] OTHER -> Refused(a)
  IN FoldLeft(Node, Document(acc, files[file]), [i \in DOMAIN files[file] |-> i])

\* LoadBudget::load; the budget goes on, all else starts anew.
LoadFile(files, file, budget) ==
  LET acc == [Acc EXCEPT !.bytes = budget.bytes, !.imports = budget.imports,
                         !.syntax = budget.syntax, !.parsed = budget.parsed]
      parsed == ParseInto(files, acc, file, 0)
  IN IF ~Readable(files, file) \/ parsed.surface.width = 0 THEN Refused(acc) ELSE parsed

\* What a list has already is not appended again.
Joined(list, more) == FoldLeft(LAMBDA l, x : IF Contains(l, x) THEN l ELSE Append(l, x), list, more)

\* Styles of the overlay take the place of the first of their name.
Overrides(styles, more) ==
  FoldLeft(LAMBDA l, s : LET i == SelectInSeq(l, LAMBDA x : x.of = s.of)
                         IN IF i = 0 THEN Append(l, s) ELSE [l EXCEPT ![i] = s], styles, more)

ApplyForcePalette_Shallow(files, t, file) ==      \* mutant: the overlay's imports are not watched
  LET overlay == LoadFile(files, file, t)
  IN IF ~overlay.ok THEN Refused(t)
     ELSE [t EXCEPT !.palette = overlay.palette @@ @, !.styles = Overrides(@, overlay.styles),
                        !.imported = Joined(@, <<file>>)]
ApplyForcePalette(files, t, file) ==
  LET overlay == LoadFile(files, file, t)
  IN IF ~overlay.ok THEN Refused(t)
     ELSE [t EXCEPT !.palette = overlay.palette @@ @, !.styles = Overrides(@, overlay.styles),
                        !.imported = Joined(@, <<file>> \o overlay.imported)]

\* theme_loader::load
LoadTheme(files) ==
  LET scene == LoadFile(files, SceneFile, Acc)
  IN IF scene.ok /\ force # NoFile THEN ApplyForcePalette(files, scene, force) ELSE scene

WatchPaths(t) == <<SceneFile>> \o t.imported

\* apply_style: what the first style of this name sets, if there is one.
ApplyStyle(t, name) ==
  LET i == SelectInSeq(t.styles, LAMBDA s : s.of = name)
  IN IF i = 0 THEN {} ELSE {t.styles[i].to}

-----------------------------------------------------------------------------
(* The theme's author.                                                     *)

ThemeInit == /\ author \in Authors
             /\ source = [f \in author.files |-> <<>>]
             /\ force \in author.overlays
             /\ theme = LoadTheme(source)

\* A node is added to a file and the theme loaded.
Declare(file, node) ==
  /\ FoldSet(LAMBDA f, n : n + Len(source[f]), 0, DOMAIN source) < author.max
  /\ LET files == [source EXCEPT ![file] = Append(@, node)]
     IN source' = files /\ theme' = LoadTheme(files)
  /\ UNCHANGED <<author, force>>

ThemeNext == \E file \in DOMAIN source, node \in author.nodes : Declare(file, node)

ThemeSpec == ThemeInit /\ [][ThemeNext]_themeVars

-----------------------------------------------------------------------------
(* A theme as its text with every import replaced by what it imports.  A   *)
(* place is where a node stands: the imports on the way to its file, and   *)
(* its position there, all of them numbers of nodes.                       *)

Reached(root, way) == FoldLeft(LAMBDA f, i : source[f][i].of, root, way)
NodeAt(root, place) == source[Reached(root, Front(place))][Last(place)]
Inner(root, way) == LET file == Reached(root, way)
                    IN IF file \in DOMAIN source THEN {Append(way, i) : i \in DOMAIN source[file]} ELSE {}

\* The ways to files, no longer than one import more than is allowed.
Ways(root) ==
  LET level[n \in 0..(ImportDepth + 1)] ==
        IF n = 0 THEN {<<>>}
        ELSE {p \in UNION {Inner(root, w) : w \in level[n - 1]} : NodeAt(root, p).is = "import"}
  IN UNION {level[n] : n \in 0..(ImportDepth + 1)}

Places(root, is) == {p \in UNION {Inner(root, w) : w \in Ways(root)} : NodeAt(root, p).is = is}

Before(p, q) == \/ IsStrictPrefix(p, q)
                \/ \E i \in DOMAIN p \cap DOMAIN q : p[i] < q[i] /\ \A j \in 1..(i - 1) : p[j] = q[j]
Latest(places) == {p \in places : ~\E q \in places : Before(p, q)}
Earliest(places) == {p \in places : ~\E q \in places : Before(q, p)}
Said(root, places) == {NodeAt(root, p).to : p \in places}
Named(root, is, name) == {p \in Places(root, is) : NodeAt(root, p).of = name}

Roots == IF force = NoFile THEN <<SceneFile>> ELSE <<SceneFile, force>>
Sums(count(_)) == FoldLeft(LAMBDA n, r : n + MapThenSumSet(LAMBDA w : count(Reached(r, w)), Ways(r)), 0, Roots)

\* No file twice, none too deep, none broken, and not too much in all.
Sound(root) ==
  /\ \A w \in Ways(root) : Len(w) <= ImportDepth /\ Readable(source, Reached(root, w))
  /\ \A v, w \in Ways(root) \ {<<>>} : Reached(root, v) = Reached(root, w) => v = w
  /\ Places(root, "unknown") = {}
  /\ Said(root, Latest(Places(root, "width"))) # {0}
Affordable ==
  /\ Sums(LAMBDA f : Len(source[f])) <= TotalBytes
  /\ Sums(LAMBDA f : NodesIn(source[f])) <= MaxNodes
  /\ Sums(LAMBDA f : 1) - Len(Roots) <= MaxImports

\* What the last node that sets an edge sets it to; an offset is measured from
\* the anchor declared before it.
Edge(root, edge) ==
  LET anchors(p) == Latest({a \in Places(root, "anchor") : Before(a, p)})
      sets == Places(root, "margin") \cup
              {p \in Places(root, "offset") : \E a \in anchors(p) : NodeAt(root, a).of = edge}
      last == CHOOSE p \in Latest(sets) : TRUE
      to == NodeAt(root, last).to
  IN IF sets = {} THEN 0
     ELSE IF NodeAt(root, last).is = "margin" THEN to
     ELSE Most(IF edge = "start" THEN to ELSE 0 - to, 0)

\* A theme loads exactly if its files can be put together, within the limits
\* on scene and forced palette together; then its colours are the last ones
\* declared, its elements in order of z and then of the text, its edges what
\* the last node for each says, the forced palette has the last word, and the
\* files to watch are those that were read.  The first style of a name counts,
\* in the forced palette the last.
ThemesAgree ==
  LET names == {n.of : n \in {x \in author.nodes : x.is \in {"palette", "style"}}}
      from == [x \in {theme.elements[i] : i \in DOMAIN theme.elements} |->
                 CHOOSE p \in Places(SceneFile, "scene") :
                   Reached(SceneFile, Front(p)) = x.file /\ Last(p) = x.at]
      Over(is, name) == IF force = NoFile THEN {} ELSE Said(force, Latest(Named(force, is, name)))
      Colours(name) == IF Over("palette", name) # {} THEN Over("palette", name)
                       ELSE Said(SceneFile, Latest(Named(SceneFile, "palette", name)))
      Styles(name) == IF Over("style", name) # {} THEN Over("style", name)
                      ELSE Said(SceneFile, Earliest(Named(SceneFile, "style", name)))
  IN /\ theme.ok = ((\A r \in ToSet(Roots) : Sound(r)) /\ Affordable)
     /\ theme.ok =>
          /\ \A name \in names :
               /\ Colours(name) = IF name \in DOMAIN theme.palette THEN {theme.palette[name]} ELSE {}
               /\ Styles(name) = ApplyStyle(theme, name)
          /\ Len(theme.elements) = Cardinality(Places(SceneFile, "scene"))
          /\ \A i, j \in DOMAIN theme.elements : i < j =>
               LET d == theme.elements[i]
                   e == theme.elements[j]
               IN d.z < e.z \/ (d.z = e.z /\ Before(from[d], from[e]))
          /\ theme.surface.left = Edge(SceneFile, "start")
          /\ theme.surface.right = Edge(SceneFile, "end")
          /\ ToSet(WatchPaths(theme)) = UNION {{Reached(r, w) : w \in Ways(r)} : r \in ToSet(Roots)}

\* "Same rule applies to styles blocks: later declarations win"
\* (docs/docs/themes.md), of the declarations of one theme.
LaterStylesWin ==
  theme.ok /\ force = NoFile =>
    \A p \in Places(SceneFile, "style") :
      LET name == NodeAt(SceneFile, p).of
      IN Said(SceneFile, Latest(Named(SceneFile, "style", name))) = ApplyStyle(theme, name)
=============================================================================
