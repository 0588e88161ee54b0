------------------------------ MODULE Renderer ------------------------------
(***************************************************************************)
(* The renderer of the Wayland thread (render.rs) and what it keeps from   *)
(* one frame to the next: icons, shadow masks and shaped labels in queues  *)
(* that drop what was used longest ago, the picture of the background, a   *)
(* buffer of the frame's size, the glyphs of the font renderer.            *)
(*                                                                         *)
(* A picture is the sequence of what was drawn into it.  An element is a   *)
(* record: what it `is`, its order z, its size w, where its drawing fails  *)
(* (an expression or an allocation: "no", "early", "late") and what else   *)
(* its kind uses.                                                          *)
(***************************************************************************)
EXTENDS Integers, Sequences, FiniteSets, SequencesExt

CONSTANTS Themes,          \* records: size, scene (a sequence of elements), dir
          Values,          \* bindings of a send, the palette among them
          Times,           \* time since the OSD is shown, 0 if it does not count
          IconFiles,       \* <<directory, name>> of the files of icons
          Contents,        \* what such a file may hold
          MaxEdits,        \* changes of these files (a bound)
          MaxAxis,         \* limits::MAX_AXIS
          IconBytes, IconEntries, MaskBytes, MaskEntries,
          LayoutBytes, LayoutEntries, LabelBytes, GlyphEntries, BackgroundBytes

Absent == 0
Broken == -1
NoDir == "none"
System == "system"
Fallback == "image-missing"

Element == [is : {"rect", "bar", "text", "image"}, z : Int, w : Nat, radius : Nat, blur : Nat,
            what : STRING, colour : STRING, animated : BOOLEAN, fails : {"no", "early", "late"}]

\* The limits are constants of the program, of one entry and more.
ASSUME RendererAssumption ==
  /\ \A theme \in Themes : theme.size \in Nat /\ theme.scene \in Seq(Element)
  /\ {MaxAxis, IconBytes, MaskBytes, LayoutBytes, LabelBytes, GlyphEntries, BackgroundBytes} \subseteq Nat
  /\ {IconEntries, MaskEntries, LayoutEntries} \subseteq Nat \ {0}

VARIABLES
  disk,      \* per icon file: Absent, Broken or a version of it
  edits,     \* changes of the files so far
  edited,    \* a file has changed since the icons were last dropped (a note)
  showing,   \* the theme on display and the bindings it was sent with
  renderer   \* the Renderer

rendererVars == <<disk, edits, edited, showing, renderer>>

EmptyQueue == [entries |-> <<>>, bytes |-> 0]
NoBackground == [rect |-> [w |-> 0], size |-> 0, picture |-> <<>>]

New == [dir |-> NoDir, icons |-> EmptyQueue, masks |-> EmptyQueue, layouts |-> EmptyQueue,
        transient |-> {}, background |-> NoBackground, fonts |-> FALSE, glyphs |-> {},
        frame |-> [size |-> 0, picture |-> <<>>], ok |-> TRUE]

-----------------------------------------------------------------------------
(* The queues.                                                             *)

Position(q, key) == SelectInSeq(q.entries, LAMBDA e : e.key = key)
BytesOf(entries) ==
  LET upTo[n \in 0..Len(entries)] == IF n = 0 THEN 0 ELSE upTo[n - 1] + entries[n].bytes
  IN upTo[Len(entries)]

\* Take an entry out and put it back behind the others.
Promoted(q, i) == [q EXCEPT !.entries = Append(RemoveAt(@, i), @[i])]

\* The oldest entries go until the new one fits.
Pushed(q, entry, maxBytes, maxEntries) ==
  LET Left(n) == q.bytes - BytesOf(SubSeq(q.entries, 1, n))
      Fits(n) == Left(n) + entry.bytes <= maxBytes /\ Len(q.entries) - n < maxEntries
      gone == CHOOSE n \in 0..Len(q.entries) : Fits(n) /\ \A k \in 0..(n - 1) : ~Fits(k)
  IN [entries |-> Append(SubSeq(q.entries, gone + 1, Len(q.entries)), entry),
      bytes |-> Left(gone) + entry.bytes]

Pixels(w, h) == w \in 1..MaxAxis /\ h \in 1..MaxAxis

-----------------------------------------------------------------------------
(* Icons.                                                                  *)

Exists(dir, name) == <<dir, name>> \in IconFiles /\ disk[<<dir, name>>] # Absent
\* The theme's own icons come before those of the system.
Find(r, name) == IF r.dir # NoDir /\ Exists(r.dir, name) THEN {<<r.dir, name>>}
                 ELSE IF Exists(System, name) THEN {<<System, name>>} ELSE {}
Symbolic(path) == path[1] = System

NoImage == [image |-> <<>>, symbolic |-> FALSE]
Path(path, w) == IF disk[path] = Broken THEN NoImage
                 ELSE [image |-> <<path, disk[path], w>>, symbolic |-> Symbolic(path)]

\* rasterise_with_meta: an icon that is found and broken fails; one that is
\* not found gives way to the fallback's, and a missing or broken one of that
\* to the embedded picture.
Rasterise(r, name, w) ==
  LET found == Find(r, name)
      spare == UNION {IF Path(p, w) = NoImage THEN {} ELSE {Path(p, w).image} : p \in Find(r, Fallback)}
      other == IF name = Fallback THEN {} ELSE spare
  IN IF found # {} THEN Path(CHOOSE p \in found : TRUE, w)
     ELSE [image |-> IF other = {} THEN <<"embedded", w>> ELSE CHOOSE i \in other : TRUE,
           symbolic |-> TRUE]

\* resolve_with_meta, insert_cache: what fails is not kept, nor what is too large.
ResolveIcon(r, name, w) ==
  LET i == Position(r.icons, <<name, w>>)
      made == Rasterise(r, name, w)
      entry == [key |-> <<name, w>>, bytes |-> w, of |-> made]
  IN IF name = "" \/ ~Pixels(w, w) THEN [to |-> r, got |-> NoImage]
     ELSE IF i # 0 THEN [to |-> [r EXCEPT !.icons = Promoted(@, i)], got |-> r.icons.entries[i].of]
     ELSE [to |-> IF made = NoImage \/ w > IconBytes THEN r
                  ELSE [r EXCEPT !.icons = Pushed(@, entry, IconBytes, IconEntries)],
           got |-> made]

SetThemeDir(r, dir) == IF dir = r.dir THEN r ELSE [r EXCEPT !.dir = dir, !.icons = EmptyQueue]

-----------------------------------------------------------------------------
(* The elements.                                                           *)

Draws(r, layer) == [r EXCEPT !.frame.picture = Append(@, layer)]
Failed(r) == [r EXCEPT !.ok = FALSE]
Bound(what, value) == IF what = "$value" THEN value ELSE what

\* element_alpha_mul: 1 is an element as it is.
Alpha(e, time) == IF e.animated /\ time # 0 THEN time ELSE 1

DrawImage(r, e, value, alpha) ==
  LET icon == ResolveIcon(r, Bound(e.what, value), e.w)
      tint == IF e.colour = "auto" THEN "none"
              ELSE IF e.colour = "unset" THEN (IF icon.got.symbolic THEN value ELSE "none")
              ELSE Bound(e.colour, value)
  IN IF e.fails # "no" THEN Failed(r)
     ELSE Draws(icon.to, IF icon.got = NoImage THEN <<"placeholder", e.w, value, alpha>>
                         ELSE <<"icon", icon.got.image, tint, alpha>>)

\* A mask is computed once; one that is too large to keep is held for this use.
Mask(r, rect) ==
  LET key == <<rect.w, rect.radius, rect.blur>>
      bytes == rect.w + 2 * rect.blur
      i == Position(r.masks, key)
  IN IF i # 0 THEN [r EXCEPT !.masks = Promoted(@, i)]
     ELSE IF ~Pixels(bytes, bytes) THEN Failed(r)
     ELSE IF bytes > MaskBytes THEN [r EXCEPT !.transient = {key}]
     ELSE [r EXCEPT !.masks = Pushed(@, [key |-> key, bytes |-> bytes], MaskBytes, MaskEntries)]

Resolve(e, value, alpha) == [w |-> e.w, radius |-> e.radius, fill |-> Bound(e.what, value),
                             blur |-> e.blur, alpha |-> alpha]

\* draw_resolved_rect, draw_shadow; the transient mask is released after use.
DrawResolved(r, rect) ==
  LET shadowed == IF rect.blur = 0 THEN r ELSE Mask([r EXCEPT !.transient = {}], rect)
      under == IF rect.blur = 0 THEN shadowed
               ELSE Draws([shadowed EXCEPT !.transient = {}], <<"shadow", rect.w, rect.radius, rect.blur>>)
  IN IF ~shadowed.ok THEN shadowed
     ELSE Draws(under, <<"rect", rect.w, rect.radius, rect.fill, rect.alpha>>)

DrawRect(r, e, value, alpha) ==
  IF e.fails # "no" THEN Failed(r) ELSE DrawResolved(r, Resolve(e, value, alpha))

\* Whether the kept background is the one to draw.
Usable_AnySize(r, rect) ==                 \* mutant: whatever the frame's size was
  r.background.rect = rect
Usable(r, rect) == r.background.rect = rect /\ r.background.size = r.frame.size

\* The first element, if it is a rectangle that is not animated: its picture
\* is kept, unless it is cheap to draw or too large to keep.
DrawBackground(r, e, value) ==
  LET rect == Resolve(e, value, 1)
      cacheable == (rect.radius > 0 \/ rect.blur > 0) /\ r.frame.size <= BackgroundBytes
      drawn == DrawResolved(r, rect)
  IN IF e.fails # "no" THEN Failed(r)
     ELSE IF cacheable /\ r.background # NoBackground /\ Usable(r, rect)
          THEN [r EXCEPT !.frame = [size |-> r.background.size, picture |-> r.background.picture]]
     ELSE IF ~drawn.ok THEN drawn
     ELSE [drawn EXCEPT !.background = IF cacheable THEN [rect |-> rect, size |-> r.frame.size,
                                                          picture |-> drawn.frame.picture]
                                       ELSE NoBackground]

\* LayoutCache::take and insert: a layout is out of the queue while it is
\* drawn, and lost if that fails.  The size of an element stands for its font.
TakeLayout_KeepsBytes(q, i) ==             \* mutant: its bytes still count
  IF i = 0 THEN q ELSE [q EXCEPT !.entries = RemoveAt(@, i)]
TakeLayout(q, i) ==
  IF i = 0 THEN q ELSE [entries |-> RemoveAt(q.entries, i), bytes |-> q.bytes - q.entries[i].bytes]
InsertLayout(q, label, font) ==
  IF font > LabelBytes \/ font + 1 > LayoutBytes THEN q
  ELSE Pushed(q, [key |-> <<label, font>>, bytes |-> font + 1], LayoutBytes, LayoutEntries)

DrawText(r, e, value, alpha) ==
  LET label == Bound(e.what, value)
      i == Position(r.layouts, <<label, e.w>>)
      glyphs == r.glyphs \cup {label}
      taken == [r EXCEPT !.fonts = TRUE, !.layouts = TakeLayout(@, i)]
  IN IF e.fails = "early" THEN Failed(r)
     ELSE IF label = "" THEN r
     ELSE IF e.fails = "late" THEN Failed(taken)
     ELSE Draws([taken EXCEPT !.glyphs = IF Cardinality(glyphs) > GlyphEntries THEN {} ELSE glyphs,
                              !.layouts = InsertLayout(@, label, e.w)],
                <<"text", IF i = 0 THEN <<label, e.w>> ELSE r.layouts.entries[i].key, value, alpha>>)

\* A bar: cells, the last of them partly filled, or a filled part and over it
\* what has been gained since the last value.
DrawBar(r, e, value, alpha) ==
  LET filled == <<"bar", e.w, value, alpha>>
  IN IF e.fails # "no" THEN Failed(r)
     ELSE IF e.what = "cells" THEN Draws(r, <<"cells", e.w, value>>)
     ELSE IF e.what = "gains" THEN Draws(Draws(r, filled), <<"gain", e.w, value, alpha>>)
     ELSE Draws(r, filled)

DrawElement(r, e, value, alpha) ==
  CASE e.is = "rect"  -> DrawRect(r, e, value, alpha)
    [] e.is = "bar"   -> DrawBar(r, e, value, alpha)
    [] e.is = "text"  -> DrawText(r, e, value, alpha)
    [] e.is = "image" -> DrawImage(r, e, value, alpha)

-----------------------------------------------------------------------------
(* The frame.                                                              *)

\* The n-th element to draw has n - 1 below it, those before it in the theme
\* among its equals.
Order(scene) ==
  LET Under(i) == {j \in DOMAIN scene : \/ scene[j].z < scene[i].z
                                        \/ scene[j].z = scene[i].z /\ j < i}
  IN [n \in DOMAIN scene |-> CHOOSE i \in DOMAIN scene : Cardinality(Under(i)) = n - 1]

DrawNth(r, e, n, value, time) ==
  LET kept == n > 1 \/ (e.is = "rect" /\ ~e.animated)
  IN IF ~r.ok THEN r
     ELSE IF n = 1 /\ kept THEN DrawBackground(r, e, value)
     ELSE DrawElement(IF kept THEN r ELSE [r EXCEPT !.background = NoBackground], e, value, Alpha(e, time))

\* draw_frame: the buffer is cleared first; an empty scene forgets the background.
DrawFrame(r, theme, value, time) ==
  LET clear == [r EXCEPT !.frame = [size |-> theme.size, picture |-> <<>>], !.ok = TRUE,
                         !.background = IF theme.scene = <<>> THEN NoBackground ELSE @]
      order == Order(theme.scene)
      drawn[n \in 0..Len(theme.scene)] ==
        IF n = 0 THEN clear ELSE DrawNth(drawn[n - 1], theme.scene[order[n]], n, value, time)
  IN drawn[Len(theme.scene)]

\* render_cached
RenderCached(r, theme, value, time) ==
  IF Pixels(theme.size, theme.size) THEN DrawFrame(r, theme, value, time) ELSE Failed(r)

PrepareTheme(r, theme) ==
  [r EXCEPT !.fonts = @ \/ \E i \in DOMAIN theme.scene : theme.scene[i].is = "text"]

InvalidateCaches(r) == [r EXCEPT !.icons = EmptyQueue, !.masks = EmptyQueue, !.transient = {},
                                 !.glyphs = {}, !.layouts = EmptyQueue, !.background = NoBackground]

-----------------------------------------------------------------------------
(* The Wayland thread's calls, and the user who edits icons.               *)

Nothing == [theme |-> CHOOSE t \in Themes : TRUE, value |-> "none"]

RendererInit == /\ disk \in [IconFiles -> {1}]
                /\ edits = 0 /\ edited = FALSE
                /\ showing = Nothing
                /\ renderer = New

Edit(path, content) ==
  /\ edits < MaxEdits /\ disk[path] # content
  /\ disk' = [disk EXCEPT ![path] = content]
  /\ edits' = edits + 1 /\ edited' = TRUE
  /\ UNCHANGED <<showing, renderer>>

\* queue_render
Show(theme, value) ==
  /\ showing' = [theme |-> theme, value |-> value]
  /\ renderer' = SetThemeDir(PrepareTheme(renderer, theme), theme.dir)
  /\ edited' = (edited /\ theme.dir = renderer.dir)
  /\ UNCHANGED <<disk, edits>>

\* retheme
Retheme(theme) ==
  /\ renderer' = SetThemeDir(PrepareTheme(InvalidateCaches(renderer), theme), theme.dir)
  /\ showing' = IF showing = Nothing THEN Nothing ELSE [showing EXCEPT !.theme = theme]
  /\ edited' = FALSE
  /\ UNCHANGED <<disk, edits>>

\* tick, when the cycle is over
Hide == /\ showing # Nothing
        /\ showing' = Nothing
        /\ UNCHANGED <<disk, edits, edited, renderer>>

\* draw
Draw(time) ==
  /\ showing # Nothing
  /\ UNCHANGED <<disk, edits, edited, showing>>
  /\ renderer' = RenderCached(renderer, showing.theme, showing.value, time)

RendererNext ==
  \/ \E path \in IconFiles, content \in Contents \cup {Absent} : Edit(path, content)
  \/ \E theme \in Themes : Retheme(theme) \/ (\E value \in Values : Show(theme, value))
  \/ Hide
  \/ \E time \in Times : Draw(time)

RendererSpec == RendererInit /\ [][RendererNext]_rendererVars

-----------------------------------------------------------------------------
\* A picture without the contents of its icons.
Outline(picture) ==
  [i \in DOMAIN picture |-> IF picture[i][1] \in {"icon", "placeholder"} THEN <<"icon">> ELSE picture[i]]

\* Whatever the renderer has kept from other frames, themes, sizes and
\* failures, a frame comes out as a new renderer would draw it, or fails as
\* it would; only icons may be older than their files, and not beyond the
\* next theme change.
FramesAgree ==
  [][\A time \in Times :
       Draw(time) =>
         LET mine == renderer'
             new  == RenderCached([New EXCEPT !.dir = renderer.dir], showing.theme, showing.value, time)
         IN /\ mine.ok = new.ok
            /\ mine.ok => mine.frame.size = new.frame.size
            /\ mine.ok => Outline(mine.frame.picture) = Outline(new.frame.picture)
            /\ mine.ok /\ ~edited => mine.frame.picture = new.frame.picture]_rendererVars

\* Each queue's account is what its entries come to (the loop that makes room
\* would not end otherwise), within its limits, with one entry for a key; no
\* mask outlives its use, and the glyphs stay within theirs.
QueuesAccounted ==
  LET Sound(q, maxBytes, maxEntries) ==
        /\ q.bytes = BytesOf(q.entries) /\ q.bytes <= maxBytes /\ Len(q.entries) <= maxEntries
        /\ \A i, j \in DOMAIN q.entries : q.entries[i].key = q.entries[j].key => i = j
  IN /\ Sound(renderer.icons, IconBytes, IconEntries)
     /\ Sound(renderer.masks, MaskBytes, MaskEntries)
     /\ Sound(renderer.layouts, LayoutBytes, LayoutEntries)
     /\ renderer.transient = {}
     /\ Cardinality(renderer.glyphs) <= GlyphEntries
=============================================================================
