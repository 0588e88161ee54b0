----------------------------- MODULE MCCore -------------------------------
(* Seven scenes: backgrounds that may be kept or not, in frames of several *)
(* sizes, labels and masks within and beyond what is kept, drawings that   *)
(* fail early and late, a scene that is empty and a surface too large.     *)
(* Four sets of tokens, and six authors who each write one part of themes. *)
EXTENDS Core

E == [is |-> "rect", z |-> 0, w |-> 1, radius |-> 0, blur |-> 0, what |-> "$value", colour |-> "unset",
      animated |-> FALSE, fails |-> "no"]
Text(what) == [E EXCEPT !.is = "text", !.z = 1, !.what = what]
Image(what, w) == [E EXCEPT !.is = "image", !.z = 1, !.what = what, !.w = w]
Bar(what) == [E EXCEPT !.is = "bar", !.z = 2, !.what = what]
Card == [E EXCEPT !.radius = 1, !.blur = 1]

MCThemes ==
  {[size |-> 2, dir |-> "own", scene |-> <<Image("a", 1), Card, Text("$value")>>],
   [size |-> 3, dir |-> "own", scene |-> <<Card, [Text("x") EXCEPT !.w = 3], Image("$value", 2), Text("x")>>],
   [size |-> 2, dir |-> "other", scene |-> <<[Text("x") EXCEPT !.fails = "late"], [E EXCEPT !.animated = TRUE]>>],
   [size |-> 2, dir |-> NoDir, scene |-> <<Bar("cells"), [E EXCEPT !.blur = 2], Bar("gains"), Text("")>>],
   [size |-> 2, dir |-> "other", scene |-> <<Card, [Card EXCEPT !.z = 1, !.blur = 3]>>],
   [size |-> 2, dir |-> "other", scene |-> <<>>],
   [size |-> 7, dir |-> NoDir, scene |-> <<Card>>]}
MCContents == {1, Broken}
MCIconFiles == {<<"own", "a">>, <<System, "a">>, <<System, Fallback>>}

MCAlphabets ==
  {[tokens |-> {"0", "nan", "-", "!", "*", "/", "<", "+"}, max |-> 7],
   [tokens |-> {"1", "-", "==", "?", ":", "??", "(", ")"}, max |-> 8],
   [tokens |-> {"0", "1", "$v", "nan", "clamp", "(", ")", ","}, max |-> 8],
   [tokens |-> {"$v", "s", "1", "+", "??", "?", ":", "%", "lerp", "(", ")", ">="}, max |-> 5]}
Import(f) == [is |-> "import", of |-> f, to |-> 0]
Declared(is, of, to) == [is |-> is, of |-> of, to |-> to]
Author(files, overlays, max, nodes) == [files |-> files, overlays |-> overlays, max |-> max, nodes |-> nodes]
MCAuthors ==
  {Author({"scene", "a", "b"}, {"none", "scene", "b"}, 4,
          {Import("a"), Import("b"), Declared("palette", "k", 1), Declared("palette", "k", 2)}),
   Author({"scene", "a", "b"}, {"none", "a"}, 4,
          {Import("a"), Import("b"), Declared("style", "k", 1), Declared("style", "k", 2)}),
   Author({"scene", "a", "b"}, {"b"}, 4,
          {Import("a"), Declared("scene", 0, 0), Declared("scene", 1, 0), Import("scene")}),
   Author({"scene", "a"}, {"a"}, 4,
          {Import("a"), Declared("margin", 0, 2), Declared("width", 0, 0), Declared("width", 0, 1)} \cup
          {Declared("anchor", e, 0) : e \in {"start", "end"}} \cup {Declared("offset", 0, x) : x \in {1, -1}}),
   Author({"scene", "a", "b", "c"}, {"none", "c"}, 4,
          {Import("a"), Import("b"), Import("c"), Declared("palette", "k", 1)}),
   Author({"scene", "a"}, {"none", "a"}, 4,
          {Import("a"), Import("missing")} \cup {Declared(is, 0, 0) : is \in {"unknown", "ignored", "comment", "binary"}})}

MCVars == {Null, Number(1), String("nan"), Bool(FALSE)}
=============================================================================
