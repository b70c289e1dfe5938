--------------------------- MODULE MCDatasetScan ---------------------------
(* Small directories of both formats, and some with as many pictures as    *)
(* the statistical checks ask for.                                         *)
EXTENDS DatasetScan

File(d, s) == [dir |-> d, stem |-> s]
Train == <<"train">>
Valid == <<"valid">>

Empty == [manifests |-> <<>>, images |-> <<>>, labels |-> <<>>, yaml |-> NoYaml]

(* COCO *)
Plain(images, annotations, names, who) ==
  [readable |-> TRUE, keys |-> {"images", "annotations", "categories"}, complete |-> TRUE,
   images |-> images, annotations |-> annotations, names |-> names, contributor |-> who]
Entry(i, f) == [id |-> i, file |-> f, sized |-> TRUE]
Ann(i, c) == [image |-> i, cat |-> c, box |-> "ok", fits |-> TRUE]

One == Plain({Entry(1, "a")}, {Ann(1, 0)}, 0 :> "cat", NoContributor)
Two == Plain({Entry(1, "b")}, {Ann(1, 0)}, 0 :> "dog", "carol")
Both == Plain({Entry(1, "a"), Entry(2, "b")}, {Ann(1, 1), Ann(2, 0)}, (0 :> "cat") @@ (1 :> "dog"), "dave")
Odd ==
  {[One EXCEPT !.readable = FALSE], [One EXCEPT !.keys = @ \ {"annotations"}], [One EXCEPT !.complete = FALSE],
   [One EXCEPT !.images = @ \cup {Entry(1, "b")}], [One EXCEPT !.annotations = {Ann(9, 0)}],
   [One EXCEPT !.annotations = {Ann(1, 9)}], [One EXCEPT !.annotations = {}],
   [One EXCEPT !.images = {}, !.annotations = {}], [One EXCEPT !.images = {[id |-> 1, file |-> "a", sized |-> FALSE]}]}
  \cup {[One EXCEPT !.annotations = {[image |-> 1, cat |-> 0, box |-> b, fits |-> TRUE]}] :
          b \in {"flat", "malformed", "negative", "none"}}
  \cup {[One EXCEPT !.annotations = {[image |-> 1, cat |-> 0, box |-> "ok", fits |-> FALSE]}]}

Place(d, std, tag) == [dir |-> d, std |-> std, nr |-> 1, tag |-> tag]
Second(p) == [p EXCEPT !.nr = 2]
Places == {Place(Train, FALSE, NoSplit), Place(Valid, TRUE, "valid"), Place(<<"annotations">>, TRUE, "train"),
           Place(<<"annotations">>, FALSE, "val"), Place(<<>>, FALSE, NoSplit), Place(<<>>, TRUE, "train"),
           Second(Place(Train, FALSE, NoSplit)), Second(Place(<<"annotations">>, TRUE, "val"))}
CocoImages ==
  {(File(Train, "a") :> "p0") @@ (File(Valid, "a") :> "p1") @@ (File(Valid, "b") :> "p0"),
   (File(<<>>, "a") :> "corrupt") @@ (File(<<"images">>, "b") :> "p2")}
CocoTrees ==
  {[Empty EXCEPT !.manifests = ms, !.images = im] :
     ms \in UNION {[{p} -> Odd \cup {One}] : p \in {Place(Train, FALSE, NoSplit), Place(<<>>, FALSE, NoSplit)}}
            \cup UNION {[{p, q} -> {One, Two, Both}] : p \in {Place(Train, FALSE, NoSplit), Place(<<"annotations">>, TRUE, "train")}, q \in Places}
            \cup UNION {[{p, Second(p)} -> {One, Two, Both}] : p \in {Place(<<>>, FALSE, NoSplit), Place(<<"annotations">>, FALSE, "val")}},
     im \in CocoImages}

(* YOLO *)
Line(c, s) == [class |-> c, shape |-> s]
Yaml(names, who) == [names |-> names, contributor |-> who]
YoloTrees ==
  LET Files(d, e) == {<<File(d, "a"), File(e, "a")>>}
      lines == {{Line(0, "box")}, {Line(1, "polygon")}, {Line(5, "box")}, {Line(0, "odd")}, {Line(0, "short")},
                {Line(0, "bad box")}, {Line(-1, "box")}, {Line(0, "box"), Line(1, "text")}, {}}
  IN {[Empty EXCEPT !.images = f[1] :> "p0" @@ (IF f[2] = f[1] THEN <<>> ELSE f[2] :> "p1"),
                    !.labels = f[3] :> l, !.yaml = y] :
        f \in {<<File(<<"images", "train">>, "a"), File(<<"images", "val">>, "a"), File(<<"labels", "val">>, "a")>>,
               <<File(<<"images">>, "a"), File(<<"images">>, "b"), File(<<"labels">>, "b")>>,
               <<File(<<"train", "images">>, "a"), File(<<"test", "images">>, "a"), File(<<"train", "labels">>, "a")>>,
               <<File(<<>>, "a"), File(Train, "a"), File(<<>>, "a")>>,
               <<File(<<>>, "a"), File(<<>>, "a"), File(<<>>, "z")>>},
        l \in lines, y \in {NoYaml, Yaml((0 :> "car") @@ (2 :> "bus"), "carol"), Yaml(<<>>, NoContributor)}}

(* Pictures for the statistical checks: which content, which class.        *)
Stems == <<"i1", "i2", "i3", "i4", "i5", "i6", "i7", "i8", "i9", "i10", "i11">>
Number(f) == CHOOSE i \in DOMAIN Stems : Stems[i] = f.stem
Gallery(contents, classes) ==
  [Empty EXCEPT
    !.images = [f \in {File(<<"images">>, Stems[i]) : i \in DOMAIN contents} |-> contents[Number(f)]],
    !.labels = [f \in {File(<<"labels">>, Stems[i]) : i \in DOMAIN classes} |-> {Line(classes[Number(f)], "box")}],
    !.yaml = Yaml((0 :> "car") @@ (1 :> "bus"), NoContributor)]
Galleries ==
  {Gallery(<<"p0", "p1", "p2", "p3", "p4", "p5", "p6", "p7", "p8", "p9", "far">>, [i \in 1..11 |-> 0]),
   Gallery(<<"p0", "p1", "p2", "p3", "p4", "p5", "p6", "p7", "p8", "p9">>, [i \in 1..10 |-> i % 2]),
   Gallery(<<"p0", "p0", "p1", "far", "far", "far", "far", "far", "far", "far">>, [i \in 1..10 |-> IF i < 6 THEN 0 ELSE 1]),
   Gallery(<<"p0", "twin", "patch">>, [i \in 1..3 |-> 0]),
   Gallery(<<"p0", "p0", "twin">>, [i \in 1..3 |-> 0]),
   Gallery(<<"p0", "p1", "p2", "p3", "p4", "patch">>, [i \in 1..6 |-> IF i = 3 THEN 1 ELSE 0])}

MCTrees == CocoTrees \cup YoloTrees \cup Galleries \cup {Empty}
MCEdits == {Empty,
            CHOOSE t \in CocoTrees : t.manifests = (Place(Train, FALSE, NoSplit) :> Both),
            [Gallery(<<"p0", "twin", "patch">>, <<0, 0, 0>>) EXCEPT
               !.images = [f \in DOMAIN @ \ {File(<<"images">>, "i1")} |-> @[f]]]}

(* One directory before and after its two image entries exchange ids.      *)
Exchanged(a, b) == [Empty EXCEPT !.manifests = Place(<<>>, TRUE, "train") :> [Both EXCEPT !.images = {Entry(1, a), Entry(2, b)}],
                                 !.images = (File(<<>>, "a") :> "p0") @@ (File(<<>>, "b") :> "p1")]
SwapTrees == {Exchanged("a", "b"), Exchanged("b", "a")}

MCPosition == [p0 |-> 0, p1 |-> 1, p2 |-> 2, p3 |-> 3, p4 |-> 4, p5 |-> 5, p6 |-> 6, p7 |-> 7, p8 |-> 8, p9 |-> 9,
               far |-> 100, twin |-> 0, patch |-> 5, corrupt |-> 0]
MCAlike == {<<"p0", "twin">>, <<"twin", "p0">>}
MCPatched == {"patch"}
=============================================================================
