--------------------------- MODULE DatasetFormats ---------------------------
(***************************************************************************)
(* The decisions of dataset ingestion as functions of a directory:         *)
(* FormatDetector.detect, and discovery, validation and loading of the     *)
(* COCO and the YOLO adapter.                                              *)
(*                                                                         *)
(* A directory is a record.  Folders are sequences of names below the      *)
(* dataset's root, <<>> being the root itself.                             *)
(*   manifests  a function from places [dir, std, nr, tag] to the contents *)
(*              of a JSON file; std: it has one of the names looked for    *)
(*              first (instances_<tag>.json and its like); nr: its place   *)
(*              among these, or among the other names of the folder in     *)
(*              order; tag: the split in its name, or NoSplit              *)
(*   images     a function from image files [dir, stem] to their bytes, or *)
(*              to "corrupt" when these have no image header               *)
(*   labels     a function from text files [dir, stem] to a set of lines   *)
(*              [class, shape]                                             *)
(*   yaml       NoYaml or [names, contributor] of data.yaml                *)
(* A file name is its stem: names with folders in them are left out.       *)
(***************************************************************************)
EXTENDS Integers, Sequences, FiniteSets, SequencesExt

CONSTANTS NoSplit, NoYaml, NoContributor, NoLabel, NoBox

SplitNames == <<"train", "valid", "val", "test">>

(* A set in the order Before puts it in.                                   *)
Ranked(S, Before(_, _)) ==
  [i \in 1..Cardinality(S) |-> CHOOSE x \in S : Cardinality({y \in S : Before(y, x)}) = i - 1]

Folders(tree) ==
  {f.dir : f \in DOMAIN tree.manifests \cup DOMAIN tree.images \cup DOMAIN tree.labels}

FolderExists(tree, dir) == \E d \in Folders(tree) : IsPrefix(dir, d)

-----------------------------------------------------------------------------
(* Which format is it?                                                     *)

(* The keys are looked for in the text of the first 8 KB, so a file that   *)
(* does not parse may pass.                                                *)
IsCocoJson(m) == "images" \in m.keys /\ {"annotations", "categories"} \cap m.keys # {}

CocoIn(tree, dir) == {p \in DOMAIN tree.manifests : p.dir = dir /\ IsCocoJson(tree.manifests[p])}

YoloRow(line) == line.class \in Int /\ line.shape \notin {"short", "text"}

(* The first line that is not short decides whether a text file is taken   *)
(* for labels, by its first three tokens; which line is first is open.     *)
MayPass(lines) == \E l \in lines : l.shape # "short" /\ l.class \in Int
MayNot(lines) == (\A l \in lines : l.shape = "short")
                   \/ \E l \in lines : l.shape # "short" /\ (l.class \notin Int \/ l.shape = "text")

(* The answers there may be.  Of the text files only five are looked at,   *)
(* in no order.                                                            *)
Detect(tree) ==
  LET text == DOMAIN tree.labels
  IN IF tree.yaml # NoYaml THEN {"yolo"}
     ELSE IF \E d \in {<<s>> : s \in Range(SplitNames)} \cup {<<"annotations">>, <<>>} : CocoIn(tree, d) # {}
     THEN {"coco"}
     ELSE IF FolderExists(tree, <<"images">>) /\ FolderExists(tree, <<"labels">>) THEN {"yolo"}
     ELSE {fmt \in {"yolo"} : \E f \in text : MayPass(tree.labels[f])}
            \cup {fmt \in {"unsupported"} :
                    Cardinality({f \in text : MayNot(tree.labels[f])}) >= Min({5, Cardinality(text)})}

-----------------------------------------------------------------------------
(* COCO: the manifests in the order in which they are processed.           *)

Sooner(p, q) == (p.std /\ ~q.std) \/ (p.std = q.std /\ p.nr < q.nr)

InOrder(places) == Ranked(places, Sooner)

DiscoverManifests(tree) ==
  LET splits == Ranked({i \in DOMAIN SplitNames : CocoIn(tree, <<SplitNames[i]>>) # {}}, <)
      In(dir) == LET standard == {p \in CocoIn(tree, dir) : p.std /\ p.tag # NoSplit}
                 IN InOrder(IF standard # {} THEN standard ELSE CocoIn(tree, dir))
      Tagged(places) == [i \in DOMAIN places |-> [split |-> places[i].tag, place |-> places[i]]]
  IN IF splits # <<>>
     THEN [i \in DOMAIN splits |->
            [split |-> SplitNames[splits[i]], place |-> InOrder(CocoIn(tree, <<SplitNames[splits[i]]>>))[1]]]
     ELSE Tagged(IF In(<<"annotations">>) # <<>> THEN In(<<"annotations">>) ELSE In(<<>>))

IsMultiSplit(tree, found) ==
  \/ Len(found) > 1
  \/ \E i \in DOMAIN found : found[i].split # NoSplit /\ FolderExists(tree, <<found[i].split>>)

(* Ids of several splits are kept apart by the name of the split.          *)
ImageId(multi, split, id) == IF multi /\ split # NoSplit THEN <<split, id>> ELSE <<NoSplit, id>>

ImageFolders ==
  <<<<>>, <<"images">>, <<"train">>, <<"valid">>, <<"val">>, <<"test">>,
    <<"images", "train">>, <<"images", "valid">>, <<"images", "val">>, <<"images", "test">>>>

(* The folder of the manifest first, then the usual folders, then anywhere *)
(* under the root; {} when there is no such file.                          *)
FindIn(tree, stem, folders) ==
  LET named == {f \in DOMAIN tree.images : f.stem = stem}
      usual == {i \in DOMAIN folders : [dir |-> folders[i], stem |-> stem] \in named}
  IN IF usual # {} THEN {[dir |-> folders[Min(usual)], stem |-> stem]}
     ELSE IF named # {} THEN {CHOOSE f \in named : TRUE} ELSE {}

(* Mutant: the folder of the manifest comes last.                          *)
FindImageFileUsualFirst(tree, stem, preferred) == FindIn(tree, stem, ImageFolders \o <<preferred>>)

FindImageFile(tree, stem, preferred) == FindIn(tree, stem, <<preferred>> \o ImageFolders)

-----------------------------------------------------------------------------
(* COCO: contents of a manifest are                                        *)
(*   readable, keys  whether the JSON parses, and its top-level keys       *)
(*   complete        no entry lacks an id, a name or a file name           *)
(*   images          a set of [id, file, sized]; sized: width and height   *)
(*                   are declared                                          *)
(*   annotations     a set of [image, cat, box, fits]; fits: its numbers   *)
(*                   are ones the schema of an annotation admits           *)
(*   names           a function from category ids to class names           *)
(*   contributor     who is named in "info", or NoContributor              *)

Parsed(tree, found, i) ==
  /\ found[i].place \in DOMAIN tree.manifests
  /\ tree.manifests[found[i].place].readable

Admitted(tree, found) ==
  {i \in DOMAIN found : /\ Parsed(tree, found, i)
                        /\ {"images", "annotations", "categories"} \subseteq tree.manifests[found[i].place].keys}

CocoErrors(tree, found) ==
  LET read == Admitted(tree, found)
      Of(i) == tree.manifests[found[i].place]
      Id(i, id) == ImageId(IsMultiSplit(tree, found), found[i].split, id)
      IdsOf(i) == {Id(i, m.id) : m \in Of(i).images}
      Bad(i) ==
        (IF ~Of(i).complete THEN {"incomplete entry"} ELSE {})
        \cup (IF \/ Cardinality(IdsOf(i)) < Cardinality(Of(i).images)
                 \/ \E j \in read : j < i /\ IdsOf(i) \cap IdsOf(j) # {}
              THEN {"duplicate image id"} ELSE {})
        \cup {"image not found" :
                m \in {m \in Of(i).images : FindImageFile(tree, m.file, found[i].place.dir) = {}}}
        \cup {"orphan annotation" :
                a \in {a \in Of(i).annotations : \A j \in read : j <= i => Id(i, a.image) \notin IdsOf(j)}}
        \cup {"unknown category" :
                a \in {a \in Of(i).annotations : \A j \in read : j <= i => a.cat \notin DOMAIN Of(j).names}}
        \cup {"bad box" : a \in {a \in Of(i).annotations : a.box \in {"malformed", "flat"}}}
      Errors == (IF read # DOMAIN found THEN {"manifest not usable"} ELSE {}) \cup UNION {Bad(i) : i \in read}
  IN IF found = <<>> THEN {"no manifest"}
     ELSE IF Errors = {} /\ \A i \in read : Of(i).images = {} THEN {"nothing in it"} ELSE Errors

(* Mutant: asks whether a name has two ids.                                *)
NamedTwiceByName(manifests) ==
  \E m, n \in manifests : \E c \in DOMAIN m.names, d \in DOMAIN n.names : c # d /\ m.names[c] = n.names[d]

NamedTwice(manifests) ==
  \E m, n \in manifests : \E c \in DOMAIN m.names \cap DOMAIN n.names : m.names[c] # n.names[c]

CocoWarnings(tree, found) ==
  LET read == Admitted(tree, found)
      Of(i) == tree.manifests[found[i].place]
      Ids(set, Field(_)) ==
        UNION {{ImageId(IsMultiSplit(tree, found), found[i].split, Field(x)) : x \in set[i]} : i \in read}
  IN (IF NamedTwice({Of(i) : i \in read}) THEN {"conflicting names"} ELSE {})
     \cup (IF Cardinality(Ids([i \in read |-> Of(i).images], LAMBDA m : m.id))
                > Cardinality(Ids([i \in read |-> Of(i).annotations], LAMBDA a : a.image))
           THEN {"unannotated"} ELSE {})
     \cup {"negative box" : a \in {a \in UNION {Of(i).annotations : i \in read} : a.box = "negative"}}

(* Loading reads the files again.  It fails on what validation does not    *)
(* look at: numbers outside the schema, and a corrupt image whose size is  *)
(* not declared.                                                           *)
CocoLoads(tree, found) ==
  \A i \in DOMAIN found :
    /\ Parsed(tree, found, i)
    /\ LET m == tree.manifests[found[i].place]
       IN /\ m.complete
          /\ \A a \in m.annotations : a.fits
          /\ \A im \in m.images : ~im.sized =>
               \A f \in FindImageFile(tree, im.file, found[i].place.dir) : tree.images[f] # "corrupt"

FirstNamed(names) ==
  LET named == {i \in DOMAIN names : names[i] # NoContributor}
  IN IF named = {} THEN NoContributor ELSE names[Min(named)]

LoadCoco(tree, found) ==
  LET Of(i) == tree.manifests[found[i].place]
      Id(i, id) == ImageId(IsMultiSplit(tree, found), found[i].split, id)
      (* the name of a category in the last manifest that has it *)
      NameOf(c) == LET i == CHOOSE i \in DOMAIN found :
                              /\ c \in DOMAIN Of(i).names
                              /\ \A j \in DOMAIN found : c \in DOMAIN Of(j).names => j <= i
                   IN Of(i).names[c]
      Known == UNION {DOMAIN Of(i).names : i \in DOMAIN found}
      Images(i) == UNION {{[id |-> Id(i, m.id), file |-> f] :
                             f \in FindImageFile(tree, m.file, found[i].place.dir)} : m \in Of(i).images}
  IN [images |-> UNION {Images(i) : i \in DOMAIN found},
      annotations |-> UNION {{[image |-> Id(i, a.image), from |-> i, cat |-> a.cat,
                               name |-> IF a.cat \in Known THEN NameOf(a.cat) ELSE "class_<id>",
                               box |-> IF a.box \in {"ok", "negative"} THEN a.box ELSE NoBox] :
                               a \in Of(i).annotations} : i \in DOMAIN found},
      classes |-> [c \in Known |-> NameOf(c)],
      contributor |-> FirstNamed([i \in DOMAIN found |-> Of(i).contributor])]

-----------------------------------------------------------------------------
(* YOLO: images and their label files, by the first layout that has images.*)

WithLabels(tree, files, LabelOf(_), SplitOf(_)) ==
  {[file |-> f, split |-> SplitOf(f), label |-> IF LabelOf(f) \in DOMAIN tree.labels THEN LabelOf(f) ELSE NoLabel] :
     f \in files}

DiscoverPairs(tree) ==
  LET all == DOMAIN tree.images
      Sibling(dir) == [i \in DOMAIN dir |-> IF i = Max({j \in DOMAIN dir : dir[j] = "images"} \cup {0})
                                            THEN "labels" ELSE dir[i]]
      Beside(f) == [f EXCEPT !.dir = Sibling(f.dir)]
      nested == {f \in all : Len(f.dir) = 2 /\ f.dir[1] = "images"}
      flat == IF FolderExists(tree, <<"labels">>) THEN {f \in all : f.dir = <<"images">>} ELSE {}
      splitFirst == {f \in all : Len(f.dir) = 2 /\ f.dir[2] = "images"}
      SplitAbove(f) ==
        LET near == {i \in {Len(f.dir) - 1, Len(f.dir)} \cap DOMAIN f.dir : f.dir[i] \in Range(SplitNames)}
        IN IF near = {} THEN NoSplit ELSE f.dir[Max(near)]
  IN CASE nested # {} -> WithLabels(tree, nested, LAMBDA f : [f EXCEPT !.dir = <<"labels", f.dir[2]>>], LAMBDA f : f.dir[2])
       [] nested = {} /\ flat # {} -> WithLabels(tree, flat, Beside, LAMBDA f : NoSplit)
       [] nested = {} /\ flat = {} /\ splitFirst # {} -> WithLabels(tree, splitFirst, Beside, LAMBDA f : f.dir[1])
       [] OTHER -> WithLabels(tree, all, LAMBDA f : IF f \in DOMAIN tree.labels THEN f ELSE Beside(f), SplitAbove)

DeclaredNames(tree) == IF tree.yaml = NoYaml THEN <<>> ELSE tree.yaml.names

MatchedLabels(tree) == {p.label : p \in DiscoverPairs(tree)} \ {NoLabel}

YoloErrors(tree) ==
  LET lines == UNION {tree.labels[f] : f \in MatchedLabels(tree)}
  IN IF DiscoverPairs(tree) = {} THEN {"no images"}
     ELSE {"bad line" : l \in {l \in lines : \/ l.shape \in {"short", "text", "bad box"}
                                             \/ l.class \notin Nat}}
          \cup (IF DOMAIN tree.labels # {} /\ MatchedLabels(tree) = {} THEN {"no label matches"} ELSE {})

YoloWarnings(tree) ==
  LET pairs == DiscoverPairs(tree)
      declared == DOMAIN DeclaredNames(tree)
      lines == UNION {tree.labels[f] : f \in MatchedLabels(tree)}
  IN {"class not declared" : l \in {l \in lines : /\ declared # {} /\ l.shape # "short"
                                                   /\ l.class \in Nat /\ l.class > Max(declared)}}
     \cup {"orphan label" : f \in DOMAIN tree.labels \ MatchedLabels(tree)}
     \cup {"unannotated" : p \in {p \in pairs : p.label = NoLabel \/ tree.labels[p.label] = {}}}

YoloLoads(tree) == \A p \in DiscoverPairs(tree) : tree.images[p.file] # "corrupt"

(* The id of an image is its stem alone, whatever folder it is in.         *)
LoadYolo(tree) ==
  LET pairs == DiscoverPairs(tree)
      names == DeclaredNames(tree)
      Lines(p) == IF p.label = NoLabel THEN {} ELSE {l \in tree.labels[p.label] : YoloRow(l)}
      NameOf(c) == IF c \in DOMAIN names THEN names[c] ELSE "class_<id>"
  IN [images |-> {[id |-> <<NoSplit, p.file.stem>>, file |-> p.file] : p \in pairs},
      annotations |-> UNION {{[image |-> <<NoSplit, p.file.stem>>, from |-> p.file, cat |-> l.class,
                               name |-> NameOf(l.class),
                               box |-> IF l.shape \in {"box", "polygon"} THEN l.shape ELSE NoBox] :
                               l \in Lines(p)} : p \in pairs},
      classes |-> [c \in DOMAIN names \cup UNION {{l.class : l \in Lines(p)} : p \in pairs} |-> NameOf(c)],
      contributor |-> IF tree.yaml = NoYaml THEN NoContributor ELSE tree.yaml.contributor]
=============================================================================
