---------------------------- MODULE MCModelScan ----------------------------
(* Two files of one or of two formats, and mocks made by a program.        *)
EXTENDS ModelScan

File(suffix, holds, weights, response) ==
  [suffix |-> suffix, size |-> "some", form |-> "stream", members |-> {}, inflated |-> FALSE, marked |-> "nowhere",
   holds |-> holds, weights |-> weights, response |-> response, activity |-> "busy", norms |-> <<NaN, NaN, NaN, NaN>>,
   clean |-> <<>>, perturbed |-> <<>>]

(* Weights w1 tuned become w2, unlike w3 and the pruned w0; each response  *)
(* is a point, and what is near is near.                                   *)
MCDistance ==
  [p \in {"a", "b", "c", "far"} \X {"a", "b", "c", "far"} |->
     IF p[1] = p[2] THEN "none"
     ELSE IF "far" \in {p[1], p[2]} THEN "far"
     ELSE IF {p[1], p[2]} = {"a", "b"} THEN "slight" ELSE "drift"]
MCStandIn == [why \in {"script", "graph", "archive", "header", "unread", "empty"} |-> why]
Weights == {"w0", "w1", "w2", "w3"} \cup {MCStandIn[why] : why \in DOMAIN MCStandIn}
MCStatsDiffer == {<<v, w>> \in Weights \X Weights : v # w /\ {v, w} # {"w1", "w2"} /\ w # "empty"}
MCSparse == {"w0"}
MCCollapsed == {"dead"}
MCUnlike == {<<"busy", "dead">>, <<"busy", "other">>, <<"other", "busy">>,
             <<"made up", "other">>}

Member(name, dense, pickle, readable, marked) ==
  [name |-> name, dense |-> dense, pickle |-> pickle, readable |-> readable, marked |-> marked]
Archive(members, holds, weights, response) ==
  [File(".pt", holds, weights, response) EXCEPT !.form = "archive", !.members = members]
Pickle == Member("plain", FALSE, TRUE, TRUE, "nowhere")
Pickled(holds, weights, response) == Archive({Pickle}, holds, weights, response)

Scripts == {Pickled("script", "w1", "a"), Pickled("script", "w2", "a"), Pickled("script", "w3", "far"),
            Pickled("script", "w0", Raises)}
Graphs == {File(".onnx", "graph", "w1", "a"), File(".onnx", "graph", "w2", "b"), File(".onnx", "graph", "w3", "c"),
           File(".onnx", "graph", "w2", Silent)}
Dicts == {File(".pt", "state dict", "w1", "a"), Pickled("module", "w3", "c"),
          [Pickled("module", "w1", "a") EXCEPT !.activity = "dead"],
          [Pickled("module", "w1", "a") EXCEPT !.activity = "other"]}
Bins == {File(".bin", "anything", "w1", "a")}
Sound == Scripts \cup Graphs \cup Dicts \cup Bins

(* What shows weights only with torch, or only without, or never.          *)
Values == {Pickled("value", "w1", "a"), Pickled("tensor", "w3", "a"), Pickled("plain dict", "w1", "a"),
           File(".pt", "plain dict", "w2", "a"), File(".pt", "state dict", "w1", "a"),
           Archive({Member("plain", FALSE, TRUE, FALSE, "nowhere")}, "value", "w1", "a"), Archive({}, "anything", "w2", "a")}

Base == Pickled("script", "w1", "a")
Locked == File(".pt", "state dict", "w1", "a")
Odd ==
  {[Base EXCEPT !.size = "missing"], [Base EXCEPT !.size = "none"], [Base EXCEPT !.size = "too much"],
   [Base EXCEPT !.suffix = ".txt"], [Locked EXCEPT !.marked = "early"], [Locked EXCEPT !.marked = "late"],
   [Base EXCEPT !.form = "broken"], [Base EXCEPT !.inflated = TRUE]}
  \cup {Archive({m}, "script", "w1", "a") :
           m \in {Member("outside", FALSE, FALSE, TRUE, "nowhere"),
                   Member("script", FALSE, FALSE, TRUE, "nowhere"), Member("plain", TRUE, FALSE, TRUE, "nowhere"),
                   Member("plain", FALSE, TRUE, TRUE, "early"), Member("plain", FALSE, TRUE, FALSE, "early")}}

Object(norms, clean, perturbed) ==
  [File("", "object", "w1", "a") EXCEPT !.norms = norms, !.clean = clean, !.perturbed = perturbed]
MCMockObject == Object(<<5, 6, 7, 8>>, <<8, 0>>, <<4, 0>>)

Pairs == {<<f, g>> \in Sound \X Sound : f.suffix = g.suffix} \cup Values \X Values
Sides == UNION {{<<Base, f>>, <<f, Base>>} : f \in Odd \cup {CHOOSE g \in Graphs : TRUE, CHOOSE g \in Bins : TRUE}}

(* A file that cannot be read is replaced by one that can, then the other. *)
MCReplacements == {<<f, g>> \in Pairs : f.weights = "w1" /\ g.weights = "w3" /\ f.holds = g.holds /\ f.activity = "busy"}
                    \cup {<<Pickled("script", "w3", "far"), Pickled("script", "w3", "far")>>}
                    \cup {<<Base, Locked>>, <<Base, Pickled("script", "w2", "a")>>}

Mock(task, access, object) == [Adapter("mock", access) EXCEPT !.task = task, !.object = object]
Torch(weightsOnly) == [Adapter("pytorch", "white") EXCEPT !.weightsOnly = weightsOnly]
TorchDetector == [Torch(TRUE) EXCEPT !.task = "detection"]
Detector == [ResolveAdapter(".onnx") EXCEPT !.task = "detection"]
Norms == {<<5, 5, 5>>, <<1, 9, 9, 9>>, <<1, 9, 10, 11>>, <<8, 9, 10, 11>>, <<1, NaN, 9>>, <<1, 8, 9>>}
Counts == {<<<<4, 4>>, <<0, 2>>>>, <<<<4, 4>>, <<0, 0>>>>, <<<<4, 1>>, <<0, 0>>>>, <<<<4, 4>>, <<2, 2>>>>}
Mocks ==
  {<<Mock("classification", "white", Object(n, <<>>, <<>>)), NoModel>> : n \in Norms}
  \cup {<<Mock("detection", "white", Object(<<>>, c[1], c[2])), NoModel>> : c \in Counts}
  \cup {<<Mock("classification", "grey", MCMockObject), r>> :
          r \in {Mock("classification", "grey", MCMockObject), Mock("classification", "white", [MCMockObject EXCEPT !.response = "far"]),
                 [Mock("classification", "grey", MCMockObject) EXCEPT !.classes = 3]}}

ProgramsFor(files) ==
  IF files[1] = Base /\ files[2] = Base THEN Mocks
  ELSE IF files[1].suffix = ".onnx" THEN {<<Detector, Detector>>}
  ELSE IF files \in Values \X Values THEN {<<Torch(TRUE), Torch(TRUE)>>, <<TorchDetector, TorchDetector>>}
  ELSE IF files \in Dicts \X Dicts THEN {<<Torch(b), r>> : b \in BOOLEAN, r \in {NoModel, Torch(FALSE)}}
  ELSE {}
MCSituations ==
  {[installed |-> i, disk |-> d, programs |-> ProgramsFor(d)] :
     i \in {{}, {"torch"}, {"onnx", "onnxruntime"}, {"onnxruntime"}}, d \in Pairs \cup Sides}
=============================================================================
