--------------------------- MODULE ModelAdapters ---------------------------
(***************************************************************************)
(* What the scanner accepts as a model file, which adapter reads it, and   *)
(* what the adapter can tell of it with the packages that are installed:   *)
(* torch, onnx and onnxruntime are no dependencies of the project, and an  *)
(* adapter that misses one mostly puts constants in place of weights, and  *)
(* answers each probe with a status instead of a prediction.               *)
(*                                                                         *)
(* A file is a record: suffix, size, form (a stream, an archive with       *)
(* members, or a broken archive), what it holds (a script, a graph; what   *)
(* torch saves: a state dict, a tensor or a module; or numbers alone, in a *)
(* plain dict or as a bare value), its weights, and the response of the    *)
(* network to the one input it is ever given: predict makes a zero image of*)
(* every probe that is not a tensor yet.                                   *)
(***************************************************************************)
EXTENDS Naturals, Sequences, SequencesExt

CONSTANTS
  NoFile,      \* the name of a model that is no file
  NoModel,     \* no reference model
  StandIn,     \* what an adapter shows for weights it does not read, by the reason
  Silent,      \* the zero signature of a model that cannot run
  Raises,      \* the response of a network the zero image does not fit
  MockObject   \* what MockModelAdapter shows for any file

ASSUME StandInAssumption ==
  DOMAIN StandIn = {"script", "graph", "archive", "header", "unread", "empty"}

StandIns == Range(StandIn)

KnownSuffixes == {".onnx", ".pt", ".pth", ".torchscript", ".bin"}

-----------------------------------------------------------------------------
(* A member is judged by its name, its density and, if it may be a pickle, *)
(* its first bytes; one that cannot be read only makes a warning.          *)
MemberErrors(m) ==
  {e \in {"outside", "script"} : m.name = e}
    \cup (IF m.dense THEN {"dense"} ELSE {})
    \cup (IF m.pickle /\ m.readable /\ m.marked = "early" THEN {"marked"} ELSE {})

ArchiveErrors(f) ==
  IF f.form = "broken" THEN {"malformed"}
  ELSE UNION {MemberErrors(m) : m \in f.members} \cup (IF f.inflated THEN {"inflated"} ELSE {})

StreamErrors(f) == IF f.marked = "early" THEN {"marked"} ELSE {}

(* The first thing wrong with the file decides how the scan ends.          *)
ScanOutcome(f) ==
  IF f.size = "missing" THEN "StorageError"
  ELSE IF f.size = "none" THEN "InvalidModelError"
  ELSE IF f.size = "too much" THEN "ResourceExhaustionError"
  ELSE IF f.suffix \notin KnownSuffixes THEN "UnsupportedFormatError"
  ELSE IF (IF f.form = "stream" THEN StreamErrors(f) ELSE ArchiveErrors(f)) # {} THEN "InvalidModelError"
  ELSE "safe"

(* What /models/scan-safety answers: only InvalidModelError is a verdict.  *)
SafetyAnswer(f) ==
  CASE ScanOutcome(f) = "safe" -> "PASSED"
    [] ScanOutcome(f) = "InvalidModelError" -> "UNSAFE_MODEL_DETECTED"
    [] OTHER -> "error"

-----------------------------------------------------------------------------
(* An adapter with its level of access; a mock has an object for a file,   *)
(* and PyTorchAdapter may be told to unpickle more than weights.           *)
Adapter(kind, access) ==
  [kind |-> kind, access |-> access, task |-> "classification", classes |-> 4, weightsOnly |-> TRUE, object |-> NoFile]

IsAdapter(model) ==
  /\ model.kind \in {"mock", "torchscript", "onnx", "pytorch"}
  /\ model.kind # "mock" => model.object = NoFile

(* TorchScriptAdapter's constructor never fails, so that PyTorchAdapter is *)
(* never tried for .pt and .pth.                                           *)
ResolveAdapter(suffix) ==
  CASE suffix = ".onnx" -> Adapter("onnx", "grey")
    [] suffix \in {".pt", ".pth", ".torchscript"} -> Adapter("torchscript", "white")
    [] OTHER -> [Adapter("mock", "black") EXCEPT !.object = MockObject]

Loaded(weights, runs, f) ==
  [ok |-> TRUE, weights |-> weights, runs |-> runs, response |-> f.response, activity |-> f.activity, norms |-> f.norms, of |-> f]
Failed == [ok |-> FALSE]

(* The pickle in an archive can be read (or there is none).                *)
Intact(f) == \A m \in f.members : m.pickle => m.readable

LoadTorchScript(f, installed) ==
  IF "torch" \notin installed THEN Loaded(StandIn["script"], FALSE, f)
  ELSE IF f.holds = "script" /\ Intact(f) THEN Loaded(f.weights, TRUE, f)
  ELSE Failed

(* An onnxruntime that refuses the graph leaves a model that cannot run.   *)
LoadONNX(f, installed) ==
  IF "onnx" \in installed /\ f.holds # "graph" THEN Failed
  ELSE Loaded(IF "onnx" \in installed THEN f.weights ELSE StandIn["graph"],
              "onnxruntime" \in installed /\ f.holds = "graph", f)

(* The project's own unpickler gets the weights of numbers alone.  In what *)
(* torch saves as a stream it finds the magic number, which comes first;   *)
(* storages, and anything that is no pickle, end in a constant.            *)
Unpickled(f) ==
  IF f.form = "archive" /\ (\A m \in f.members : ~m.pickle) THEN StandIn["archive"]
  ELSE IF f.holds \in {"plain dict", "value"} THEN f.weights
  ELSE IF f.form = "stream" /\ f.holds \in {"state dict", "tensor", "module"} THEN StandIn["header"]
  ELSE StandIn["unread"]

(* torch.load reads weights, which are tensors and numbers, and archives or*)
(* streams of its own; anything else only when it is told to.              *)
TorchReads(model, f) ==
  /\ Intact(f)
  /\ \/ f.holds \in {"state dict", "tensor"}
     \/ f.holds \in {"plain dict", "value"} /\ f.form = "archive"
     \/ f.holds \in {"module", "script"} /\ ~model.weightsOnly

(* What is neither a module nor a dict is kept, without any weights.       *)
LoadPyTorch(model, f, installed) ==
  IF "torch" \notin installed
  THEN IF Intact(f) THEN Loaded(Unpickled(f), FALSE, f) ELSE Failed
  ELSE IF ~TorchReads(model, f) THEN Failed
  ELSE IF f.holds \in {"tensor", "value"} THEN Loaded(StandIn["empty"], FALSE, f)
  ELSE Loaded(f.weights, f.holds \in {"module", "script"}, f)

(* load() scans the file again before it reads it; a mock reads nothing.   *)
Load(model, f, installed) ==
  IF model.kind = "mock" THEN Loaded(model.object.weights, TRUE, model.object)
  ELSE IF ScanOutcome(f) # "safe" THEN Failed
  ELSE CASE model.kind = "torchscript" -> LoadTorchScript(f, installed)
         [] model.kind = "onnx" -> LoadONNX(f, installed)
         [] model.kind = "pytorch" -> LoadPyTorch(model, f, installed)

Readable(model) == model.access # "black"

(* predict: a status, an exception of the network, or its response.        *)
Predicts(loaded) == ~loaded.runs \/ loaded.response # Raises
Response(loaded) == IF loaded.runs THEN loaded.response ELSE Silent

(* Only these two adapters define gradients, if they may show everything.  *)
Differentiable(model, loaded) ==
  model.access = "white" /\ (model.kind = "mock" \/ (model.kind = "pytorch" /\ loaded.ok /\ loaded.runs))

(* A state dict has no layers to hook: PyTorchAdapter makes up some.       *)
Activities(model, loaded) ==
  IF \/ model.access # "white" \/ model.kind \in {"torchscript", "onnx"}
     \/ ~loaded.ok \/ (loaded.runs /\ loaded.response = Raises)
  THEN "none"
  ELSE IF loaded.runs THEN loaded.activity ELSE "made up"
=============================================================================
