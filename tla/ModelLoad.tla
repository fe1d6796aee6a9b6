----------------------------- MODULE ModelLoad ------------------------------
(***************************************************************************)
(* Engine::ensure_model_loaded and ModelWeightsRef::load: the first call   *)
(* that needs the model converts every tensor of the weight map into the   *)
(* engine's own buffers, under forward_mu_.  A tensor that is missing, of  *)
(* another shape or of a type that cannot be converted, or an allocation   *)
(* that fails, throws in the middle; the next call loads again on top of   *)
(* what is there.                                                          *)
(*                                                                         *)
(* A converted element is named by its tensor, row and column.  The        *)
(* matrices of a layer are packed into one blob and read through offsets   *)
(* into it, as are their int8 scales; one action is one conversion with    *)
(* the allocation before it.                                               *)
(***************************************************************************)
EXTENDS WeightFiles

CONSTANTS
  Norm,                                           (* model.norm.weight     *)
  Hidden, QDim, KvDim, Inter, Vocab, NumLayers,   (* from the config       *)
  Threads,        (* callers of the engine                                 *)
  MaxFaults       (* bound: failed allocations per engine                  *)

VARIABLES
  storage,        (* storage_                                              *)
  built,          (* model_built_                                          *)
  model,          (* the buffers and views of ModelWeightsRef              *)
  pc,             (* per thread                                            *)
  at,             (* where load() is in Program                            *)
  faults          (* allocations that failed so far                        *)

vars == << fileVars, storage, built, model, pc, at, faults >>

-----------------------------------------------------------------------------
(* Linear weights are [out, in].                                           *)
Mats == << "q", "k", "v", "o", "gate", "up", "down" >>
Rows == [q |-> QDim, k |-> KvDim, v |-> KvDim, o |-> Hidden,
         gate |-> Inter, up |-> Inter, down |-> Hidden]
Cols == [q |-> Hidden, k |-> Hidden, v |-> Hidden, o |-> QDim,
         gate |-> Hidden, up |-> Hidden, down |-> Inter]

Layers == 1 .. NumLayers

(* No two weights have one name.                                           *)
ASSUME ShapeAssumption ==
  /\ {Hidden, QDim, KvDim, Inter, Vocab, NumLayers} \subseteq Nat \ {0}
  /\ MaxFaults \in Nat
  /\ Norm \notin {Embed, LmHead}
  /\ \A l \in Layers, part \in {"attn_norm", "ffn_norm"} \cup DOMAIN Rows :
       << l, part >> \notin {Embed, LmHead, Norm}

Shape(n) ==
  IF n \in {Embed, LmHead} THEN << Vocab, Hidden >>
  ELSE IF n = Norm \/ n[2] \in {"attn_norm", "ffn_norm"} THEN << Hidden >>
  ELSE << Rows[n[2]], Cols[n[2]] >>

(* Running totals over Mats: where each matrix starts in the blob, and its *)
(* scales, one per row, in theirs; the last entry is the size.             *)
Offsets[i \in 1 .. 8] ==
  IF i = 1 THEN 0 ELSE Offsets[i - 1] + Rows[Mats[i - 1]] * Cols[Mats[i - 1]]
ScaleOffsets[i \in 1 .. 8] ==
  IF i = 1 THEN 0 ELSE ScaleOffsets[i - 1] + Rows[Mats[i - 1]]

Views == [o |-> Offsets, s |-> ScaleOffsets, norms |-> << 0, Hidden >>]
NullViews == [o |-> << >>, s |-> << >>, norms |-> << >>]

(* load() from top to bottom; a step names the tensor it converts.         *)
LayerProgram(l) ==
  << << "norm", << l, "attn_norm" >>, 1 >>, << "norm", << l, "ffn_norm" >>, 2 >> >>
  \o [i \in 1 .. 7 |-> << "matrix", << l, Mats[i] >>, i >>]
  \o << << "views", << l >>, 0 >> >>
Prologue ==
  << << "embed", Embed, 0 >>, << "final", Norm, 0 >>, << "lm_head", LmHead, 0 >>,
     << "reset", << >>, 0 >> >>

(* Where the ten steps of layer l begin, less one.                         *)
Base(l) == Len(Prologue) + 10 * (l - 1)

Program ==
  [k \in 1 .. Base(NumLayers + 1) + 1 |->
     IF k <= Len(Prologue) THEN Prologue[k]
     ELSE IF k > Base(NumLayers + 1) THEN << "rope", << >>, 0 >>
     ELSE LET l == CHOOSE l \in Layers : k \in Base(l) + 1 .. Base(l) + 10
          IN  LayerProgram(l)[k - Base(l)]]

-----------------------------------------------------------------------------
(* Buffers                                                                 *)

Blank(n) == [i \in 0 .. n - 1 |-> << >>]
NoModel ==
  [embed |-> << >>, final |-> << >>, lm |-> << >>, lmScales |-> << >>,
   lmPtr |-> "null", norms |-> << >>, blob |-> << >>, scales |-> << >>,
   views |-> << >>, rope |-> FALSE]

(* Row-major elements of a tensor, and the scale of each of its rows.      *)
Element(n, shape, i) ==
  IF Len(shape) = 1 THEN << n, 0, i >>
  ELSE << n, i \div shape[2], i % shape[2] >>
Scale(n, r) == << n, r >>

(* count elements of tensor n written to mem from place p on.              *)
Written(mem, p, n, shape, count) ==
  [i \in DOMAIN mem |->
     IF i \in p .. p + count - 1 THEN Element(n, shape, i - p) ELSE mem[i]]
WrittenScales(mem, p, n, rows) ==
  [i \in DOMAIN mem |-> IF i \in p .. p + rows - 1 THEN Scale(n, i - p) ELSE mem[i]]

Whole(n, shape) ==
  LET size == Elements(shape) IN
  Written(Blank(size), 0, n, shape, size)

(* Plausible bug: only the element count is compared; a transposed weight  *)
(* passes (model.cpp:113-116).                                             *)
RightShapeCount(n) ==
  Elements(tensors[n].shape) = Elements(Shape(n))

RightShape(n) == tensors[n].shape = Shape(n)

(* must_get_shaped, and a type that the cast knows.                        *)
Convertible(n) ==
  tensors[n] # Absent /\ RightShape(n) /\ tensors[n].dtype # "I8"

-----------------------------------------------------------------------------
(* load()                                                                  *)

Op == Program[at][1]
Src == Program[at][2]
Idx == Program[at][3]

(* A tied F32 model reads the embedding matrix itself; a tied F16 or I8    *)
(* model converts it a second time, from the buffer.                       *)
LmHeadLoaded ==
  LET own == IF tied THEN model.embed ELSE Whole(LmHead, tensors[LmHead].shape)
      src == IF tied THEN Embed ELSE LmHead IN
  IF storage = "F32" /\ tied
    THEN [model EXCEPT !.lm = << >>, !.lmPtr = "embed"]
    ELSE [model EXCEPT !.lm = own, !.lmPtr = "own",
            !.lmScales = IF storage = "I8"
                           THEN WrittenScales(Blank(Vocab), 0, src, Vocab) ELSE @]

Reset ==
  [model EXCEPT !.norms = [l \in Layers |-> << >>],
     !.blob = [l \in Layers |-> << >>], !.scales = [l \in Layers |-> << >>],
     !.views = [l \in Layers |-> NullViews]]

NormLoaded(l) ==
  LET nb == IF Idx = 1 THEN Blank(2 * Hidden) ELSE model.norms[l] IN
  [model EXCEPT !.norms[l] =
     Written(nb, (Idx - 1) * Hidden, Src, tensors[Src].shape, Hidden)]

(* The blobs are sized before the first of their matrices.                 *)
MatrixLoaded(l) ==
  LET m == Mats[Idx]
      blob == IF Idx = 1 THEN Blank(Offsets[8]) ELSE model.blob[l]
      scales == IF Idx = 1 THEN Blank(ScaleOffsets[8]) ELSE model.scales[l] IN
  [model EXCEPT
     !.blob[l] = Written(blob, Offsets[Idx], Src, tensors[Src].shape,
                         Rows[m] * Cols[m]),
     !.scales[l] = IF storage = "I8"
       THEN WrittenScales(scales, ScaleOffsets[Idx], Src, Rows[m]) ELSE << >>]

Loaded ==
  CASE Op = "embed"   -> [model EXCEPT !.embed = Whole(Src, tensors[Src].shape)]
    [] Op = "final"   -> [model EXCEPT !.final = Whole(Src, tensors[Src].shape)]
    [] Op = "lm_head" -> LmHeadLoaded
    [] Op = "reset"   -> Reset
    [] Op = "norm"    -> NormLoaded(Src[1])
    [] Op = "matrix"  -> MatrixLoaded(Src[1])
    [] Op = "views"   -> [model EXCEPT !.views[Src[1]] = Views]
    [] Op = "rope"    -> [model EXCEPT !.rope = TRUE]

(* Steps that read a tensor of the weight map.                             *)
Reads == Op \in {"embed", "final", "norm", "matrix"} \/ (Op = "lm_head" /\ ~ tied)

LoadStep(t) ==
  /\ pc[t] = "load" /\ at <= Len(Program)
  /\ Reads => Convertible(Src)
  /\ model' = Loaded /\ at' = at + 1
  /\ UNCHANGED << fileVars, storage, built, pc, faults >>

(* The exception leaves through the lock_guard; what was converted stays.  *)
(* (A buffer that was sized for the failed step stays too; it is not shown *)
(* because the next load sizes it again.)                                  *)
LoadThrows(t) ==
  /\ pc[t] = "load" /\ at <= Len(Program)
  /\ \/ Reads /\ ~ Convertible(Src) /\ UNCHANGED faults
     \/ Op # "views" /\ faults < MaxFaults /\ faults' = faults + 1
  /\ pc' = [pc EXCEPT ![t] = "idle"]
  /\ UNCHANGED << fileVars, storage, built, model, at >>

LoadDone(t) ==
  /\ pc[t] = "load" /\ at > Len(Program)
  /\ built' = TRUE
  /\ pc' = [pc EXCEPT ![t] = "forward"]
  /\ UNCHANGED << fileVars, storage, model, at, faults >>

(* Plausible bug: the flag is set before the load, not after it.           *)
EnsureEager(t) ==
  /\ pc[t] = "locked"
  /\ pc' = [pc EXCEPT ![t] = IF built THEN "forward" ELSE "load"]
  /\ at' = IF built THEN at ELSE 1
  /\ built' = TRUE
  /\ UNCHANGED << fileVars, storage, model, faults >>

Ensure(t) ==
  /\ pc[t] = "locked"
  /\ pc' = [pc EXCEPT ![t] = IF built THEN "forward" ELSE "load"]
  /\ at' = IF built THEN at ELSE 1
  /\ UNCHANGED << fileVars, storage, built, model, faults >>

-----------------------------------------------------------------------------
(* Calls of the engine                                                     *)

(* forward_mu_ is held from here to the end of the call.                   *)
Lock(t) ==
  /\ scan.pc = "loaded" /\ \A u \in Threads : pc[u] = "idle"
  /\ pc' = [pc EXCEPT ![t] = "locked"]
  /\ UNCHANGED << fileVars, storage, built, model, at, faults >>

(* The forward passes of the call, which only read the model, and its end. *)
Forward(t) ==
  /\ pc[t] = "forward"
  /\ pc' = [pc EXCEPT ![t] = "idle"]
  /\ UNCHANGED << fileVars, storage, built, model, at, faults >>

(* The engine is destroyed; another may be made.                           *)
Close ==
  /\ scan.pc = "loaded" /\ \A t \in Threads : pc[t] = "idle"
  /\ Destroy
  /\ built' = FALSE /\ model' = NoModel /\ at' = 1 /\ faults' = 0
  /\ UNCHANGED << storage, pc >>

Init ==
  /\ FilesInit
  /\ storage \in {"F32", "F16", "I8"}
  /\ built = FALSE /\ model = NoModel /\ at = 1 /\ faults = 0
  /\ pc = [t \in Threads |-> "idle"]

ReadFiles == FilesNext /\ UNCHANGED << storage, built, model, pc, at, faults >>

Next ==
  \/ ReadFiles \/ Close
  \/ \E t \in Threads :
       Lock(t) \/ Ensure(t) \/ LoadStep(t) \/ LoadThrows(t) \/ LoadDone(t) \/ Forward(t)

Spec == Init /\ [][Next]_vars

-----------------------------------------------------------------------------
(* Properties                                                              *)

(* Types and ranges of the state of the weight map and of the load.        *)
TypeOK ==
  /\ tied \in BOOLEAN /\ built \in BOOLEAN /\ storage \in {"F32", "F16", "I8"}
  /\ {fds, maps, lost} \subseteq [DOMAIN Shards -> Nat] /\ files \subseteq DOMAIN Shards
  /\ mapped \in [DOMAIN Shards -> 0 .. Word - 1]
  /\ scan.pc \in
       {"closed", "open", "map", "own", "header", "entry", "alias", "loaded"}
  /\ \A n \in Names : tensors[n] # Absent =>
       /\ tensors[n].dtype \in DOMAIN Width /\ tensors[n].shape \in Seq(Nat)
       /\ {tensors[n].data, tensors[n].nbytes} \subseteq 0 .. Word - 1
  /\ pc \in [Threads -> {"idle", "locked", "load", "forward"}]
  /\ at \in 1 .. Len(Program) + 1
  /\ odd \in 0 .. MaxOdd /\ faults \in 0 .. MaxFaults

(* What the kernels read through a view at offset p: rows x cols elements. *)
ReadsAs(mem, p, n, rows, cols) ==
  \A r \in 0 .. rows - 1, c \in 0 .. cols - 1 :
    /\ p + r * cols + c \in DOMAIN mem
    /\ mem[p + r * cols + c] = << n, r, c >>

ScalesAs(mem, p, n, rows) ==
  \A r \in 0 .. rows - 1 : p + r \in DOMAIN mem /\ mem[p + r] = << n, r >>

LayerWhole(l) ==
  LET v == model.views[l] IN
  /\ v # NullViews
  /\ ReadsAs(model.norms[l], v.norms[1], << l, "attn_norm" >>, 1, Hidden)
  /\ ReadsAs(model.norms[l], v.norms[2], << l, "ffn_norm" >>, 1, Hidden)
  /\ \A i \in DOMAIN Mats :
       LET m == Mats[i] IN
       /\ ReadsAs(model.blob[l], v.o[i], << l, m >>, Rows[m], Cols[m])
       /\ storage = "I8" => ScalesAs(model.scales[l], v.s[i], << l, m >>, Rows[m])

(* A forward pass never runs on a model that a failed load left half       *)
(* built: whichever thread loads, however often a load failed before it,   *)
(* and whatever the files hold, every matrix, norm and scale that a kernel *)
(* reads is the whole tensor of its own name and in its own orientation    *)
(* (engine.cpp:80-84, model.cpp:178-390).  A tied model reads the          *)
(* embedding as its lm_head, without a copy when it is stored in F32.      *)
ForwardSeesWholeModel ==
  (\E t \in Threads : pc[t] = "forward") =>
    LET head == IF tied THEN Embed ELSE LmHead IN
    /\ ReadsAs(model.embed, 0, Embed, Vocab, Hidden)
    /\ ReadsAs(model.final, 0, Norm, 1, Hidden)
    /\ model.lmPtr = IF tied /\ storage = "F32" THEN "embed" ELSE "own"
    /\ model.lmPtr = "own" => ReadsAs(model.lm, 0, head, Vocab, Hidden)
    /\ storage = "I8" => ScalesAs(model.lmScales, 0, head, Vocab)
    /\ model.rope
    /\ \A l \in Layers : LayerWhole(l)
=============================================================================
