---------------------------- MODULE WeightFiles ----------------------------
(***************************************************************************)
(* WeightMap: the safetensors shards of a model directory are mapped into  *)
(* memory and their tensors published as views of the mappings.  It runs   *)
(* inside the constructor of Engine, on one thread; an exception destroys  *)
(* the half-filled map, and the caller may construct the engine again.     *)
(*                                                                         *)
(* What a shard contains is chosen when it is read: the sound content of   *)
(* the model, with at most MaxOdd deviations (a truncated file, a wrong    *)
(* header length, an entry with any type, shape and byte range).           *)
(***************************************************************************)
EXTENDS Integers, Sequences

CONSTANTS
  Word,           (* 2^64: uint64_t counts modulo Word                     *)
  MaxString,      (* std::string::max_size(), below Word                   *)
  Names,          (* tensor names                                          *)
  Embed, LmHead,  (* model.embed_tokens.weight, lm_head.weight             *)
  Shards,         (* in name order, their sound form: bytes and length of  *)
                  (* the header, and the entries in the header's order     *)
  Sound,          (* per name: its sound data type and shape               *)
  OddSizes, OddHeaders, OddNames, OddDims, OddOffsets,
  MaxOdd,         (* bound: deviations in a directory                      *)
  MaxLost         (* bound: times files_ cannot grow                       *)

Width == [F32 |-> 4, F16 |-> 2, BF16 |-> 2, I8 |-> 1]

(* A file's size is an off_t, the numbers in its header are uint64_t.      *)
ASSUME WordAssumption ==
  /\ Word \in Nat \ {0} /\ MaxString \in Nat /\ MaxString + 8 < Word
  /\ Shards # << >> /\ DOMAIN Shards = 1 .. Len(Shards) /\ Len(Shards) \in Nat
  /\ \A s \in DOMAIN Shards :
       /\ Shards[s].size \in Nat /\ 2 * Shards[s].size < Word
       /\ Shards[s].header \in 0 .. Word - 1 /\ Shards[s].names \in Seq(Names)
  /\ \A size \in OddSizes : size \in Nat /\ 2 * size < Word
  /\ OddHeaders \cup OddOffsets \subseteq 0 .. Word - 1

ASSUME TensorAssumption ==
  /\ {Embed, LmHead} \subseteq Names
  /\ Sound \in [Names -> [dtype : DOMAIN Width, shape : Seq(Nat)]]
  /\ OddDims \subseteq Int /\ {MaxOdd, MaxLost} \subseteq Nat

VARIABLES
  tied,           (* cfg.tie_word_embeddings                               *)
  fds, maps,      (* of the process: how often a shard is open, is mapped  *)
  mapped,         (* length of the mapping that the map has made           *)
  files,          (* files_: shards the map owns                           *)
  tensors,        (* tensors_                                              *)
  scan,           (* load_safetensors_dir and load_one_file's locals       *)
  odd,            (* deviations so far                                     *)
  lost            (* history: how often files_ could not take a shard      *)

fileVars == << tied, fds, maps, mapped, files, tensors, scan, odd, lost >>

Prefix == 8                                 (* bytes of the header length  *)
Absent == [shard |-> 0]
Closed == [pc |-> "closed"]
Zero == [s \in DOMAIN Shards |-> 0]

FilesInit ==
  /\ tied \in BOOLEAN
  /\ fds = Zero /\ maps = Zero /\ mapped = Zero /\ files = {}
  /\ tensors = [n \in Names |-> Absent]
  /\ scan = Closed /\ odd = 0 /\ lost = Zero

-----------------------------------------------------------------------------
One(s, set) == IF s \in set THEN 1 ELSE 0

(* ~WeightMap() unmaps and closes what the map owns; an error path may     *)
(* have closed the file in its hand before.                                *)
Unwind(closing) ==
  /\ fds' = [s \in DOMAIN Shards |-> fds[s] - One(s, closing)]
  /\ maps' = [s \in DOMAIN Shards |-> maps[s] - One(s, files)]
  /\ mapped' = Zero /\ files' = {} /\ tensors' = [n \in Names |-> Absent]
  /\ scan' = Closed /\ odd' = 0
  /\ UNCHANGED tied

Destroy == Unwind(files) /\ UNCHANGED lost

(* What may be found where the sound model has x, and what it counts for.  *)
Among(x, others) == IF odd < MaxOdd THEN {x} \cup others ELSE {x}
Count(strange) == odd' = IF strange THEN odd + 1 ELSE odd

(* No directory, or no shard in it.                                        *)
ListDirectory ==
  /\ scan.pc = "closed"
  /\ \/ Destroy
     \/ /\ scan' = [pc |-> "open", shard |-> 1]
        /\ UNCHANGED << tied, fds, maps, mapped, files, tensors, odd, lost >>

OpenFile ==
  /\ scan.pc = "open"
  /\ \/ Destroy
     \/ /\ fds' = [fds EXCEPT ![scan.shard] = @ + 1]
        /\ scan' = [scan EXCEPT !.pc = "map"]
        /\ UNCHANGED << tied, maps, mapped, files, tensors, odd, lost >>

(* Plausible bug: the descriptor stays open.                               *)
MapFailsLeaky == scan.pc = "map" /\ Destroy

(* The throw of a failed fstat or mmap.                                    *)
MapFails ==
  /\ scan.pc = "map"
  /\ Unwind(files \cup {scan.shard})
  /\ UNCHANGED lost

(* An empty file cannot be mapped.                                         *)
MapFile ==
  /\ scan.pc = "map"
  /\ \E size \in Among(Shards[scan.shard].size, OddSizes) \ {0} :
       /\ mapped' = [mapped EXCEPT ![scan.shard] = size]
       /\ Count(size # Shards[scan.shard].size)
  /\ maps' = [maps EXCEPT ![scan.shard] = @ + 1]
  /\ scan' = [scan EXCEPT !.pc = "own"]
  /\ UNCHANGED << tied, fds, files, tensors, lost >>

(* files_.push_back: from here on the map owns the shard.                  *)
OwnFile ==
  /\ scan.pc = "own"
  /\ files' = files \cup {scan.shard}
  /\ scan' = [scan EXCEPT !.pc = "header"]
  /\ UNCHANGED << tied, fds, maps, mapped, tensors, odd, lost >>

(* files_ cannot grow: the destructor knows nothing of this shard.         *)
OwnFails ==
  /\ scan.pc = "own" /\ \A s \in DOMAIN Shards : lost[s] < MaxLost
  /\ lost' = [lost EXCEPT ![scan.shard] = @ + 1]
  /\ Unwind(files)

-----------------------------------------------------------------------------
(* The header and its entries                                              *)

Size == mapped[scan.shard]

(* Plausible bug: nothing refuses a length whose sum with 8 wraps.         *)
HeaderFitsWrapped(len) == Size >= Prefix /\ (len + Prefix) % Word <= Size

(* The header must end inside the file.  The sum is taken in 64 bits: what *)
(* wraps passes, and then is too long for the string that is to hold it.   *)
HeaderFits(len) ==
  Size >= Prefix /\ (len + Prefix) % Word <= Size /\ len <= MaxString

ReadHeader ==
  /\ scan.pc = "header"
  /\ \/ Destroy                   (* an overrun, no JSON, out of memory    *)
     \/ \E len \in Among(Shards[scan.shard].header, OddHeaders) :
          /\ HeaderFits(len)
          /\ scan' = [pc |-> "entry", shard |-> scan.shard, header |-> len,
                      todo |-> Shards[scan.shard].names]
          /\ Count(len # Shards[scan.shard].header)
          /\ UNCHANGED << tied, fds, maps, mapped, files, tensors, lost >>

Overflows(count, factor) == factor # 0 /\ count > (Word - 1) \div factor

Bad == -1                         (* in place of a count: an exception     *)

(* Plausible bug: a negative dimension is only cast.                       *)
TimesCast(count, d) ==
  IF count = Bad \/ Overflows(count, d % Word) THEN Bad ELSE (count * d) % Word

Times(count, d) ==
  IF count = Bad \/ d < 0 \/ Overflows(count, d) THEN Bad ELSE (count * d) % Word

(* expected_bytes: the dimensions one after the other, then the type.      *)
ExpectedBytes(dtype, shape) ==
  LET upTo[r \in 0 .. Len(shape)] ==
        IF r = 0 THEN 1 ELSE Times(upTo[r - 1], shape[r])
  IN  Times(upTo[Len(shape)], Width[dtype])

(* Plausible bug: offsets are bounded by the file, not by its data section *)
(* (the check before the one in the code, weights.cpp:217-221).            *)
InDataSectionOfFile(lo, hi) == lo <= hi /\ hi <= Size

InDataSection(lo, hi) ==
  lo <= hi /\ hi <= (Size - Prefix - scan.header) % Word

(* Of two tensors with one name the first is kept (emplace).               *)
Publish(n, dtype, shape, lo, hi) ==
  /\ ExpectedBytes(dtype, shape) # Bad
  /\ InDataSection(lo, hi)
  /\ hi - lo = ExpectedBytes(dtype, shape)
  /\ tensors' = [tensors EXCEPT ![n] =
       IF @ # Absent THEN @
       ELSE [shard |-> scan.shard, dtype |-> dtype, shape |-> shape,
             data |-> (Prefix + scan.header + lo) % Word, nbytes |-> hi - lo]]

OddShapes == UNION {[1 .. r -> OddDims] : r \in 0 .. 2}

(* An entry that is malformed, or refused, throws; a deviation may also be *)
(* that the entry is missing.  A sound one starts the data section.        *)
ReadEntry ==
  /\ scan.pc = "entry" /\ scan.todo # << >>
  /\ LET n == Head(scan.todo)  sound == Sound[n] IN
     \/ Destroy
     \/ /\ \/ /\ Publish(n, sound.dtype, sound.shape,
                         0, ExpectedBytes(sound.dtype, sound.shape))
              /\ Count(FALSE)
           \/ /\ odd < MaxOdd /\ n \in OddNames
              /\ Count(TRUE)
              /\ \/ tensors' = tensors
                 \/ \E dtype \in DOMAIN Width, shape \in OddShapes,
                       lo, hi \in OddOffsets : Publish(n, dtype, shape, lo, hi)
        /\ scan' = [scan EXCEPT !.todo = Tail(@)]
        /\ UNCHANGED << tied, fds, maps, mapped, files, lost >>

NextShard ==
  /\ scan.pc = "entry" /\ scan.todo = << >>
  /\ scan' = IF scan.shard < Len(Shards)
               THEN [pc |-> "open", shard |-> scan.shard + 1] ELSE [pc |-> "alias"]
  /\ UNCHANGED << tied, fds, maps, mapped, files, tensors, odd, lost >>

(* apply_tied_lm_head_alias(): a tied model has one embedding buffer, of   *)
(* which lm_head is a second name; two copies must at least agree in form. *)
SameData(e, h) == e.shard = h.shard /\ e.data = h.data
SameForm(e, h) == e.shape = h.shape /\ e.dtype = h.dtype

AliasTied ==
  /\ scan.pc = "alias"
  /\ LET e == tensors[Embed]  h == tensors[LmHead]
         apart == tied /\ e # Absent /\ (h # Absent => ~ SameData(e, h)) IN
     IF apart /\ h # Absent /\ ~ SameForm(e, h)
       THEN Destroy
       ELSE /\ tensors' = IF apart THEN [tensors EXCEPT ![LmHead] = e] ELSE tensors
            /\ scan' = [pc |-> "loaded"]
            /\ UNCHANGED << tied, fds, maps, mapped, files, odd, lost >>

FilesNext ==
  \/ ListDirectory \/ OpenFile \/ MapFails \/ MapFile \/ OwnFile \/ OwnFails
  \/ ReadHeader \/ ReadEntry \/ NextShard \/ AliasTied

-----------------------------------------------------------------------------
(* Properties                                                              *)

(* The elements of a tensor (numel), without bounds on the numbers: what   *)
(* would wrap was refused.                                                 *)
Elements(shape) ==
  LET upTo[r \in 0 .. Len(shape)] == IF r = 0 THEN 1 ELSE upTo[r - 1] * shape[r]
  IN  upTo[Len(shape)]

(* Whoever reads all elements of a published tensor, as the conversions of *)
(* model.cpp do, stays inside the mapping of its shard and out of the      *)
(* header, whatever the file says: the exact size, computed without wrap,  *)
(* lies in the data section (weights.cpp:176-239).                         *)
TensorsInMappings ==
  \A n \in Names : tensors[n] # Absent =>
    LET t == tensors[n]
        bytes == Elements(t.shape) * Width[t.dtype] IN
    /\ t.shard \in files
    /\ t.data >= Prefix
    /\ bytes >= 0 /\ t.data + bytes <= mapped[t.shard]

(* The shard that load_one_file has in its hand in one of these phases.    *)
InHand(phases) == IF scan.pc \in phases THEN {scan.shard} ELSE {}

(* A shard is open, or mapped, once for the map that owns it, once while   *)
(* load_one_file has it in its hand, and once for every time that files_   *)
(* could not take it: those descriptors and mappings are nobody's and stay *)
(* to the end of the process (weights.cpp:168).  Nothing else leaks: when  *)
(* the constructor has thrown, at whatever other point, or the engine is   *)
(* gone, all is closed and unmapped (weights.cpp:119-124, 145-166).        *)
NothingElseLeaks ==
  /\ \A s \in DOMAIN Shards :
       /\ fds[s] = One(s, files) + One(s, InHand({"map", "own"})) + lost[s]
       /\ maps[s] = One(s, files) + One(s, InHand({"own"})) + lost[s]
  /\ scan.pc = "closed" => files = {}
  /\ scan.pc = "loaded" => files = DOMAIN Shards
=============================================================================
