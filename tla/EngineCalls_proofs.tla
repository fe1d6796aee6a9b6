------------------------- MODULE EngineCalls_proofs -------------------------
(***************************************************************************)
(* Concurrent calls of one engine do not disturb each other: whatever the  *)
(* threads, their requests and the bound on calls, each call hands out     *)
(* what it would hand out alone, and ends once.                            *)
(***************************************************************************)
EXTENDS EngineCalls, SequenceTheorems, TLAPS

-----------------------------------------------------------------------------
(* The inductive invariant                                                 *)

(* Where a call is; a generate nested in a callback returns to that place. *)
Place(t) == IF pc[t] \in {"nestedLock", "nested"} THEN back[t] ELSE pc[t]

Full(r) == IF r.eos < r.max THEN r.eos ELSE r.max

(* The values in the scratch buffers during a forward pass are its own.    *)
ScratchOwned == \A t \in Threads : pc[t] = "forward" => scratch = t

(* The tokens handed out are those of the sequence, so far.                *)
OutOK(t) ==
  /\ Len(out[t]) = IF Place(t) \in {"relock", "advance"} THEN generated[t] + 1
                                                         ELSE generated[t]
  /\ Len(out[t]) <= Full(req[t])
  /\ \A i \in 1 .. Len(out[t]) : out[t][i] = req[t].prompt + i - 1

(* The logits are those after all positions of the cache.                  *)
AtToken(t) == pos[t] = req[t].prompt + generated[t] /\ logits[t] = pos[t]

CacheOK(t) ==
  /\ Place(t) \in {"lock", "setup", "prefill"} => generated[t] = 0
  /\ Place(t) \in {"lock", "setup"} => pos[t] = 0
  /\ Place(t) = "prefill" =>
       pos[t] <= req[t].prompt /\ (pos[t] = req[t].prompt => AtToken(t))
  /\ Place(t) = "forward" =>
       \/ pos[t] < req[t].prompt /\ generated[t] = 0
       \/ pos[t] + 1 = req[t].prompt + generated[t]
            /\ 0 < generated[t] /\ generated[t] < req[t].max
  /\ Place(t) = "loop" /\ generated[t] < req[t].max => AtToken(t)
  /\ Place(t) \in {"token", "relock", "advance"} =>
       AtToken(t) /\ generated[t] < Full(req[t])

ReasonOK(t) ==
  /\ Place(t) \notin {"finish", "onDone", "idle"} => reason[t] = "none"
  /\ Place(t) \in {"finish", "onDone"} => reason[t] # "none"
  /\ reason[t] \in {"stop", "length"} =>
       /\ Len(out[t]) = Full(req[t])
       /\ reason[t] = IF req[t].eos < req[t].max THEN "stop" ELSE "length"

DoneOK(t) ==
  /\ Place(t) = "onDone" => Streams(t)
  /\ done[t] = IF Place(t) = "idle" /\ reason[t] # "none" /\ Streams(t)
                 THEN << reason[t] >> ELSE << >>

CancelOK(t) ==
  /\ cancel[t] => Streams(t)
  /\ reason[t] = "cancelled" => cancel[t]
  /\ late[t] = 0 \/ (late[t] = 1 /\ cancel[t] /\ Place(t) # "token")

CallOK(t) == OutOK(t) /\ CacheOK(t) /\ ReasonOK(t) /\ DoneOK(t) /\ CancelOK(t)

IInv == TypeOK /\ LockDiscipline /\ ScratchOwned /\ \A t \in Threads : CallOK(t)

-----------------------------------------------------------------------------
(* A step of one thread                                                    *)

Numbers(t) ==
  /\ req[t].prompt \in Nat \ {0} /\ req[t].max \in Nat /\ req[t].eos \in Nat
  /\ Full(req[t]) \in Nat /\ Full(req[t]) <= req[t].max /\ Full(req[t]) <= req[t].eos
  /\ pos[t] \in Nat /\ generated[t] \in Nat /\ Len(out[t]) \in Nat /\ late[t] \in Nat
  /\ logits[t] \in Int /\ cancel[t] \in BOOLEAN /\ back[t] \in {"idle", "relock"}
  /\ reason[t] \in Reasons

LEMMA NumbersOK ==
  ASSUME TypeOK, NEW t \in Threads
  PROVE  Numbers(t)
<1>1. req[t] \in [kind : {"stream", "generate"}, prompt : Nat \ {0}, max : Nat,
                  eos : Nat, fault : {"none", "token", "shape"}]
  BY CallsAssumption DEF TypeOK
<1>2. logits[t] \in Int
  <2>1. logits[t] \in Nat \cup {Garbage} /\ Garbage \in Int
    BY DEF TypeOK, Garbage
  <2> QED BY <2>1
<1>3. Len(out[t]) \in Nat
  <2>1. out[t] \in Seq(Nat \cup {Garbage})
    BY DEF TypeOK
  <2> QED BY <2>1
<1>4. /\ pos[t] \in Nat /\ generated[t] \in Nat /\ late[t] \in Nat
      /\ cancel[t] \in BOOLEAN /\ back[t] \in {"idle", "relock"}
      /\ reason[t] \in Reasons
  BY DEF TypeOK
<1>5. Full(req[t]) \in Nat /\ Full(req[t]) <= req[t].max /\ Full(req[t]) <= req[t].eos
  BY <1>1 DEF Full
<1> QED BY <1>1, <1>2, <1>3, <1>4, <1>5 DEF Numbers

(* Only the call of t moves; it takes the mutex if it is free, gives back  *)
(* what it owns, and uses the scratch buffers only while it owns it.       *)
Moves(t) ==
  /\ \A u \in Threads \ {t} :
       UNCHANGED << pc[u], req[u], pos[u], logits[u], generated[u], out[u],
                    reason[u], cancel[u], late[u], done[u], back[u] >>
  /\ mu' = mu \/ (mu = Nobody /\ mu' = t) \/ (mu = t /\ mu' = Nobody)
  /\ scratch' = scratch \/ mu = t

(* TypeOK but for the bound on the cache's length.                         *)
Ranges ==
  /\ mu \in Threads \cup {Nobody} /\ scratch \in Threads \cup {Nobody}
  /\ calls \in 0 .. MaxCalls
  /\ pc \in [Threads -> Locked \cup Unlocked \cup {"token", "finish"}]
  /\ req \in [Threads -> Requests] /\ pos \in [Threads -> Nat]
  /\ logits \in [Threads -> Nat \cup {Garbage}]
  /\ generated \in [Threads -> Nat] /\ out \in [Threads -> Seq(Nat \cup {Garbage})]
  /\ reason \in [Threads -> Reasons]
  /\ cancel \in [Threads -> BOOLEAN] /\ late \in [Threads -> Nat]
  /\ done \in [Threads -> Seq(Reasons)] /\ back \in [Threads -> {"idle", "relock"}]

CacheFits(t) == pos[t] <= WrittenAtMost(req[t])

Disciplined(t) ==
  /\ pc[t] \in Locked => mu = t
  /\ pc[t] \in Unlocked => mu # t
  /\ pc[t] = "token" => (mu = t <=> ~ Streams(t))
  /\ pc[t] = "forward" => scratch = t

LEMMA Before ==
  ASSUME IInv, NEW t \in Threads
  PROVE  Numbers(t) /\ CacheFits(t) /\ Disciplined(t) /\ CallOK(t)
BY NumbersOK DEF IInv, TypeOK, CacheFits, LockDiscipline, ScratchOwned, Disciplined

LEMMA OneCall ==
  ASSUME IInv, NEW t \in Threads, Moves(t), Ranges', CacheFits(t)', Disciplined(t)',
         CallOK(t)'
  PROVE  IInv'
<1>1. ASSUME NEW u \in Threads, u # t
      PROVE  CacheFits(u)' /\ Disciplined(u)' /\ CallOK(u)'
  <2>1. UNCHANGED << pc[u], req[u], pos[u], logits[u], generated[u], out[u],
                     reason[u], cancel[u], late[u], done[u], back[u] >>
    BY <1>1 DEF Moves
  <2>2. CacheFits(u)' /\ CallOK(u)'
    BY <2>1 DEF IInv, TypeOK, CacheFits, WrittenAtMost, CallOK, OutOK, CacheOK,
                ReasonOK, DoneOK, CancelOK, AtToken, Place, Streams
  <2>3. Disciplined(u)'
    <3>1. Disciplined(u)
      BY DEF IInv, LockDiscipline, ScratchOwned, Disciplined
    <3>2. /\ mu' = mu \/ (mu = Nobody /\ mu' = t) \/ (mu = t /\ mu' = Nobody)
          /\ scratch' = scratch \/ mu = t
      BY DEF Moves
    <3>3. "forward" \in Locked /\ u # Nobody
      BY CallsAssumption DEF Locked
    <3> QED BY <1>1, <2>1, <3>1, <3>2, <3>3 DEF Disciplined, Streams
  <2> QED BY <2>2, <2>3
<1>2. \A u \in Threads : CacheFits(u)' /\ Disciplined(u)' /\ CallOK(u)'
  BY <1>1
<1>3. LockDiscipline' /\ ScratchOwned'
  BY <1>2 DEF Disciplined, LockDiscipline, ScratchOwned
<1>4. TypeOK'
  BY <1>2 DEF Ranges, CacheFits, TypeOK
<1> QED BY <1>2, <1>3, <1>4 DEF IInv

-----------------------------------------------------------------------------
(* Each operation preserves the invariant                                  *)

LEMMA CancelInv ==
  ASSUME IInv, NEW t \in Threads, Cancel(t)
  PROVE  IInv'
<1>1. Numbers(t) /\ CacheFits(t) /\ Disciplined(t) /\ CallOK(t)
  BY Before
<1>2. /\ pc[t] # "idle" /\ pc'[t] = pc[t] /\ Streams(t) /\ cancel'[t] /\ ~ cancel[t]
      /\ mu' = mu /\ scratch' = scratch
      /\ UNCHANGED << req[t], pos[t], logits[t], generated[t], out[t], reason[t],
                     late[t], done[t], back[t] >>
  BY <1>1 DEF IInv, TypeOK, Numbers, Cancel, data
<1>3. Ranges'
  BY <1>1, CallsAssumption DEF IInv, TypeOK, Numbers, Ranges, Reasons, Locked, Unlocked,
     Cancel, data
<1>4. Moves(t)
  BY <1>1, <1>2 DEF IInv, TypeOK, Moves, Disciplined, Locked, Cancel, data
<1>5. CacheFits(t)'
  BY <1>1, <1>2 DEF Numbers, CacheFits, CallOK, CacheOK, Place, WrittenAtMost
<1>6. Disciplined(t)'
  BY <1>1, <1>2, CallsAssumption DEF Numbers, Disciplined, Locked, Unlocked, Streams,
     CallOK, DoneOK, Place
<1>7. OutOK(t)'
  BY <1>1, <1>2 DEF Numbers, CallOK, OutOK, CacheOK, Place, AtToken
<1>8. CacheOK(t)'
  BY <1>1, <1>2 DEF Numbers, CallOK, OutOK, CacheOK, Disciplined, Place, AtToken
<1>9. ReasonOK(t)' /\ DoneOK(t)' /\ CancelOK(t)'
  BY <1>1, <1>2 DEF Numbers, CallOK, OutOK, CacheOK, ReasonOK, DoneOK, CancelOK,
     AtToken, Place, Streams, Full
<1> QED BY <1>3, <1>4, <1>5, <1>6, <1>7, <1>8, <1>9, OneCall DEF CallOK

LEMMA LockInv ==
  ASSUME IInv, NEW t \in Threads, Lock(t)
  PROVE  IInv'
<1>1. Numbers(t) /\ CacheFits(t) /\ Disciplined(t) /\ CallOK(t)
  BY Before
<1>2. /\ pc[t] = "lock" /\ pc'[t] = "setup"
      /\ mu = Nobody /\ mu' = t /\ scratch' = scratch
      /\ UNCHANGED << req[t], pos[t], logits[t], generated[t], out[t], reason[t],
                     cancel[t], late[t], done[t], back[t] >>
  BY <1>1 DEF IInv, TypeOK, Numbers, Lock, Goto, data
<1>3. Ranges'
  BY <1>1, CallsAssumption DEF IInv, TypeOK, Numbers, Ranges, Reasons, Locked, Unlocked,
     Lock, Goto, data
<1>4. Moves(t)
  BY <1>1, <1>2 DEF IInv, TypeOK, Moves, Disciplined, Locked, Lock, Goto, data
<1>5. CacheFits(t)'
  BY <1>1, <1>2 DEF Numbers, CacheFits, CallOK, CacheOK, Place, WrittenAtMost
<1>6. Disciplined(t)'
  BY <1>1, <1>2, CallsAssumption DEF Numbers, Disciplined, Locked, Unlocked, Streams,
     CallOK, DoneOK, Place
<1>7. OutOK(t)'
  BY <1>1, <1>2 DEF Numbers, CallOK, OutOK, CacheOK, Place, AtToken
<1>8. CacheOK(t)'
  BY <1>1, <1>2 DEF Numbers, CallOK, OutOK, CacheOK, Disciplined, Place, AtToken
<1>9. ReasonOK(t)' /\ DoneOK(t)' /\ CancelOK(t)'
  BY <1>1, <1>2 DEF Numbers, CallOK, OutOK, CacheOK, ReasonOK, DoneOK, CancelOK,
     AtToken, Place, Streams, Full
<1> QED BY <1>3, <1>4, <1>5, <1>6, <1>7, <1>8, <1>9, OneCall DEF CallOK

LEMMA SetupInv ==
  ASSUME IInv, NEW t \in Threads, Setup(t)
  PROVE  IInv'
<1>1. Numbers(t) /\ CacheFits(t) /\ Disciplined(t) /\ CallOK(t)
  BY Before
<1>2. /\ pc[t] = "setup"
      /\ \/ pc'[t] = "finish" /\ reason'[t] = "error"
         \/ pc'[t] = "prefill" /\ reason'[t] = reason[t]
      /\ mu' = mu /\ scratch' = scratch
      /\ UNCHANGED << req[t], pos[t], logits[t], generated[t], out[t], cancel[t],
                     late[t], done[t], back[t] >>
  BY <1>1 DEF IInv, TypeOK, Numbers, Setup, End, Goto, data
<1>3. Ranges'
  BY <1>1, CallsAssumption DEF IInv, TypeOK, Numbers, Ranges, Reasons, Locked, Unlocked,
     Setup, End, Goto, data
<1>4. Moves(t)
  BY <1>1, <1>2 DEF IInv, TypeOK, Moves, Disciplined, Locked, Setup, End, Goto, data
<1>5. CacheFits(t)'
  BY <1>1, <1>2 DEF Numbers, CacheFits, CallOK, CacheOK, Place, WrittenAtMost
<1>6. Disciplined(t)'
  BY <1>1, <1>2, CallsAssumption DEF Numbers, Disciplined, Locked, Unlocked, Streams,
     CallOK, DoneOK, Place
<1>7. OutOK(t)'
  BY <1>1, <1>2 DEF Numbers, CallOK, OutOK, CacheOK, Place, AtToken
<1>8. CacheOK(t)'
  BY <1>1, <1>2 DEF Numbers, CallOK, OutOK, CacheOK, Disciplined, Place, AtToken
<1>9. ReasonOK(t)' /\ DoneOK(t)' /\ CancelOK(t)'
  BY <1>1, <1>2 DEF Numbers, CallOK, OutOK, CacheOK, ReasonOK, DoneOK, CancelOK,
     AtToken, Place, Streams, Full
<1> QED BY <1>3, <1>4, <1>5, <1>6, <1>7, <1>8, <1>9, OneCall DEF CallOK

LEMMA ThrowInv ==
  ASSUME IInv, NEW t \in Threads, Throw(t)
  PROVE  IInv'
<1>1. Numbers(t) /\ CacheFits(t) /\ Disciplined(t) /\ CallOK(t)
  BY Before
<1>2. /\ pc[t] \in {"setup", "forward"} /\ pc'[t] = "finish"
      /\ reason'[t] \in {"error", "throw"}
      /\ mu' = mu /\ scratch' = scratch
      /\ UNCHANGED << req[t], pos[t], logits[t], generated[t], out[t], cancel[t],
                     late[t], done[t], back[t] >>
  BY <1>1 DEF IInv, TypeOK, Numbers, Throw, End, Goto, data
<1>3. Ranges'
  BY <1>1, CallsAssumption DEF IInv, TypeOK, Numbers, Ranges, Reasons, Locked, Unlocked,
     Throw, End, Goto, data
<1>4. Moves(t)
  BY <1>1, <1>2 DEF IInv, TypeOK, Moves, Disciplined, Locked, Throw, End, Goto, data
<1>5. CacheFits(t)'
  BY <1>1, <1>2 DEF Numbers, CacheFits, CallOK, CacheOK, Place, WrittenAtMost
<1>6. Disciplined(t)'
  BY <1>1, <1>2, CallsAssumption DEF Numbers, Disciplined, Locked, Unlocked, Streams,
     CallOK, DoneOK, Place
<1>7. OutOK(t)'
  BY <1>1, <1>2 DEF Numbers, CallOK, OutOK, CacheOK, Place, AtToken
<1>8. CacheOK(t)'
  BY <1>1, <1>2 DEF Numbers, CallOK, OutOK, CacheOK, Disciplined, Place, AtToken
<1>9. ReasonOK(t)' /\ DoneOK(t)' /\ CancelOK(t)'
  BY <1>1, <1>2 DEF Numbers, CallOK, OutOK, CacheOK, ReasonOK, DoneOK, CancelOK,
     AtToken, Place, Streams, Full
<1> QED BY <1>3, <1>4, <1>5, <1>6, <1>7, <1>8, <1>9, OneCall DEF CallOK

LEMMA PrefillInv ==
  ASSUME IInv, NEW t \in Threads, Prefill(t)
  PROVE  IInv'
<1>1. Numbers(t) /\ CacheFits(t) /\ Disciplined(t) /\ CallOK(t)
  BY Before
<1>2. /\ pc[t] = "prefill" /\ mu' = mu
      /\ \/ /\ pos[t] = req[t].prompt /\ pc'[t] = "loop"
            /\ scratch' = scratch /\ reason'[t] = reason[t]
         \/ /\ pos[t] # req[t].prompt /\ pc'[t] = "finish" /\ cancel[t]
            /\ scratch' = scratch /\ reason'[t] = "cancelled"
         \/ /\ pos[t] # req[t].prompt /\ pc'[t] = "forward"
            /\ scratch' = t /\ reason'[t] = reason[t]
      /\ UNCHANGED << req[t], pos[t], logits[t], generated[t], out[t], cancel[t],
                     late[t], done[t], back[t] >>
  BY <1>1 DEF IInv, TypeOK, Numbers, Prefill, BeginForward, Cancelled, End, Goto, data
<1>3. Ranges'
  BY <1>1, CallsAssumption DEF IInv, TypeOK, Numbers, Ranges, Reasons, Locked, Unlocked,
     Prefill, BeginForward, Cancelled, End, Goto, data
<1>4. Moves(t)
  BY <1>1, <1>2 DEF IInv, TypeOK, Moves, Disciplined, Locked, Prefill, BeginForward,
     Cancelled, End, Goto, data
<1>5. CacheFits(t)'
  BY <1>1, <1>2 DEF Numbers, CacheFits, CallOK, CacheOK, Place, WrittenAtMost
<1>6. Disciplined(t)'
  BY <1>1, <1>2, CallsAssumption DEF Numbers, Disciplined, Locked, Unlocked, Streams,
     CallOK, DoneOK, Place
<1>7. OutOK(t)'
  BY <1>1, <1>2 DEF Numbers, CallOK, OutOK, CacheOK, Place, AtToken
<1>8. CacheOK(t)'
  BY <1>1, <1>2 DEF Numbers, CallOK, OutOK, CacheOK, Disciplined, Place, AtToken
<1>9. ReasonOK(t)' /\ DoneOK(t)' /\ CancelOK(t)'
  BY <1>1, <1>2 DEF Numbers, CallOK, OutOK, CacheOK, ReasonOK, DoneOK, CancelOK,
     AtToken, Place, Streams, Full
<1> QED BY <1>3, <1>4, <1>5, <1>6, <1>7, <1>8, <1>9, OneCall DEF CallOK

LEMMA RowFits ==
  ASSUME NEW row \in Nat, NEW prompt \in Nat, NEW max \in Nat, NEW g \in Nat, max # 0,
         row < prompt \/ (row + 1 = prompt + g /\ g < max)
  PROVE  row + 1 <= prompt + max - 1
OBVIOUS

(* The logits are its own: nobody used the scratch buffers meanwhile.      *)
LEMMA EndForwardInv ==
  ASSUME IInv, NEW t \in Threads, EndForward(t)
  PROVE  IInv'
<1>1. Numbers(t) /\ CacheFits(t) /\ Disciplined(t) /\ CallOK(t)
  BY Before
<1>2. /\ pc[t] = "forward" /\ pos'[t] = pos[t] + 1 /\ mu' = mu /\ scratch' = scratch
      /\ logits'[t] = IF pos[t] + 1 < req[t].prompt THEN logits[t]
                     ELSE IF scratch = t THEN pos[t] + 1 ELSE Garbage
      /\ pc'[t] = IF pos[t] + 1 <= req[t].prompt THEN "prefill" ELSE "loop"
      /\ UNCHANGED << req[t], generated[t], out[t], reason[t], cancel[t], late[t],
                     done[t], back[t] >>
  BY <1>1 DEF IInv, TypeOK, Numbers, EndForward, Goto, data
<1>3. Ranges'
  <2>1. pos[t] + 1 \in Nat
    BY <1>1 DEF Numbers
  <2>2. logits' \in [Threads -> Nat \cup {Garbage}]
    BY <2>1 DEF IInv, TypeOK, EndForward, Goto, data
  <2> QED BY <2>1, <2>2, CallsAssumption DEF IInv, TypeOK, Ranges, Reasons, Locked,
             Unlocked, EndForward, Goto, data
<1>4. Moves(t)
  BY <1>1, <1>2 DEF IInv, TypeOK, Moves, Disciplined, Locked, EndForward, Goto, data
<1>5. CacheFits(t)'
  <2>1. \/ pos[t] < req[t].prompt
        \/ pos[t] + 1 = req[t].prompt + generated[t] /\ generated[t] < req[t].max
    BY <1>1, <1>2 DEF CallOK, CacheOK, Place
  <2>2. pos[t] + 1 <= WrittenAtMost(req[t])
    <3>1. CASE req[t].max = 0
      BY <1>1, <2>1, <3>1 DEF Numbers, WrittenAtMost
    <3>2. CASE req[t].max # 0
      <4>1. WrittenAtMost(req[t]) = req[t].prompt + req[t].max - 1
        BY <3>2 DEF WrittenAtMost
      <4>2. /\ req[t].prompt \in Nat /\ req[t].max \in Nat
            /\ pos[t] \in Nat /\ generated[t] \in Nat
        BY <1>1 DEF Numbers
      <4> QED BY <2>1, <3>2, <4>1, <4>2, RowFits
    <3> QED BY <3>1, <3>2
  <2> QED BY <1>2, <2>2 DEF CacheFits, WrittenAtMost
<1>6. Disciplined(t)'
  BY <1>1, <1>2, CallsAssumption DEF Numbers, Disciplined, Locked, Unlocked, Streams,
     CallOK, DoneOK, Place
<1>7. OutOK(t)'
  BY <1>1, <1>2 DEF Numbers, CallOK, OutOK, CacheOK, Place, AtToken
<1>8. CacheOK(t)'
  BY <1>1, <1>2 DEF Numbers, CallOK, OutOK, CacheOK, Disciplined, Place, AtToken
<1>9. ReasonOK(t)' /\ DoneOK(t)' /\ CancelOK(t)'
  BY <1>1, <1>2 DEF Numbers, CallOK, OutOK, CacheOK, ReasonOK, DoneOK, CancelOK,
     AtToken, Place, Streams, Full
<1> QED BY <1>3, <1>4, <1>5, <1>6, <1>7, <1>8, <1>9, OneCall DEF CallOK

(* A token is handed out only if it is not the last that may be.           *)
LEMMA SampleInv ==
  ASSUME IInv, NEW t \in Threads, Sample(t)
  PROVE  IInv'
<1>1. Numbers(t) /\ CacheFits(t) /\ Disciplined(t) /\ CallOK(t)
  BY Before
<1>2. /\ pc[t] = "loop" /\ scratch' = scratch
      /\ \/ /\ generated[t] >= req[t].max
            /\ pc'[t] = "finish" /\ reason'[t] = "length" /\ mu' = mu
         \/ /\ generated[t] < req[t].max /\ cancel[t]
            /\ pc'[t] = "finish" /\ reason'[t] = "cancelled" /\ mu' = mu
         \/ /\ generated[t] < req[t].max /\ logits[t] - req[t].prompt = req[t].eos
            /\ pc'[t] = "finish" /\ reason'[t] = "stop" /\ mu' = mu
         \/ /\ generated[t] < req[t].max /\ logits[t] - req[t].prompt # req[t].eos
            /\ Streams(t) => ~ cancel[t]
            /\ pc'[t] = "token" /\ reason'[t] = reason[t]
            /\ mu' = IF Streams(t) THEN Nobody ELSE mu
      /\ UNCHANGED << req[t], pos[t], logits[t], generated[t], out[t], cancel[t],
                     late[t], done[t], back[t] >>
  BY <1>1 DEF IInv, TypeOK, Numbers, Sample, Eos, Cancelled, End, Goto, data
<1>3. Ranges'
  BY <1>1, CallsAssumption DEF IInv, TypeOK, Numbers, Ranges, Reasons, Locked, Unlocked,
     Sample, Eos, Cancelled, End, Goto, data
<1>4. Moves(t)
  BY <1>1, <1>2 DEF IInv, TypeOK, Moves, Disciplined, Locked, Sample, Eos, Cancelled,
     End, Goto, data
<1>5. CacheFits(t)'
  BY <1>1, <1>2 DEF Numbers, CacheFits, CallOK, CacheOK, Place, WrittenAtMost
<1>6. Disciplined(t)'
  BY <1>1, <1>2, CallsAssumption DEF Numbers, Disciplined, Locked, Unlocked, Streams,
     CallOK, DoneOK, Place
<1>7. OutOK(t)'
  BY <1>1, <1>2 DEF Numbers, CallOK, OutOK, CacheOK, Place, AtToken
<1>8. CacheOK(t)'
  BY <1>1, <1>2 DEF Numbers, CallOK, OutOK, CacheOK, Place, AtToken, Full
<1>9. ReasonOK(t)' /\ DoneOK(t)' /\ CancelOK(t)'
  BY <1>1, <1>2, SMTT(30) DEF Numbers, CallOK, OutOK, CacheOK, ReasonOK, DoneOK, CancelOK,
     AtToken, Place, Streams, Full
<1> QED BY <1>3, <1>4, <1>5, <1>6, <1>7, <1>8, <1>9, OneCall DEF CallOK

LEMMA RelockInv ==
  ASSUME IInv, NEW t \in Threads, Relock(t)
  PROVE  IInv'
<1>1. Numbers(t) /\ CacheFits(t) /\ Disciplined(t) /\ CallOK(t)
  BY Before
<1>2. /\ pc[t] = "relock" /\ pc'[t] = "advance"
      /\ mu = Nobody /\ mu' = t /\ scratch' = scratch
      /\ UNCHANGED << req[t], pos[t], logits[t], generated[t], out[t], reason[t],
                     cancel[t], late[t], done[t], back[t] >>
  BY <1>1 DEF IInv, TypeOK, Numbers, Relock, Goto, data
<1>3. Ranges'
  BY <1>1, CallsAssumption DEF IInv, TypeOK, Numbers, Ranges, Reasons, Locked, Unlocked,
     Relock, Goto, data
<1>4. Moves(t)
  BY <1>1, <1>2 DEF IInv, TypeOK, Moves, Disciplined, Locked, Relock, Goto, data
<1>5. CacheFits(t)'
  BY <1>1, <1>2 DEF Numbers, CacheFits, CallOK, CacheOK, Place, WrittenAtMost
<1>6. Disciplined(t)'
  BY <1>1, <1>2, CallsAssumption DEF Numbers, Disciplined, Locked, Unlocked, Streams,
     CallOK, DoneOK, Place
<1>7. OutOK(t)'
  BY <1>1, <1>2 DEF Numbers, CallOK, OutOK, CacheOK, Place, AtToken
<1>8. CacheOK(t)'
  BY <1>1, <1>2 DEF Numbers, CallOK, OutOK, CacheOK, Disciplined, Place, AtToken
<1>9. ReasonOK(t)' /\ DoneOK(t)' /\ CancelOK(t)'
  BY <1>1, <1>2 DEF Numbers, CallOK, OutOK, CacheOK, ReasonOK, DoneOK, CancelOK,
     AtToken, Place, Streams, Full
<1> QED BY <1>3, <1>4, <1>5, <1>6, <1>7, <1>8, <1>9, OneCall DEF CallOK

LEMMA AdvanceInv ==
  ASSUME IInv, NEW t \in Threads, Advance(t)
  PROVE  IInv'
<1>1. Numbers(t) /\ CacheFits(t) /\ Disciplined(t) /\ CallOK(t)
  BY Before
<1>2. /\ pc[t] = "advance" /\ generated'[t] = generated[t] + 1 /\ mu' = mu
      /\ \/ /\ generated[t] + 1 < req[t].max /\ pc'[t] = "forward" /\ scratch' = t
         \/ /\ generated[t] + 1 >= req[t].max /\ pc'[t] = "loop" /\ scratch' = scratch
      /\ UNCHANGED << req[t], pos[t], logits[t], out[t], reason[t],
                     cancel[t], late[t], done[t], back[t] >>
  BY <1>1 DEF IInv, TypeOK, Numbers, Advance, BeginForward, Goto, data
<1>3. Ranges'
  <2>1. generated[t] + 1 \in Nat /\ scratch' \in {t, scratch}
    BY <1>1, <1>2 DEF Numbers
  <2> QED BY <2>1, CallsAssumption DEF IInv, TypeOK, Ranges, Reasons, Locked, Unlocked,
             Advance, BeginForward, Goto, data
<1>4. Moves(t)
  BY <1>1, <1>2 DEF IInv, TypeOK, Moves, Disciplined, Locked, Advance, BeginForward,
     Goto, data
<1>5. CacheFits(t)'
  BY <1>1, <1>2 DEF Numbers, CacheFits, CallOK, CacheOK, Place, WrittenAtMost
<1>6. Disciplined(t)'
  BY <1>1, <1>2, CallsAssumption DEF Numbers, Disciplined, Locked, Unlocked, Streams,
     CallOK, DoneOK, Place
<1>7. OutOK(t)'
  BY <1>1, <1>2 DEF Numbers, CallOK, OutOK, CacheOK, Place, AtToken
<1>8. CacheOK(t)'
  <2>1. pos[t] = req[t].prompt + generated[t] /\ generated[t] < req[t].max
    BY <1>1, <1>2 DEF Numbers, CallOK, CacheOK, Place, AtToken
  <2>2. Place(t)' = pc'[t]
    BY <1>2 DEF Place
  <2>3. CASE pc'[t] = "forward"
    <3>1. pos'[t] + 1 = req'[t].prompt + generated'[t] /\ 0 < generated'[t]
          /\ generated'[t] < req'[t].max
      BY <1>1, <1>2, <2>1, <2>3 DEF Numbers
    <3> QED BY <2>2, <2>3, <3>1 DEF CacheOK
  <2>4. CASE pc'[t] = "loop"
    <3>1. ~ generated'[t] < req'[t].max
      BY <1>1, <1>2, <2>4 DEF Numbers
    <3> QED BY <2>2, <2>4, <3>1 DEF CacheOK
  <2> QED BY <1>2, <2>3, <2>4
<1>9. ReasonOK(t)' /\ DoneOK(t)' /\ CancelOK(t)'
  BY <1>1, <1>2 DEF Numbers, CallOK, OutOK, CacheOK, ReasonOK, DoneOK, CancelOK,
     AtToken, Place, Streams, Full
<1> QED BY <1>3, <1>4, <1>5, <1>6, <1>7, <1>8, <1>9, OneCall DEF CallOK

LEMMA UnlockInv ==
  ASSUME IInv, NEW t \in Threads, Unlock(t)
  PROVE  IInv'
<1>1. Numbers(t) /\ CacheFits(t) /\ Disciplined(t) /\ CallOK(t)
  BY Before
<1>2. /\ pc[t] = "finish" /\ scratch' = scratch
      /\ mu' = IF mu = t THEN Nobody ELSE mu
      /\ pc'[t] = IF Streams(t) THEN "onDone" ELSE "idle"
      /\ UNCHANGED << req[t], pos[t], logits[t], generated[t], out[t], reason[t],
                     cancel[t], late[t], done[t], back[t] >>
  BY <1>1 DEF IInv, TypeOK, Numbers, Unlock, Goto, data
<1>3. Ranges'
  BY <1>1, CallsAssumption DEF IInv, TypeOK, Numbers, Ranges, Reasons, Locked, Unlocked,
     Unlock, Goto, data
<1>4. Moves(t)
  BY <1>1, <1>2 DEF IInv, TypeOK, Moves, Disciplined, Locked, Unlock, Goto, data
<1>5. CacheFits(t)'
  BY <1>1, <1>2 DEF Numbers, CacheFits, CallOK, CacheOK, Place, WrittenAtMost
<1>6. Disciplined(t)'
  BY <1>1, <1>2, CallsAssumption DEF Numbers, Disciplined, Locked, Unlocked, Streams,
     CallOK, DoneOK, Place
<1>7. OutOK(t)'
  BY <1>1, <1>2 DEF Numbers, CallOK, OutOK, CacheOK, Place, AtToken
<1>8. CacheOK(t)'
  BY <1>1, <1>2 DEF Numbers, CallOK, OutOK, CacheOK, Disciplined, Place, AtToken
<1>9. ReasonOK(t)' /\ DoneOK(t)' /\ CancelOK(t)'
  BY <1>1, <1>2 DEF Numbers, CallOK, OutOK, CacheOK, ReasonOK, DoneOK, CancelOK,
     AtToken, Place, Streams, Full
<1> QED BY <1>3, <1>4, <1>5, <1>6, <1>7, <1>8, <1>9, OneCall DEF CallOK

LEMMA OnDoneInv ==
  ASSUME IInv, NEW t \in Threads, OnDone(t)
  PROVE  IInv'
<1>1. Numbers(t) /\ CacheFits(t) /\ Disciplined(t) /\ CallOK(t)
  BY Before
<1>2. /\ pc[t] = "onDone" /\ done'[t] = Append(done[t], reason[t])
      /\ mu' = mu /\ scratch' = scratch
      /\ pc'[t] \in {"nestedLock", "idle"} /\ back'[t] = "idle"
      /\ UNCHANGED << req[t], pos[t], logits[t], generated[t], out[t], reason[t],
                     cancel[t], late[t] >>
  BY <1>1 DEF IInv, TypeOK, Numbers, OnDone, Goto, data
<1>3. Ranges'
  <2>1. done[t] \in Seq(Reasons) /\ reason[t] \in Reasons
    BY <1>1 DEF IInv, TypeOK, Numbers
  <2>2. Append(done[t], reason[t]) \in Seq(Reasons)
    BY <2>1
  <2> QED BY <2>1, <2>2, CallsAssumption DEF IInv, TypeOK, Ranges, Reasons, Locked,
             Unlocked, OnDone, Goto, data
<1>4. Moves(t)
  BY <1>1, <1>2 DEF IInv, TypeOK, Moves, Disciplined, Locked, OnDone, Goto, data
<1>5. CacheFits(t)'
  BY <1>1, <1>2 DEF Numbers, CacheFits, CallOK, CacheOK, Place, WrittenAtMost
<1>6. Disciplined(t)'
  BY <1>1, <1>2, CallsAssumption DEF Numbers, Disciplined, Locked, Unlocked, Streams,
     CallOK, DoneOK, Place
<1>7. OutOK(t)'
  BY <1>1, <1>2 DEF Numbers, CallOK, OutOK, CacheOK, Place, AtToken
<1>8. CacheOK(t)'
  BY <1>1, <1>2 DEF Numbers, CallOK, OutOK, CacheOK, Disciplined, Place, AtToken
<1>9. ReasonOK(t)' /\ DoneOK(t)' /\ CancelOK(t)'
  <2>1. done'[t] = << reason[t] >>
    <3>1. done[t] = << >>
      BY <1>1, <1>2 DEF CallOK, DoneOK, Place
    <3> QED BY <1>2, <3>1
  <2>2. Place(t)' = "idle" /\ Streams(t) /\ reason[t] # "none"
    BY <1>1, <1>2 DEF CallOK, DoneOK, ReasonOK, Place
  <2>3. DoneOK(t)'
    BY <1>2, <2>1, <2>2 DEF DoneOK, Streams
  <2>4. ReasonOK(t)' /\ CancelOK(t)'
    BY <1>1, <1>2, <2>2 DEF CallOK, ReasonOK, CancelOK, Streams
  <2> QED BY <2>3, <2>4
<1> QED BY <1>3, <1>4, <1>5, <1>6, <1>7, <1>8, <1>9, OneCall DEF CallOK

LEMMA NestedLockInv ==
  ASSUME IInv, NEW t \in Threads, NestedLock(t)
  PROVE  IInv'
<1>1. Numbers(t) /\ CacheFits(t) /\ Disciplined(t) /\ CallOK(t)
  BY Before
<1>2. /\ pc[t] = "nestedLock" /\ pc'[t] = "nested"
      /\ mu = Nobody /\ mu' = t /\ scratch' = scratch
      /\ UNCHANGED << req[t], pos[t], logits[t], generated[t], out[t], reason[t],
                     cancel[t], late[t], done[t], back[t] >>
  BY <1>1 DEF IInv, TypeOK, Numbers, NestedLock, Goto, data
<1>3. Ranges'
  BY <1>1, CallsAssumption DEF IInv, TypeOK, Numbers, Ranges, Reasons, Locked, Unlocked,
     NestedLock, Goto, data
<1>4. Moves(t)
  BY <1>1, <1>2 DEF IInv, TypeOK, Moves, Disciplined, Locked, NestedLock, Goto, data
<1>5. CacheFits(t)'
  BY <1>1, <1>2 DEF Numbers, CacheFits, CallOK, CacheOK, Place, WrittenAtMost
<1>6. Disciplined(t)'
  BY <1>1, <1>2, CallsAssumption DEF Numbers, Disciplined, Locked, Unlocked, Streams,
     CallOK, DoneOK, Place
<1>7. OutOK(t)'
  BY <1>1, <1>2 DEF Numbers, CallOK, OutOK, CacheOK, Place, AtToken
<1>8. CacheOK(t)'
  BY <1>1, <1>2 DEF Numbers, CallOK, OutOK, CacheOK, Disciplined, Place, AtToken
<1>9. ReasonOK(t)' /\ DoneOK(t)' /\ CancelOK(t)'
  BY <1>1, <1>2 DEF Numbers, CallOK, OutOK, CacheOK, ReasonOK, DoneOK, CancelOK,
     AtToken, Place, Streams, Full
<1> QED BY <1>3, <1>4, <1>5, <1>6, <1>7, <1>8, <1>9, OneCall DEF CallOK

LEMMA NestedReturnInv ==
  ASSUME IInv, NEW t \in Threads, NestedReturn(t)
  PROVE  IInv'
<1>1. Numbers(t) /\ CacheFits(t) /\ Disciplined(t) /\ CallOK(t)
  BY Before
<1>2. /\ pc[t] = "nested" /\ pc'[t] = back[t]
      /\ mu' = Nobody /\ scratch' = Nobody
      /\ UNCHANGED << req[t], pos[t], logits[t], generated[t], out[t], reason[t],
                     cancel[t], late[t], done[t], back[t] >>
  BY <1>1 DEF IInv, TypeOK, Numbers, NestedReturn, Goto, data
<1>3. Ranges'
  BY <1>1, CallsAssumption DEF IInv, TypeOK, Numbers, Ranges, Reasons, Locked, Unlocked,
     NestedReturn, Goto, data
<1>4. Moves(t)
  BY <1>1, <1>2 DEF IInv, TypeOK, Moves, Disciplined, Locked, NestedReturn, Goto, data
<1>5. CacheFits(t)'
  BY <1>1, <1>2 DEF Numbers, CacheFits, CallOK, CacheOK, Place, WrittenAtMost
<1>6. Disciplined(t)'
  BY <1>1, <1>2, CallsAssumption DEF Numbers, Disciplined, Locked, Unlocked, Streams,
     CallOK, DoneOK, Place
<1>7. OutOK(t)'
  BY <1>1, <1>2 DEF Numbers, CallOK, OutOK, CacheOK, Place, AtToken
<1>8. CacheOK(t)'
  BY <1>1, <1>2 DEF Numbers, CallOK, OutOK, CacheOK, Disciplined, Place, AtToken
<1>9. ReasonOK(t)' /\ DoneOK(t)' /\ CancelOK(t)'
  BY <1>1, <1>2 DEF Numbers, CallOK, OutOK, CacheOK, ReasonOK, DoneOK, CancelOK,
     AtToken, Place, Streams, Full
<1> QED BY <1>3, <1>4, <1>5, <1>6, <1>7, <1>8, <1>9, OneCall DEF CallOK

(* The next token of the sequence is appended.                             *)
LEMMA TokenInv ==
  ASSUME IInv, NEW t \in Threads, Token(t)
  PROVE  IInv'
<1>1. Numbers(t) /\ CacheFits(t) /\ Disciplined(t) /\ CallOK(t)
  BY Before
<1>2. /\ pc[t] = "token" /\ out'[t] = Append(out[t], logits[t])
      /\ mu' = mu /\ scratch' = scratch
      /\ late'[t] = IF cancel[t] THEN late[t] + 1 ELSE late[t]
      /\ \/ /\ Streams(t) /\ pc'[t] \in {"nestedLock", "relock"} /\ back'[t] = "relock"
         \/ /\ ~ Streams(t) /\ pc'[t] = "advance" /\ back'[t] = back[t]
      /\ UNCHANGED << req[t], pos[t], logits[t], generated[t], reason[t],
                     cancel[t], done[t] >>
  BY <1>1 DEF IInv, TypeOK, Numbers, Token, Goto, data
<1>3. Ranges'
  <2>1. out[t] \in Seq(Nat \cup {Garbage}) /\ logits[t] \in Nat \cup {Garbage}
    BY DEF IInv, TypeOK
  <2>2. Append(out[t], logits[t]) \in Seq(Nat \cup {Garbage})
    BY <2>1
  <2>3. late[t] + 1 \in Nat
    BY <1>1 DEF Numbers
  <2> QED BY <2>1, <2>2, <2>3, CallsAssumption DEF IInv, TypeOK, Ranges, Locked,
             Unlocked, Token, Goto, data
<1>4. Moves(t)
  BY <1>1, <1>2 DEF IInv, TypeOK, Moves, Disciplined, Locked, Token, Goto, data
<1>5. CacheFits(t)'
  BY <1>1, <1>2 DEF Numbers, CacheFits, CallOK, CacheOK, Place, WrittenAtMost
<1>6. Disciplined(t)'
  BY <1>1, <1>2, CallsAssumption DEF Numbers, Disciplined, Locked, Unlocked, Streams,
     CallOK, DoneOK, Place
<1>7. OutOK(t)'
  <2> DEFINE g == generated[t]
             q == req[t].prompt
             n == Full(req[t])
  <2>1. /\ Len(out[t]) = g /\ \A i \in 1 .. g : out[t][i] = q + i - 1
        /\ g < n /\ logits[t] = q + g
    BY <1>1, <1>2 DEF CallOK, OutOK, CacheOK, Place, AtToken
  <2>2. g \in Nat /\ q \in Nat /\ n \in Nat
    BY <1>1 DEF Numbers
  <2>3. /\ Len(out'[t]) = g + 1 /\ out'[t][g + 1] = logits[t]
        /\ \A i \in 1 .. g : out'[t][i] = out[t][i]
    <3>1. out[t] \in Seq(Nat \cup {Garbage}) /\ logits[t] \in Nat \cup {Garbage}
      BY DEF IInv, TypeOK
    <3> QED BY <3>1, <1>2, <2>1, AppendProperties
  <2>4. Place(t)' \in {"relock", "advance"}
    BY <1>2 DEF Place
  <2>5. generated'[t] = g /\ req'[t].prompt = q /\ Full(req'[t]) = n
    BY <1>2
  <2> HIDE DEF g, q, n
  <2>6. ASSUME NEW i \in 1 .. g + 1 PROVE out'[t][i] = q + i - 1
    <3>1. CASE i = g + 1
      BY <3>1, <2>1, <2>2, <2>3
    <3>2. CASE i # g + 1
      BY <3>2, <2>1, <2>2, <2>3
    <3> QED BY <3>1, <3>2
  <2>7. g + 1 <= n
    BY <2>1, <2>2
  <2> QED BY <2>3, <2>4, <2>5, <2>6, <2>7 DEF OutOK
<1>8. CacheOK(t)'
  BY <1>1, <1>2 DEF Numbers, CallOK, OutOK, CacheOK, Disciplined, Place, AtToken
<1>9. ReasonOK(t)' /\ DoneOK(t)' /\ CancelOK(t)'
  BY <1>1, <1>2 DEF Numbers, CallOK, OutOK, CacheOK, ReasonOK, DoneOK, CancelOK,
     AtToken, Place, Streams, Full
<1> QED BY <1>3, <1>4, <1>5, <1>6, <1>7, <1>8, <1>9, OneCall DEF CallOK

LEMMA CallInv ==
  ASSUME IInv, NEW t \in Threads, NEW r \in Requests, NEW c \in BOOLEAN, Call(t, r, c)
  PROVE  IInv'
<1>1. Numbers(t) /\ CacheFits(t) /\ Disciplined(t) /\ CallOK(t)
  BY Before
<1>2. /\ pc[t] = "idle" /\ req'[t] = r /\ mu' = mu /\ scratch' = scratch
      /\ cancel'[t] = c /\ (c => r.kind = "stream")
      /\ pos'[t] = 0 /\ logits'[t] = Garbage /\ generated'[t] = 0 /\ late'[t] = 0
      /\ out'[t] = << >> /\ done'[t] = << >> /\ back'[t] = back[t]
      /\ \/ pc'[t] = "finish" /\ reason'[t] \in {"error", "throw"}
         \/ pc'[t] = "lock" /\ reason'[t] = "none"
  <2>1. /\ pc[t] = "idle" /\ req'[t] = r /\ mu' = mu /\ scratch' = scratch
        /\ cancel'[t] = c /\ pos'[t] = 0 /\ logits'[t] = Garbage
        /\ generated'[t] = 0 /\ late'[t] = 0
        /\ out'[t] = << >> /\ done'[t] = << >> /\ back'[t] = back[t]
    BY DEF IInv, TypeOK, Call
  <2>2. c => r.kind = "stream"
    <3>1. r.kind \in {"stream", "generate"}
      BY CallsAssumption
    <3> QED BY <3>1 DEF Call
  <2>3. \/ pc'[t] = "finish" /\ reason'[t] \in {"error", "throw"}
        \/ pc'[t] = "lock" /\ reason'[t] = "none"
    BY DEF IInv, TypeOK, Call, End, Goto
  <2> QED BY <2>1, <2>2, <2>3
<1>3. Ranges'
  <2>1. calls + 1 \in 0 .. MaxCalls /\ << >> \in Seq(Nat \cup {Garbage})
        /\ << >> \in Seq(Reasons)
    BY CallsAssumption DEF IInv, TypeOK, Call, End, Goto
  <2> QED BY <2>1, CallsAssumption DEF IInv, TypeOK, Ranges, Reasons, Locked, Unlocked,
             Call, End, Goto
<1>4. Moves(t)
  BY <1>1, <1>2 DEF IInv, TypeOK, Moves, Disciplined, Locked, Call, End, Goto
<1>10. Full(r) \in Nat /\ WrittenAtMost(r) \in Nat
  <2>1. r \in [kind : {"stream", "generate"}, prompt : Nat \ {0}, max : Nat,
              eos : Nat, fault : {"none", "token", "shape"}]
    BY CallsAssumption
  <2> QED BY <2>1 DEF Full, WrittenAtMost
<1>5. CacheFits(t)'
  BY <1>1, <1>2, <1>10 DEF Numbers, CacheFits, CallOK, CacheOK, Place, WrittenAtMost
<1>6. Disciplined(t)'
  BY <1>1, <1>2, CallsAssumption DEF Numbers, Disciplined, Locked, Unlocked, Streams,
     CallOK, DoneOK, Place
<1>7. OutOK(t)'
  BY <1>1, <1>2, <1>10 DEF Numbers, CallOK, OutOK, CacheOK, Place, AtToken
<1>8. CacheOK(t)'
  BY <1>1, <1>2, <1>10 DEF Numbers, CallOK, OutOK, CacheOK, Disciplined, Place, AtToken
<1>9. ReasonOK(t)' /\ DoneOK(t)' /\ CancelOK(t)'
  BY <1>1, <1>2, <1>10 DEF Numbers, CallOK, OutOK, CacheOK, ReasonOK, DoneOK, CancelOK,
     AtToken, Place, Streams, Full
<1> QED BY <1>3, <1>4, <1>5, <1>6, <1>7, <1>8, <1>9, OneCall DEF CallOK

-----------------------------------------------------------------------------
(* The theorems                                                            *)

LEMMA InitInv == Init => IInv
<1> SUFFICES ASSUME Init PROVE IInv
  OBVIOUS
<1>1. Request0 \in Requests
  BY CallsAssumption DEF Request0
<1>2. /\ Full(Request0) \in Nat /\ WrittenAtMost(Request0) \in Nat
  <2>1. Request0 \in [kind : {"stream", "generate"}, prompt : Nat \ {0}, max : Nat,
                      eos : Nat, fault : {"none", "token", "shape"}]
    BY <1>1, CallsAssumption
  <2> QED BY <2>1 DEF Full, WrittenAtMost
<1>3. TypeOK
  <2>1. << >> \in Seq(Nat \cup {Garbage}) /\ << >> \in Seq(Reasons)
    OBVIOUS
  <2> QED BY <1>1, <1>2, <2>1, CallsAssumption DEF Init, TypeOK, Reasons, Unlocked
<1>4. LockDiscipline /\ ScratchOwned
  BY CallsAssumption DEF Init, LockDiscipline, ScratchOwned, Locked
<1>5. ASSUME NEW t \in Threads PROVE CallOK(t)
  <2>1. /\ Place(t) = "idle" /\ req[t] = Request0 /\ generated[t] = 0 /\ out[t] = << >>
        /\ reason[t] = "none" /\ ~ cancel[t] /\ late[t] = 0 /\ done[t] = << >>
    BY DEF Init, Place
  <2> QED BY <1>2, <2>1 DEF CallOK, OutOK, CacheOK, ReasonOK, DoneOK, CancelOK
<1> QED BY <1>3, <1>4, <1>5 DEF IInv

LEMMA NextInv ==
  ASSUME IInv, [Next]_vars
  PROVE  IInv'
<1>1. CASE UNCHANGED vars
  BY <1>1 DEF vars, data, IInv, TypeOK, LockDiscipline, ScratchOwned, CallOK, OutOK,
     CacheOK, ReasonOK, DoneOK, CancelOK, AtToken, Place, Streams
<1>2. CASE Quiescent
  BY <1>1, <1>2 DEF Quiescent
<1>3. ASSUME NEW t \in Threads, NEW r \in Requests, NEW c \in BOOLEAN, Call(t, r, c)
      PROVE  IInv'
  BY <1>3, CallInv
<1>4. ASSUME NEW t \in Threads, Cancel(t) PROVE IInv'
  BY <1>4, CancelInv
<1>5. ASSUME NEW t \in Threads, ThreadStep(t) PROVE IInv'
  BY <1>5, LockInv, SetupInv, ThrowInv, PrefillInv, EndForwardInv, SampleInv, TokenInv,
     RelockInv, AdvanceInv, UnlockInv, OnDoneInv, NestedLockInv, NestedReturnInv
     DEF ThreadStep
<1> QED BY <1>1, <1>2, <1>3, <1>4, <1>5 DEF Next

LEMMA InvariantHolds == Spec => []IInv
BY InitInv, NextInv, PTL DEF Spec

(* All variables keep their types, and no call writes beyond the rows that *)
(* its KV cache has room for.                                              *)
THEOREM CallsTypes == Spec => []TypeOK
<1>1. IInv => TypeOK
  BY DEF IInv
<1> QED BY <1>1, InvariantHolds, PTL

(* forward_mu_ is owned during every computation and never while a         *)
(* callback may run.                                                       *)
THEOREM LockDisciplineHolds == Spec => []LockDiscipline
<1>1. IInv => LockDiscipline
  BY DEF IInv
<1> QED BY <1>1, InvariantHolds, PTL

(* Concurrent callers see the output of their own request                  *)
(* (engine.hpp:38), complete when the call ends with "stop" or "length".   *)
THEOREM OutputHolds == Spec => []OutputUndisturbed
<1>1. ASSUME IInv PROVE OutputUndisturbed
  <2>1. ASSUME NEW t \in Threads
        PROVE  /\ Len(out[t]) <= Full(req[t])
               /\ \A i \in 1 .. Len(out[t]) : out[t][i] = req[t].prompt + i - 1
               /\ reason[t] \in {"stop", "length"} =>
                    /\ Len(out[t]) = Full(req[t])
                    /\ reason[t] = IF req[t].eos < req[t].max THEN "stop" ELSE "length"
    BY <1>1 DEF IInv, CallOK, OutOK, ReasonOK
  <2>2. \A t \in Threads : DOMAIN out[t] = 1 .. Len(out[t])
    BY <1>1 DEF IInv, TypeOK
  <2> QED BY <2>1, <2>2 DEF OutputUndisturbed, Full
<1> QED BY <1>1, InvariantHolds, PTL

(* on_done is called once for every stream, and never for generate().      *)
THEOREM DoneOnceHolds == Spec => []DoneExactlyOnce
<1>1. ASSUME IInv PROVE DoneExactlyOnce
  <2> SUFFICES ASSUME NEW t \in Threads
               PROVE  /\ Len(done[t]) <= 1
                      /\ pc[t] = "idle" /\ reason[t] # "none" =>
                           done[t] = IF Streams(t) THEN << reason[t] >> ELSE << >>
    BY DEF DoneExactlyOnce
  <2>1. done[t] = IF Place(t) = "idle" /\ reason[t] # "none" /\ Streams(t)
                    THEN << reason[t] >> ELSE << >>
    BY <1>1 DEF IInv, CallOK, DoneOK
  <2>2. Len(<< >>) = 0 /\ Len(<< reason[t] >>) = 1
    OBVIOUS
  <2> QED BY <2>1, <2>2 DEF Place
<1> QED BY <1>1, InvariantHolds, PTL

(* After a cancellation at most one more token comes out, and "cancelled"  *)
(* is reported only if it was asked for.                                   *)
THEOREM CancelHolds == Spec => []CancelStops
<1>1. ASSUME IInv PROVE CancelStops
  BY <1>1 DEF IInv, CallOK, CancelOK, CancelStops
<1> QED BY <1>1, InvariantHolds, PTL
=============================================================================
