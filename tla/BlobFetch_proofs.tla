--------------------------- MODULE BlobFetch_proofs ---------------------------
(***************************************************************************)
(* Proofs about BlobFetch, for any number of processes, layers, attempts   *)
(* and sizes. The lease makes the shared partial private to its holder     *)
(* (Frame), so the invariant can speak of one process at a time (Own).     *)
(***************************************************************************)
EXTENDS BlobFetch, TLAPS

\* What a pull that has met right answers only knows of its partial: from the
\* second attempt on it started from nothing.
CalmOwn(p) ==
  /\ pc[p] # "failed"
  /\ pc[p] = "hash" => partial[Want(p)] # None /\ partial[Want(p)].len = Size[Want(p)]
  /\ attempt[p] > 1 =>
       /\ pc[p] # "rehash"
       /\ pc[p] \in {"inspect", "request"} => partial[Want(p)] = None
       /\ pc[p] = "request" => offset[p] = 0
       /\ pc[p] \in {"body", "hash"} => partial[Want(p)] # None /\ partial[Want(p)].good

Held(p) == pc[p] \in Holding => lock[Want(p)] = p
Verified(p) == pc[p] = "move" => partial[Want(p)] = Whole(Want(p))
Aligned(p) == pc[p] = "body" => partial[Want(p)] # None /\ partial[Want(p)].len = at[p]
Resumes(p) == pc[p] = "request" /\ offset[p] > 0 =>
                partial[Want(p)] # None /\ partial[Want(p)].len = offset[p]
Fresh(p) == pc[p] \in {"scan", "stat", "lease"} => attempt[p] = 1
Scratch(p) == \A d \in Digest : scratch[p][d] \in {None, Whole(d)}
Calm(p) == MaxAttempts >= 2 /\ calm[p] => CalmOwn(p)

Own(p) ==
  InRange(p) /\ Held(p) /\ Verified(p) /\ Aligned(p) /\ Resumes(p) /\ Fresh(p) /\ Scratch(p) /\ Calm(p)

\* The inductive invariant.
FetchInv == Types /\ \A p \in Proc : Own(p)

Local(p) == <<pc[p], todo[p], attempt[p], offset[p], at[p], calm[p], scratch[p]>>

-----------------------------------------------------------------------------
LEMMA WantIsADigest ==
  ASSUME Types, NEW p \in Proc, todo[p] # <<>>
  PROVE  Want(p) \in Digest /\ Tail(todo[p]) \in Seq(Digest)
  BY DEF Types, Want

\* A file that is there is one with a length.
LEMMA FileIsAFile ==
  ASSUME Types, NEW d \in Digest, partial[d] # None
  PROVE  partial[d] \in File /\ partial[d].len \in Nat /\ partial[d].good \in BOOLEAN
  BY DEF Types, File

LEMMA LenIsNat ==
  ASSUME Types, NEW d \in Digest
  PROVE  PartialLen(d) \in Nat
  BY FileIsAFile DEF PartialLen

\* Whole and Empty are files.
LEMMA WholeIsAFile ==
  ASSUME NEW d \in Digest
  PROVE  Whole(d) \in File /\ Empty \in File /\ Whole(d) # None /\ Empty # None
         /\ Whole(d).len = Size[d] /\ Empty.len = 0 /\ Empty.good = TRUE /\ Size[d] \in Nat
  <1>1. Size[d] \in Nat
    BY SizeAssumption
  <1>2. Whole(d) \in File /\ Whole(d).len = Size[d]
    BY <1>1 DEF Whole, File
  <1>3. Empty \in File /\ Empty.len = 0 /\ Empty.good = TRUE
    BY DEF Empty, File
  <1> QED BY <1>1, <1>2, <1>3, NoneAssumption DEF File

\* A file of the right length with the right bytes is the whole blob.
LEMMA GoodAndFull ==
  ASSUME NEW d \in Digest, NEW f \in File, f.good, f.len = Size[d]
  PROVE  f = Whole(d)
  <1>1. f = [len |-> f.len, good |-> f.good]
    BY DEF File
  <1>2. f.good = TRUE
    BY Zenon DEF File
  <1> QED BY <1>1, <1>2 DEF Whole

LEMMA WriteTypes ==
  ASSUME Types, NEW d \in Digest, NEW f \in File \cup {None}, Write(d, f)
  PROVE  /\ partial' \in [Digest -> File \cup {None}] /\ stale' \in [Digest -> BOOLEAN]
         /\ partial'[d] = f
         /\ \A e \in Digest \ {d} : partial'[e] = partial[e]
  BY DEF Types, Write

\* A step that leaves a process's own state alone, and the partial and the
\* lease it holds, preserves what it knows.
LEMMA Frame ==
  ASSUME Types, NEW p \in Proc, Own(p), Local(p)' = Local(p),
         pc[p] \in Holding => /\ partial[Want(p)]' = partial[Want(p)]
                              /\ lock[Want(p)]' = lock[Want(p)]
  PROVE  Own(p)'
  <1>1. /\ pc'[p] = pc[p] /\ todo'[p] = todo[p] /\ attempt'[p] = attempt[p]
        /\ offset'[p] = offset[p] /\ at'[p] = at[p] /\ calm'[p] = calm[p]
        /\ scratch'[p] = scratch[p]
    BY DEF Local
  <1>2. Want(p)' = Want(p)
    BY <1>1 DEF Want
  <1>3. Held(p)'
    BY <1>1, <1>2 DEF Own, Held
  <1>4. Verified(p)' /\ Aligned(p)' /\ Resumes(p)'
    BY <1>1, <1>2 DEF Own, Verified, Aligned, Resumes, Holding, Whole
  <1>7. InRange(p)' /\ Fresh(p)'
    BY <1>1, <1>2 DEF Own, InRange, Fresh
  <1>5. Scratch(p)'
    BY <1>1 DEF Own, Scratch, Whole
  <1>6. Calm(p)'
    BY <1>1, <1>2 DEF Own, Calm, CalmOwn, Holding
  <1> QED BY <1>3, <1>4, <1>5, <1>6, <1>7 DEF Own

LEMMA ScratchKept ==
  ASSUME NEW p \in Proc, Scratch(p), scratch' = scratch
  PROVE  Scratch(p)'
  BY DEF Scratch, Whole

\* A step of process q writes only its own state, the partials whose lease it
\* holds, and leases that are its own or free.
OnlyOwn(q) ==
  /\ \A p \in Proc \ {q} : Local(p)' = Local(p)
  /\ \A d \in Digest : lock[d] # q => partial'[d] = partial[d]
  /\ \A d \in Digest : lock[d] \notin {q, None} => lock'[d] = lock[d]

\* Then what the other processes know stays true.
LEMMA OthersKeepTheirs ==
  ASSUME FetchInv, NEW q \in Proc, OnlyOwn(q)
  PROVE  \A p \in Proc \ {q} : Own(p)'
  <1> SUFFICES ASSUME NEW p \in Proc \ {q} PROVE Own(p)'
    OBVIOUS
  <1>1. Types /\ Own(p) /\ p # q /\ p # None
    BY NoneAssumption DEF FetchInv
  <1>2. ASSUME pc[p] \in Holding
        PROVE partial[Want(p)]' = partial[Want(p)] /\ lock[Want(p)]' = lock[Want(p)]
    <2>1. Want(p) \in Digest
      BY <1>1, <1>2, WantIsADigest DEF Own, InRange
    <2>2. lock[Want(p)] = p
      BY <1>1, <1>2 DEF Own, Held
    <2>3. Want(p)' = Want(p)
      BY DEF OnlyOwn, Local, Want
    <2> QED BY <1>1, <2>1, <2>2, <2>3 DEF OnlyOwn
  <1>3. Local(p)' = Local(p)
    BY DEF OnlyOwn
  <1> QED BY <1>1, <1>2, <1>3, Frame

\* So a step of q preserves the invariant if it preserves q's part of it.
LEMMA StepOfOne ==
  ASSUME FetchInv, NEW q \in Proc, OnlyOwn(q), Types', Own(q)'
  PROVE  FetchInv'
  BY OthersKeepTheirs DEF FetchInv

-----------------------------------------------------------------------------
\* One lemma per step, as far as they differ.

\* Steps outside the lease that touch no file.
LEMMA StartPreserves ==
  ASSUME FetchInv, NEW q \in Proc, Start(q)
  PROVE  FetchInv'
  <1>1. Types'
    BY PullAssumption DEF FetchInv, Types, Start, Goto, files, Steps, Holding
  <1>2. Own(q)'
    BY DEF FetchInv, Types, Start, Goto, files, Holding, Own, InRange, Held, Verified, Aligned, Resumes,
           Fresh, Scratch, Calm, CalmOwn, Whole
  <1>3. OnlyOwn(q)
    BY DEF FetchInv, Types, Start, Goto, files, OnlyOwn, Local
  <1> QED BY <1>1, <1>2, <1>3, StepOfOne

LEMMA NextLayerPreserves ==
  ASSUME FetchInv, NEW q \in Proc, NextLayer(q)
  PROVE  FetchInv'
  <1> USE DEF Goto, files, progress
  <1>1. Types'
    BY AttemptAssumption DEF FetchInv, Types, NextLayer, Steps, Holding, Ended
  <1>2. Own(q)'
    BY DEF FetchInv, Types, NextLayer, Holding, Whole, Want,
       Own, InRange, Held, Verified, Aligned, Resumes, Fresh, Scratch, Calm, CalmOwn
  <1>3. OnlyOwn(q)
    BY DEF FetchInv, Types, NextLayer, OnlyOwn, Local
  <1> QED BY <1>1, <1>2, <1>3, StepOfOne

LEMMA FinishPreserves ==
  ASSUME FetchInv, NEW q \in Proc, Finish(q)
  PROVE  FetchInv'
  <1> USE DEF Goto, files, progress, Nothing
  <1>1. Types'
    BY DEF FetchInv, Types, Finish, Steps, Holding, Ended
  <1>2. Own(q)'
    BY DEF FetchInv, Types, Finish, Holding, Whole, Want,
       Own, InRange, Held, Verified, Aligned, Resumes, Fresh, Scratch, Calm, CalmOwn
  <1>3. OnlyOwn(q)
    BY DEF FetchInv, Types, Finish, OnlyOwn, Local
  <1> QED BY <1>1, <1>2, <1>3, StepOfOne

LEMMA ScanSkipPreserves ==
  ASSUME FetchInv, NEW q \in Proc, ScanSkip(q)
  PROVE  FetchInv'
  <1> USE DEF Goto, files, progress
  <1>1. Types'
    BY DEF FetchInv, Types, ScanSkip, Steps, Holding, Ended
  <1>2. Own(q)'
    BY DEF FetchInv, Types, ScanSkip, Holding, Whole, Want,
       Own, InRange, Held, Verified, Aligned, Resumes, Fresh, Scratch, Calm, CalmOwn
  <1>3. OnlyOwn(q)
    BY DEF FetchInv, Types, ScanSkip, OnlyOwn, Local
  <1> QED BY <1>1, <1>2, <1>3, StepOfOne

\* The scavenger locks what it visits, and removes only what it has locked.
LEMMA ScanLockPreserves ==
  ASSUME FetchInv, NEW q \in Proc, ScanLock(q)
  PROVE  FetchInv'
  <1> USE DEF Goto, files, progress
  <1>1. Types'
    BY DEF FetchInv, Types, ScanLock, Steps, Holding, Ended
  <1>2. Own(q)'
    BY DEF FetchInv, Types, ScanLock, Holding, Whole, Want,
       Own, InRange, Held, Verified, Aligned, Resumes, Fresh, Scratch, Calm, CalmOwn
  <1>3. OnlyOwn(q)
    BY NoneAssumption DEF FetchInv, Types, ScanLock, OnlyOwn, Local
  <1> QED BY <1>1, <1>2, <1>3, StepOfOne

LEMMA ScanStatPreserves ==
  ASSUME FetchInv, NEW q \in Proc, ScanStat(q)
  PROVE  FetchInv'
  <1> USE DEF Goto, files, progress, RemoveIfPresent, Write
  <1>1. Types'
    <2>1. PICK d \in scan[q] :
            /\ IF stale[d] THEN Write(d, None) ELSE UNCHANGED <<partial, stale>>
            /\ lock' = [lock EXCEPT ![d] = None]
            /\ scan' = [scan EXCEPT ![q] = @ \ {d}]
      BY DEF ScanStat
    <2>2. d \in Digest
      BY DEF FetchInv, Types
    <2>3. partial' \in [Digest -> File \cup {None}] /\ stale' \in [Digest -> BOOLEAN]
      BY <2>1, <2>2, WriteTypes DEF FetchInv, Types
    <2>4. lock' \in [Digest -> Proc \cup {None}] /\ scan' \in [Proc -> SUBSET Digest]
      BY <2>1, <2>2 DEF FetchInv, Types
    <2> QED BY <2>3, <2>4 DEF FetchInv, Types, ScanStat, Steps
  <1>2. Own(q)'
    BY DEF FetchInv, Types, ScanStat, Holding, Whole, Want,
       Own, InRange, Held, Verified, Aligned, Resumes, Fresh, Scratch, Calm, CalmOwn
  <1>3. OnlyOwn(q)
    BY NoneAssumption DEF FetchInv, Types, ScanStat, OnlyOwn, Local
  <1> QED BY <1>1, <1>2, <1>3, StepOfOne

LEMMA ScanDonePreserves ==
  ASSUME FetchInv, NEW q \in Proc, ScanDone(q)
  PROVE  FetchInv'
  <1> USE DEF Goto, files, progress
  <1>1. Types'
    BY DEF FetchInv, Types, ScanDone, Steps, Holding, Ended
  <1>2. Own(q)'
    BY DEF FetchInv, Types, ScanDone, Holding, Whole, Want,
       Own, InRange, Held, Verified, Aligned, Resumes, Fresh, Scratch, Calm, CalmOwn
  <1>3. OnlyOwn(q)
    BY DEF FetchInv, Types, ScanDone, OnlyOwn, Local
  <1> QED BY <1>1, <1>2, <1>3, StepOfOne


-----------------------------------------------------------------------------
\* The steps under the lease.

\* The layer of a process inside fetch_blob_to.
LEMMA LayerOf ==
  ASSUME FetchInv, NEW q \in Proc, pc[q] \in {"lease"} \cup Holding
  PROVE  /\ todo[q] # <<>> /\ Want(q) \in Digest /\ Tail(todo[q]) \in Seq(Digest)
         /\ Size[Want(q)] \in Nat /\ PartialLen(Want(q)) \in Nat
         /\ pc[q] \in Holding => lock[Want(q)] = q
         /\ partial[Want(q)] # None => partial[Want(q)] \in File /\ partial[Want(q)].len \in Nat
  <1>1. todo[q] # <<>> /\ (pc[q] \in Holding => lock[Want(q)] = q)
    BY DEF FetchInv, Own, InRange, Held
  <1>2. Want(q) \in Digest /\ Tail(todo[q]) \in Seq(Digest)
    BY <1>1, WantIsADigest DEF FetchInv
  <1> QED BY <1>1, <1>2, LenIsNat, FileIsAFile, SizeAssumption DEF FetchInv

LEMMA AcquirePreserves ==
  ASSUME FetchInv, NEW q \in Proc, Acquire(q)
  PROVE  FetchInv'
  <1> USE DEF Goto, files, progress, RemoveIfPresent, Write, Upset
  <1>a. /\ Want(q) \in Digest /\ Size[Want(q)] \in Nat /\ PartialLen(Want(q)) \in Nat
        /\ todo[q] # <<>> /\ Want(q)' = Want(q)
    BY LayerOf DEF FetchInv, Types, Holding, Acquire, Want
  <1>1. Types'
    BY <1>a, NoneAssumption DEF FetchInv, Types, Acquire, Steps, Holding, Ended
  <1>2. Own(q)'
    <2>1. Scratch(q)'
      BY ScratchKept DEF FetchInv, Own, Acquire, progress
    <2>2. InRange(q)' /\ Held(q)' /\ Fresh(q)'
      BY <1>a, NoneAssumption DEF FetchInv, Types, Acquire, Own, InRange, Held, Fresh, Holding, files, progress
    <2>3. Verified(q)' /\ Aligned(q)' /\ Resumes(q)'
      BY <1>a, NoneAssumption DEF FetchInv, Types, Acquire, Own, Verified, Aligned, Resumes, files, progress
    <2>4. Calm(q)'
      BY <1>a, NoneAssumption DEF FetchInv, Types, Acquire, Own, Calm, CalmOwn, Fresh, Aligned, files, progress
    <2> QED BY <2>1, <2>2, <2>3, <2>4 DEF Own
  <1>3. OnlyOwn(q)
    BY <1>a, NoneAssumption DEF FetchInv, Types, Acquire, OnlyOwn, Local
  <1> QED BY <1>1, <1>2, <1>3, StepOfOne

LEMMA InspectPreserves ==
  ASSUME FetchInv, NEW q \in Proc, Inspect(q)
  PROVE  FetchInv'
  <1> DEFINE d == Want(q)
  <1> USE DEF Goto, RemoveIfPresent
  <1>a. /\ d \in Digest /\ Size[d] \in Nat /\ PartialLen(d) \in Nat /\ lock[d] = q
        /\ todo[q] # <<>> /\ Want(q)' = d
    BY LayerOf DEF FetchInv, Types, Holding, Inspect, Want
  <1>b. /\ partial' \in [Digest -> File \cup {None}] /\ stale' \in [Digest -> BOOLEAN]
        /\ \A e \in Digest \ {d} : partial'[e] = partial[e]
        /\ \/ /\ PartialLen(d) > Size[d] /\ pc'[q] = "request"
              /\ partial'[d] = None /\ offset' = [offset EXCEPT ![q] = 0]
           \/ /\ PartialLen(d) = Size[d] /\ Size[d] > 0 /\ pc'[q] = "rehash"
              /\ partial' = partial /\ offset' = [offset EXCEPT ![q] = PartialLen(d)]
           \/ /\ PartialLen(d) <= Size[d] /\ pc'[q] = "request"
              /\ partial' = partial /\ offset' = [offset EXCEPT ![q] = PartialLen(d)]
    <2>1. CASE PartialLen(d) > Size[d]
      BY <1>a, <2>1, WriteTypes DEF FetchInv, Types, Inspect
    <2>2. CASE ~(PartialLen(d) > Size[d])
      BY <1>a, <2>2 DEF FetchInv, Types, Inspect
    <2> QED BY <2>1, <2>2
  <1>c. PartialLen(d) = IF partial[d] = None THEN 0 ELSE partial[d].len
    BY DEF PartialLen
  <1>1. Types'
    BY <1>a, <1>b DEF FetchInv, Types, Inspect, Steps, Holding
  <1>2. Own(q)'
    <2>1. Scratch(q)'
      BY ScratchKept DEF FetchInv, Own, Inspect, progress
    <2>2. InRange(q)' /\ Held(q)' /\ Fresh(q)'
      BY <1>a, <1>b, <1>c DEF FetchInv, Types, Inspect, Own, InRange, Held, Fresh, Holding, files, progress
    <2>3. Verified(q)' /\ Aligned(q)' /\ Resumes(q)'
      BY <1>a, <1>b, <1>c DEF FetchInv, Types, Inspect, Own, Verified, Aligned, Resumes, files, progress
    <2>4. Calm(q)'
      BY <1>a, <1>b, <1>c DEF FetchInv, Types, Inspect, Own, Calm, CalmOwn, Fresh, Aligned, files, progress
    <2> QED BY <2>1, <2>2, <2>3, <2>4 DEF Own
  <1>3. OnlyOwn(q)
    BY <1>a, <1>b DEF FetchInv, Types, Inspect, OnlyOwn, Local
  <1> QED BY <1>1, <1>2, <1>3, StepOfOne

LEMMA RehashPreserves ==
  ASSUME FetchInv, NEW q \in Proc, Rehash(q)
  PROVE  FetchInv'
  <1> DEFINE d == Want(q)
  <1> USE DEF Goto, RemoveIfPresent
  <1>a. /\ d \in Digest /\ Size[d] \in Nat /\ lock[d] = q
        /\ todo[q] # <<>> /\ Want(q)' = d
    BY LayerOf DEF FetchInv, Types, Holding, Rehash, Want
  <1>b. /\ partial' \in [Digest -> File \cup {None}] /\ stale' \in [Digest -> BOOLEAN]
        /\ \A e \in Digest \ {d} : partial'[e] = partial[e]
        /\ \/ /\ pc'[q] = "move" /\ partial' = partial /\ partial[d] = Whole(d)
              /\ offset' = offset
           \/ /\ pc'[q] = "request" /\ partial'[d] = None
              /\ offset' = [offset EXCEPT ![q] = 0]
    BY <1>a, WriteTypes DEF FetchInv, Types, Rehash
  <1>1. Types'
    <2>1. pc' \in [Proc -> Steps]
      BY DEF FetchInv, Types, Rehash, Steps, Holding
    <2>2. offset' \in [Proc -> Nat]
      BY <1>b DEF FetchInv, Types
    <2> QED BY <1>b, <2>1, <2>2 DEF FetchInv, Types, Rehash
  <1>2. Own(q)'
    <2>1. Scratch(q)'
      BY ScratchKept DEF FetchInv, Own, Rehash, progress
    <2>2. InRange(q)' /\ Held(q)' /\ Fresh(q)'
      BY <1>a, <1>b DEF FetchInv, Types, Rehash, Own, InRange, Held, Fresh, Holding, files, progress
    <2>3. Verified(q)' /\ Aligned(q)' /\ Resumes(q)'
      BY <1>a, <1>b DEF FetchInv, Types, Rehash, Own, Verified, Aligned, Resumes, files, progress
    <2>4. Calm(q)'
      BY <1>a, <1>b DEF FetchInv, Types, Rehash, Own, Calm, CalmOwn, Fresh, Aligned, files, progress
    <2> QED BY <2>1, <2>2, <2>3, <2>4 DEF Own
  <1>3. OnlyOwn(q)
    BY <1>a, <1>b DEF FetchInv, Types, Rehash, OnlyOwn, Local
  <1> QED BY <1>1, <1>2, <1>3, StepOfOne

\* A range continues the prefix that is there; a full answer truncates it.
LEMMA AnswerRangePreserves ==
  ASSUME FetchInv, NEW q \in Proc, AnswerRange(q)
  PROVE  FetchInv'
  <1> DEFINE d == Want(q)
  <1> USE DEF Goto
  <1>a. /\ d \in Digest /\ Size[d] \in Nat /\ lock[d] = q
        /\ todo[q] # <<>> /\ Want(q)' = d
    BY LayerOf DEF FetchInv, Types, Holding, AnswerRange, Want
  <1>b. partial[d] # None /\ partial[d].len = offset[q] /\ partial' = partial /\ stale' = stale
    BY <1>a DEF FetchInv, Own, Resumes, AnswerRange
  <1>1. Types'
    BY <1>a, <1>b DEF FetchInv, Types, AnswerRange, Steps, Holding
  <1>2. Own(q)'
    <2>1. Scratch(q)'
      BY ScratchKept DEF FetchInv, Own, AnswerRange, progress
    <2>2. InRange(q)' /\ Held(q)' /\ Fresh(q)'
      BY <1>a, <1>b DEF FetchInv, Types, AnswerRange, Own, InRange, Held, Fresh, Holding, files, progress
    <2>3. Verified(q)' /\ Aligned(q)' /\ Resumes(q)'
      BY <1>a, <1>b DEF FetchInv, Types, AnswerRange, Own, Verified, Aligned, Resumes, files, progress
    <2>4. Calm(q)'
      BY <1>a, <1>b DEF FetchInv, Types, AnswerRange, Own, Calm, CalmOwn, Fresh, Aligned, files, progress
    <2> QED BY <2>1, <2>2, <2>3, <2>4 DEF Own
  <1>3. OnlyOwn(q)
    BY <1>a, <1>b DEF FetchInv, Types, AnswerRange, OnlyOwn, Local
  <1> QED BY <1>1, <1>2, <1>3, StepOfOne

LEMMA AnswerWholePreserves ==
  ASSUME FetchInv, NEW q \in Proc, AnswerWhole(q)
  PROVE  FetchInv'
  <1> DEFINE d == Want(q)
  <1> USE DEF Goto
  <1>a. /\ d \in Digest /\ Size[d] \in Nat /\ lock[d] = q
        /\ todo[q] # <<>> /\ Want(q)' = d
    BY LayerOf DEF FetchInv, Types, Holding, AnswerWhole, Want
  <1>b. Empty \in File /\ Empty # None /\ Empty.len = 0 /\ Empty.good = TRUE
    BY <1>a, WholeIsAFile
  <1>c. /\ partial' \in [Digest -> File \cup {None}] /\ stale' \in [Digest -> BOOLEAN]
        /\ \A e \in Digest \ {d} : partial'[e] = partial[e]
        /\ partial'[d] = Empty
    BY <1>a, <1>b, WriteTypes DEF FetchInv, AnswerWhole
  <1>1. Types'
    BY <1>a, <1>c DEF FetchInv, Types, AnswerWhole, Steps, Holding
  <1>2. Own(q)'
    <2>1. Scratch(q)'
      BY ScratchKept DEF FetchInv, Own, AnswerWhole, progress
    <2>2. InRange(q)' /\ Held(q)' /\ Fresh(q)'
      BY <1>a, <1>b, <1>c DEF FetchInv, Types, AnswerWhole, Own, InRange, Held, Fresh, Holding, files, progress
    <2>3. Verified(q)' /\ Aligned(q)' /\ Resumes(q)'
      BY <1>a, <1>b, <1>c DEF FetchInv, Types, AnswerWhole, Own, Verified, Aligned, Resumes, files, progress
    <2>4. Calm(q)'
      BY <1>a, <1>b, <1>c DEF FetchInv, Types, AnswerWhole, Own, Calm, CalmOwn, Fresh, Aligned, files, progress
    <2> QED BY <2>1, <2>2, <2>3, <2>4 DEF Own
  <1>3. OnlyOwn(q)
    BY <1>a, <1>c DEF FetchInv, Types, AnswerWhole, OnlyOwn, Local
  <1> QED BY <1>1, <1>2, <1>3, StepOfOne

LEMMA BodyEndsPreserves ==
  ASSUME FetchInv, NEW q \in Proc, BodyEnds(q)
  PROVE  FetchInv'
  <1> USE DEF Goto, files, progress, RemoveIfPresent, Write, Upset
  <1>a. /\ Want(q) \in Digest /\ Size[Want(q)] \in Nat /\ PartialLen(Want(q)) \in Nat
        /\ todo[q] # <<>> /\ Want(q)' = Want(q)
    BY LayerOf DEF FetchInv, Types, Holding, BodyEnds, Want
  <1>b. lock[Want(q)] = q
    BY LayerOf DEF Holding, BodyEnds
  <1>1. Types'
    BY <1>a, <1>b, NoneAssumption DEF FetchInv, Types, BodyEnds, Steps, Holding, Ended
  <1>2. Own(q)'
    <2>1. Scratch(q)'
      BY ScratchKept DEF FetchInv, Own, BodyEnds, progress
    <2>2. InRange(q)' /\ Held(q)' /\ Fresh(q)'
      BY <1>a, <1>b DEF FetchInv, Types, BodyEnds, Own, InRange, Held, Fresh, Holding, files, progress
    <2>3. Verified(q)' /\ Aligned(q)' /\ Resumes(q)'
      BY <1>a, <1>b DEF FetchInv, Types, BodyEnds, Own, Verified, Aligned, Resumes, files, progress
    <2>4. Calm(q)'
      BY <1>a, <1>b DEF FetchInv, Types, BodyEnds, Own, Calm, CalmOwn, Fresh, Aligned, files, progress
    <2> QED BY <2>1, <2>2, <2>3, <2>4 DEF Own
  <1>3. OnlyOwn(q)
    BY <1>a, <1>b, NoneAssumption DEF FetchInv, Types, BodyEnds, OnlyOwn, Local
  <1> QED BY <1>1, <1>2, <1>3, StepOfOne

LEMMA HashMatchesPreserves ==
  ASSUME FetchInv, NEW q \in Proc, HashMatches(q)
  PROVE  FetchInv'
  <1> USE DEF Goto, files, progress, RemoveIfPresent, Write, Upset
  <1>a. /\ Want(q) \in Digest /\ Size[Want(q)] \in Nat /\ PartialLen(Want(q)) \in Nat
        /\ todo[q] # <<>> /\ Want(q)' = Want(q)
    BY LayerOf DEF FetchInv, Types, Holding, HashMatches, Want
  <1>b. lock[Want(q)] = q
    BY LayerOf DEF Holding, HashMatches
  <1>1. Types'
    BY <1>a, <1>b, NoneAssumption DEF FetchInv, Types, HashMatches, Steps, Holding, Ended
  <1>2. Own(q)'
    <2>1. Scratch(q)'
      BY ScratchKept DEF FetchInv, Own, HashMatches, progress
    <2>2. InRange(q)' /\ Held(q)' /\ Fresh(q)'
      BY <1>a, <1>b DEF FetchInv, Types, HashMatches, Own, InRange, Held, Fresh, Holding, files, progress
    <2>3. Verified(q)' /\ Aligned(q)' /\ Resumes(q)'
      BY <1>a, <1>b DEF FetchInv, Types, HashMatches, Own, Verified, Aligned, Resumes, files, progress
    <2>4. Calm(q)'
      BY <1>a, <1>b DEF FetchInv, Types, HashMatches, Own, Calm, CalmOwn, Fresh, Aligned, files, progress
    <2> QED BY <2>1, <2>2, <2>3, <2>4 DEF Own
  <1>3. OnlyOwn(q)
    BY <1>a, <1>b, NoneAssumption DEF FetchInv, Types, HashMatches, OnlyOwn, Local
  <1> QED BY <1>1, <1>2, <1>3, StepOfOne

-----------------------------------------------------------------------------
\* The steps that give an attempt, or the pull, up.

\* What such a step may do to the partial and to the pull's record.
GivesUp(q) ==
  /\ partial' \in [Digest -> File \cup {None}] /\ stale' \in [Digest -> BOOLEAN]
  /\ calm' \in [Proc -> BOOLEAN]
  /\ \A p \in Proc \ {q} : calm'[p] = calm[p]
  /\ \A d \in Digest : lock[d] # q => partial'[d] = partial[d]
  /\ UNCHANGED <<todo, scan, offset, at>>

LEMMA NothingIsTyped == Nothing \in [Digest -> File \cup {None}]
  BY DEF Nothing

LEMMA FailPreserves ==
  ASSUME FetchInv, NEW q \in Proc, Fail(q), GivesUp(q), UNCHANGED attempt,
         MaxAttempts >= 2 => ~calm'[q]
  PROVE  FetchInv'
  <1>1. Types'
    BY NothingIsTyped DEF FetchInv, Types, Fail, GivesUp, DropLeases, Goto, Steps, Ended
  <1>2. Own(q)'
    <2>1. pc'[q] = "failed" /\ scratch'[q] = Nothing
      BY DEF FetchInv, Types, Fail, Goto
    <2>2. Scratch(q)'
      BY <2>1 DEF Scratch, Nothing
    <2> QED BY <2>1, <2>2 DEF Own, InRange, Held, Verified, Aligned, Resumes, Fresh, Calm, Holding
  <1>3. OnlyOwn(q)
    BY DEF FetchInv, Types, Fail, GivesUp, DropLeases, Goto, OnlyOwn, Local
  <1> QED BY <1>1, <1>2, <1>3, StepOfOne

LEMMA RetryPreserves ==
  ASSUME FetchInv, NEW q \in Proc, pc[q] \in Holding, Retry(q), GivesUp(q),
         MaxAttempts >= 2 /\ calm'[q] =>
           attempt[q] < MaxAttempts /\ partial'[Want(q)] = None
  PROVE  FetchInv'
  <1>1. CASE attempt[q] >= MaxAttempts
    <2>1. Fail(q) /\ UNCHANGED attempt
      BY <1>1, AttemptAssumption DEF Retry, FetchInv, Types
    <2>2. MaxAttempts >= 2 => ~calm'[q]
      BY <1>1, AttemptAssumption DEF FetchInv, Types
    <2> QED BY <2>1, <2>2, FailPreserves
  <1>2. CASE attempt[q] < MaxAttempts
    <2>1. /\ attempt' = [attempt EXCEPT ![q] = @ + 1] /\ pc' = [pc EXCEPT ![q] = "inspect"]
          /\ lock' = lock /\ scratch' = scratch /\ todo' = todo
      BY <1>2, AttemptAssumption DEF Retry, Goto, GivesUp
    <2>2. Types'
      BY <1>2, <2>1, AttemptAssumption DEF FetchInv, Types, GivesUp, Steps, Holding
    <2>3. todo[q] # <<>> /\ Want(q)' = Want(q) /\ lock[Want(q)] = q
      BY <2>1, LayerOf DEF Want
    <2>4. Own(q)'
      <3>1. Scratch(q)'
        BY <2>1, ScratchKept DEF FetchInv, Own
      <3>2. InRange(q)' /\ Held(q)' /\ Fresh(q)' /\ Verified(q)' /\ Aligned(q)' /\ Resumes(q)'
        BY <2>1, <2>3 DEF FetchInv, Types, InRange, Held, Fresh, Verified, Aligned, Resumes
      <3>3. Calm(q)'
        BY <2>1, <2>3 DEF FetchInv, Types, Calm, CalmOwn
      <3> QED BY <3>1, <3>2, <3>3 DEF Own
    <2>5. OnlyOwn(q)
      BY <2>1 DEF FetchInv, Types, GivesUp, OnlyOwn, Local
    <2> QED BY <2>2, <2>4, <2>5, StepOfOne
  <1> QED BY <1>1, <1>2, AttemptAssumption DEF FetchInv, Types

\* A bad answer: the pull is not calm any more.
LEMMA UpsetGivesUp ==
  ASSUME FetchInv, NEW q \in Proc, Upset(q), UNCHANGED <<todo, scan, offset, at>>,
         \/ UNCHANGED <<partial, stale>>
         \/ pc[q] \in Holding /\ RemoveIfPresent(Want(q))
  PROVE  GivesUp(q) /\ ~calm'[q]
  <1>1. calm' \in [Proc -> BOOLEAN] /\ ~calm'[q] /\ \A p \in Proc \ {q} : calm'[p] = calm[p]
    BY DEF FetchInv, Types, Upset
  <1>2. /\ partial' \in [Digest -> File \cup {None}] /\ stale' \in [Digest -> BOOLEAN]
        /\ \A d \in Digest : lock[d] # q => partial'[d] = partial[d]
    BY LayerOf, WriteTypes DEF FetchInv, Types, RemoveIfPresent
  <1> QED BY <1>1, <1>2 DEF GivesUp

LEMMA RequestFailsPreserves ==
  ASSUME FetchInv, NEW q \in Proc, RequestFails(q)
  PROVE  FetchInv'
  <1>1. GivesUp(q) /\ ~calm'[q]
    BY UpsetGivesUp DEF RequestFails, Retry
  <1> QED BY <1>1, RetryPreserves, FailPreserves DEF RequestFails, Holding

LEMMA RangeRejectedPreserves ==
  ASSUME FetchInv, NEW q \in Proc, RangeRejected(q)
  PROVE  FetchInv'
  <1>1. GivesUp(q) /\ ~calm'[q]
    BY UpsetGivesUp DEF RangeRejected, Retry, Holding
  <1> QED BY <1>1, RetryPreserves DEF RangeRejected, Holding

LEMMA RangeInvalidPreserves ==
  ASSUME FetchInv, NEW q \in Proc, RangeInvalid(q)
  PROVE  FetchInv'
  <1>1. GivesUp(q) /\ ~calm'[q]
    BY UpsetGivesUp DEF RangeInvalid, Holding
  <1> QED BY <1>1, FailPreserves DEF RangeInvalid

LEMMA BodyFailsPreserves ==
  ASSUME FetchInv, NEW q \in Proc, BodyFails(q)
  PROVE  FetchInv'
  <1>1. GivesUp(q) /\ ~calm'[q]
    BY UpsetGivesUp DEF BodyFails, Retry
  <1> QED BY <1>1, RetryPreserves DEF BodyFails, Holding

LEMMA IoFailsPreserves ==
  ASSUME FetchInv, NEW q \in Proc, IoFails(q)
  PROVE  FetchInv'
  <1>1. GivesUp(q) /\ ~calm'[q]
    BY UpsetGivesUp DEF IoFails
  <1> QED BY <1>1, FailPreserves DEF IoFails

\* A calm attempt that hashes wrong was a first attempt over a corrupt prefix,
\* and it leaves nothing behind.
LEMMA HashDiffersPreserves ==
  ASSUME FetchInv, NEW q \in Proc, HashDiffers(q)
  PROVE  FetchInv'
  <1> DEFINE d == Want(q)
  <1>a. /\ pc[q] = "hash" /\ pc[q] \in Holding /\ d \in Digest /\ Size[d] \in Nat
        /\ PartialLen(d) \in Nat /\ lock[d] = q /\ partial[d] # Whole(d)
        /\ (partial[d] # None => partial[d] \in File)
    BY LayerOf DEF Holding, HashDiffers
  <1>b. /\ partial' \in [Digest -> File \cup {None}] /\ stale' \in [Digest -> BOOLEAN]
        /\ \A e \in Digest \ {d} : partial'[e] = partial[e]
        /\ PartialLen(d) >= Size[d] => partial'[d] = None
    BY <1>a, WriteTypes DEF FetchInv, Types, HashDiffers, RemoveIfPresent
  <1>1. GivesUp(q)
    BY <1>a, <1>b DEF FetchInv, Types, HashDiffers, Retry, GivesUp
  <1>2. ASSUME MaxAttempts >= 2, calm'[q]
        PROVE attempt[q] < MaxAttempts /\ partial'[d] = None
    <2>1. CalmOwn(q)
      BY <1>2 DEF FetchInv, Own, Calm, HashDiffers
    <2>2. partial[d] # None /\ partial[d].len = Size[d]
      BY <1>a, <2>1 DEF CalmOwn
    <2>3. partial'[d] = None
      BY <1>a, <1>b, <2>2 DEF PartialLen
    <2>4. ~(attempt[q] > 1)
      BY <1>a, <2>1, <2>2, GoodAndFull DEF CalmOwn
    <2> QED BY <1>2, <2>3, <2>4, AttemptAssumption DEF FetchInv, Types
  <1>3. Retry(q)
    BY DEF HashDiffers
  <1> QED BY <1>a, <1>1, <1>2, <1>3, RetryPreserves

-----------------------------------------------------------------------------
\* The steps that move bytes.

LEMMA ReceivePreserves ==
  ASSUME FetchInv, NEW q \in Proc, Receive(q)
  PROVE  FetchInv'
  <1> DEFINE d == Want(q)
  <1>a. /\ pc[q] = "body" /\ d \in Digest /\ Size[d] \in Nat /\ lock[d] = q
        /\ todo[q] # <<>> /\ Want(q)' = d
        /\ partial[d] # None /\ partial[d] \in File /\ partial[d].len \in Nat
        /\ partial[d].good \in BOOLEAN
        /\ partial[d].len = at[q]
    BY LayerOf DEF FetchInv, Types, Holding, Receive, Want, Own, Aligned, File
  <1>b. PICK right \in BOOLEAN :
          /\ Write(d, [len |-> partial[d].len + 1,
                       good |-> partial[d].good /\ right /\ at[q] = partial[d].len])
          /\ calm' = [calm EXCEPT ![q] = @ /\ right /\ at[q] < Size[d]]
    BY DEF Receive
  <1> DEFINE f == [len |-> partial[d].len + 1,
                   good |-> partial[d].good /\ right /\ at[q] = partial[d].len]
  <1>c. f \in File /\ f.len = at[q] + 1 /\ f # None
    BY <1>a, NoneAssumption DEF File
  <1>d. /\ partial' \in [Digest -> File \cup {None}] /\ stale' \in [Digest -> BOOLEAN]
        /\ \A e \in Digest \ {d} : partial'[e] = partial[e]
        /\ partial'[d] = f
    <2> HIDE DEF f
    <2> QED BY <1>a, <1>b, <1>c, WriteTypes DEF FetchInv, f
  <1>e. calm' \in [Proc -> BOOLEAN] /\ (calm'[q] => calm[q] /\ right)
    BY <1>b DEF FetchInv, Types
  <1>f. at' = [at EXCEPT ![q] = @ + 1] /\ UNCHANGED <<lock, pc, todo, scan, attempt, offset, scratch>>
    BY DEF Receive
  <1>g. calm'[q] /\ partial[d].good => f.good
    BY <1>a, <1>e
  <1> HIDE DEF f
  <1>1. Types'
    BY <1>d, <1>e, <1>f DEF FetchInv, Types
  <1>2. Own(q)'
    <2>1. Scratch(q)'
      BY <1>f, ScratchKept DEF FetchInv, Own
    <2>2. InRange(q)' /\ Held(q)' /\ Fresh(q)'
      BY <1>a, <1>f DEF FetchInv, Own, InRange, Held, Fresh
    <2>3. Verified(q)' /\ Aligned(q)' /\ Resumes(q)'
      BY <1>a, <1>c, <1>d, <1>f DEF FetchInv, Types, Verified, Aligned, Resumes
    <2>4. Calm(q)'
      BY <1>a, <1>c, <1>d, <1>e, <1>f, <1>g DEF FetchInv, Own, Calm, CalmOwn
    <2> QED BY <2>1, <2>2, <2>3, <2>4 DEF Own
  <1>3. OnlyOwn(q)
    BY <1>a, <1>b, <1>d, <1>f DEF FetchInv, Types, OnlyOwn, Local
  <1> QED BY <1>1, <1>2, <1>3, StepOfOne

LEMMA MovePreserves ==
  ASSUME FetchInv, NEW q \in Proc, Move(q)
  PROVE  FetchInv'
  <1> DEFINE d == Want(q)
  <1>a. /\ d \in Digest /\ lock[d] = q /\ Tail(todo[q]) \in Seq(Digest)
        /\ partial[d] = Whole(d) /\ Whole(d) \in File
    BY LayerOf, WholeIsAFile DEF FetchInv, Holding, Move, Own, Verified
  <1>b. /\ partial' \in [Digest -> File \cup {None}] /\ stale' \in [Digest -> BOOLEAN]
        /\ \A e \in Digest \ {d} : partial'[e] = partial[e]
    BY <1>a, WriteTypes DEF FetchInv, Move, RemoveIfPresent
  <1>c. /\ scratch' = [scratch EXCEPT ![q][d] = Whole(d)]
        /\ lock' = [lock EXCEPT ![d] = None]
        /\ todo' = [todo EXCEPT ![q] = Tail(@)]
        /\ pc' = [pc EXCEPT ![q] = "layer"]
        /\ UNCHANGED <<scan, attempt, offset, at, calm>>
    BY <1>a DEF Move, Goto
  <1>1. Types'
    BY <1>a, <1>b, <1>c DEF FetchInv, Types, Steps
  <1>2. Own(q)'
    <2>1. pc'[q] = "layer"
      BY <1>c DEF FetchInv, Types
    <2>2. Scratch(q)'
      BY <1>a, <1>c DEF FetchInv, Types, Own, Scratch, Whole
    <2>3. Calm(q)'
      BY <2>1 DEF Calm, CalmOwn
    <2> QED BY <2>1, <2>2, <2>3 DEF Own, InRange, Held, Verified, Aligned, Resumes, Fresh, Holding
  <1>3. OnlyOwn(q)
    BY <1>a, <1>b, <1>c DEF FetchInv, Types, OnlyOwn, Local
  <1> QED BY <1>1, <1>2, <1>3, StepOfOne

LEMMA CrashPreserves ==
  ASSUME FetchInv, NEW q \in Proc, Crash(q)
  PROVE  FetchInv'
  <1> USE DEF Goto, DropLeases, progress
  <1>1. Types'
    BY DEF FetchInv, Types, Crash, Steps, Ended
  <1>2. Own(q)'
    <2>1. pc'[q] = "dead"
      BY DEF FetchInv, Types, Crash
    <2>2. Scratch(q)'
      BY ScratchKept DEF FetchInv, Own, Crash
    <2>3. Calm(q)'
      BY <2>1 DEF Calm, CalmOwn
    <2> QED BY <2>1, <2>2, <2>3 DEF Own, InRange, Held, Verified, Aligned, Resumes, Fresh, Holding
  <1>3. OnlyOwn(q)
    BY DEF FetchInv, Types, Crash, OnlyOwn, Local
  <1> QED BY <1>1, <1>2, <1>3, StepOfOne

LEMMA AgePreserves ==
  ASSUME FetchInv, NEW e \in Digest, Age(e)
  PROVE  FetchInv'
  <1>1. Types'
    BY DEF FetchInv, Types, Age, progress
  <1>2. ASSUME NEW p \in Proc PROVE Own(p)'
    <2>1. Local(p)' = Local(p) /\ Want(p)' = Want(p) /\ partial' = partial /\ lock' = lock
      BY DEF Age, progress, Local, Want
    <2> QED BY <2>1, Frame DEF FetchInv
  <1> QED BY <1>1, <1>2 DEF FetchInv

-----------------------------------------------------------------------------
LEMMA FetchInvInit == Init => FetchInv
  <1> SUFFICES ASSUME Init PROVE FetchInv
    OBVIOUS
  <1>1. Types
    BY NothingIsTyped, AttemptAssumption DEF Init, Types, Steps, Nothing
  <1>2. ASSUME NEW p \in Proc PROVE Own(p)
    BY DEF Init, Own, InRange, Held, Verified, Aligned, Resumes, Fresh, Scratch, Calm, CalmOwn,
       Nothing, Holding
  <1> QED BY <1>1, <1>2 DEF FetchInv

LEMMA FetchInvStep == FetchInv /\ [Next]_vars => FetchInv'
  <1> SUFFICES ASSUME FetchInv, [Next]_vars PROVE FetchInv'
    OBVIOUS
  <1>1. CASE UNCHANGED vars
    BY <1>1 DEF FetchInv, Types, vars, files, progress, Own, InRange, Held, Verified, Aligned,
       Resumes, Fresh, Scratch, Calm, CalmOwn, Want, Whole
  <1>2. ASSUME NEW q \in Proc, Start(q) \/ Work(q) \/ Body(q) \/ IoFails(q) \/ Crash(q)
        PROVE FetchInv'
    BY <1>2, StartPreserves, NextLayerPreserves, FinishPreserves, ScanSkipPreserves,
       ScanLockPreserves, ScanStatPreserves, ScanDonePreserves, AcquirePreserves,
       InspectPreserves, RehashPreserves, RequestFailsPreserves, RangeRejectedPreserves,
       RangeInvalidPreserves, AnswerRangePreserves, AnswerWholePreserves, ReceivePreserves,
       BodyFailsPreserves, BodyEndsPreserves, HashMatchesPreserves, HashDiffersPreserves,
       MovePreserves, IoFailsPreserves, CrashPreserves DEF Work, Body
  <1>3. ASSUME NEW e \in Digest, Age(e) PROVE FetchInv'
    BY <1>3, AgePreserves
  <1> QED BY <1>1, <1>2, <1>3 DEF Next

LEMMA FetchInvHolds == Spec => []FetchInv
  BY FetchInvInit, FetchInvStep, PTL DEF Spec

\* The state of every pull keeps its type, and no request asks for bytes past
\* the end of its layer.
THEOREM FetchTypes == Spec => []TypeOK
  <1>1. FetchInv => TypeOK
    BY DEF FetchInv, TypeOK, Own
  <1> QED BY <1>1, FetchInvHolds, PTL

\* Only bytes with the layer's digest reach a scratch directory, whatever the
\* registries answer and wherever the pulls that share the partials die.
THEOREM DeliveriesAreVerified == Spec => []DeliveredIsVerified
  <1>1. FetchInv => DeliveredIsVerified
    BY DEF FetchInv, Own, Scratch, DeliveredIsVerified
  <1> QED BY <1>1, FetchInvHolds, PTL

\* The lease keeps the shared file in step with the body that is copied to it.
THEOREM StreamsAreAligned == Spec => []StreamIsAligned
  <1>1. FetchInv => StreamIsAligned
    BY DEF FetchInv, Own, Aligned, StreamIsAligned
  <1> QED BY <1>1, FetchInvHolds, PTL

\* With two attempts or more, a pull that meets right answers only never fails,
\* whatever earlier pulls left in the store.
THEOREM CalmPullsDeliver == Spec => []CalmPullDelivers
  <1>1. FetchInv => CalmPullDelivers
    BY DEF FetchInv, Own, Calm, CalmOwn, CalmPullDelivers
  <1> QED BY <1>1, FetchInvHolds, PTL
=============================================================================
