------------------------------ MODULE BlobFetch ------------------------------
(***************************************************************************)
(* Pulls of an artifact's layers from an OCI registry                      *)
(* (ost-artifact/src/transport/oci.rs). An interrupted download leaves a   *)
(* partial file, named after the layer's digest and shared by every        *)
(* process that uses the store; later pulls resume it, or scavenge it once *)
(* it is stale, under a kernel lock on a file beside it. The registry may  *)
(* answer anything: the digest is the only judge of the bytes.             *)
(***************************************************************************)
EXTENDS Naturals, Sequences

CONSTANTS Proc,         \* invocations of ost, one pull each
          Digest,       \* layer digests
          Size,         \* digest -> the size its descriptor states
          Pulls,        \* the sequences of layers a pull may fetch
          MaxAttempts,  \* max_attempts of OciTransferPolicy
          Excess,       \* bound: how far past the stated size bytes are told apart
          Crashes,      \* a process may die at any step
          None          \* no file, no owner

ASSUME SizeAssumption == Size \in [Digest -> Nat] /\ Excess \in Nat
ASSUME PullAssumption == Pulls \subseteq Seq(Digest)
ASSUME AttemptAssumption == MaxAttempts \in Nat \ {0}
ASSUME CrashAssumption == Crashes \in BOOLEAN
ASSUME NoneAssumption == None \notin Proc /\ None \notin [len : Nat, good : BOOLEAN]

VARIABLES partial,  \* digest -> its partial file, or None
          stale,    \* digest -> the partial is older than partial_max_age
          lock,     \* digest -> the process that holds its lease, or None
          pc,       \* process -> its next step
          todo,     \* process -> the layers still to fetch
          scan,     \* process -> the partials its scavenger has still to visit
          attempt,  \* process -> the attempt under way
          offset,   \* process -> the offset its request resumes from
          at,       \* process -> the position in the blob its body has reached
          calm,     \* process -> its pull has met right answers only
          scratch   \* process -> the layers in its scratch directory

files == <<partial, stale, lock>>
progress == <<todo, scan, attempt, offset, at, calm>>
vars == <<files, pc, progress, scratch>>

\* A file: its length, and whether its bytes are those of the blob's prefix.
File == [len : Nat, good : BOOLEAN]
Empty == [len |-> 0, good |-> TRUE]
Whole(d) == [len |-> Size[d], good |-> TRUE]
Nothing == [d \in Digest |-> None]

Ended == {"done", "failed", "dead"}
\* The steps of fetch_blob_to that run under the lease.
Holding == {"inspect", "rehash", "request", "body", "hash", "move"}
Steps == {"idle", "layer", "scan", "stat", "lease"} \cup Holding \cup Ended
Want(p) == Head(todo[p])

Types ==
  /\ partial \in [Digest -> File \cup {None}]
  /\ stale \in [Digest -> BOOLEAN]
  /\ lock \in [Digest -> Proc \cup {None}]
  /\ pc \in [Proc -> Steps]
  /\ todo \in [Proc -> Seq(Digest)]
  /\ scan \in [Proc -> SUBSET Digest]
  /\ attempt \in [Proc -> 1..MaxAttempts]
  /\ offset \in [Proc -> Nat]
  /\ at \in [Proc -> Nat]
  /\ calm \in [Proc -> BOOLEAN]
  /\ scratch \in [Proc -> [Digest -> File \cup {None}]]

\* A process inside fetch_blob_to has a layer to fetch, and never asks for bytes
\* past the end of it.
InRange(p) ==
  /\ pc[p] \in {"scan", "stat", "lease"} \cup Holding => todo[p] # <<>>
  /\ pc[p] \in {"request", "body"} => offset[p] <= Size[Want(p)]

TypeOK == Types /\ \A p \in Proc : InRange(p)

Init ==
  /\ partial = Nothing
  /\ stale = [d \in Digest |-> FALSE]
  /\ lock = Nothing
  /\ pc = [p \in Proc |-> "idle"]
  /\ todo = [p \in Proc |-> <<>>]
  /\ scan = [p \in Proc |-> {}]
  /\ attempt = [p \in Proc |-> 1]
  /\ offset = [p \in Proc |-> 0]
  /\ at = [p \in Proc |-> 0]
  /\ calm = [p \in Proc |-> TRUE]
  /\ scratch = [p \in Proc |-> Nothing]

-----------------------------------------------------------------------------
\* Helpers

Goto(p, step) == pc' = [pc EXCEPT ![p] = step]
Upset(p) == calm' = [calm EXCEPT ![p] = FALSE]

\* Every write refreshes the file's modification time.
Write(d, file) ==
  /\ partial' = [partial EXCEPT ![d] = file]
  /\ stale' = [stale EXCEPT ![d] = FALSE]
RemoveIfPresent(d) == Write(d, None)

\* Leases go with the handles of the process, returning or dead.
DropLeases(p) == lock' = [d \in Digest |-> IF lock[d] = p THEN None ELSE lock[d]]

\* An error leaves fetch_blob_to, and pull removes the scratch directory.
Fail(p) ==
  /\ DropLeases(p)
  /\ scratch' = [scratch EXCEPT ![p] = Nothing]
  /\ Goto(p, "failed")

\* A retryable outcome: the next attempt starts with a new inspection, and the
\* last one ends the pull. The lease is held across the delay.
Retry(p) ==
  /\ IF attempt[p] < MaxAttempts
     THEN /\ attempt' = [attempt EXCEPT ![p] = @ + 1]
          /\ Goto(p, "inspect")
          /\ UNCHANGED <<lock, scratch>>
     ELSE Fail(p) /\ UNCHANGED attempt
  /\ UNCHANGED <<todo, scan, offset, at>>

-----------------------------------------------------------------------------
\* pull, fetch_files

Start(p) ==
  /\ pc[p] = "idle"
  /\ \E layers \in Pulls : todo' = [todo EXCEPT ![p] = layers]
  /\ Goto(p, "layer")
  /\ UNCHANGED <<files, scan, attempt, offset, at, calm, scratch>>


\* The next layer: fetch_blob_to first lists the partial directory.
NextLayer(p) ==
  /\ pc[p] = "layer" /\ todo[p] # <<>>
  /\ scan' = [scan EXCEPT ![p] = {d \in Digest : partial[d] # None}]
  /\ attempt' = [attempt EXCEPT ![p] = 1]
  /\ Goto(p, "scan")
  /\ UNCHANGED <<files, todo, offset, at, calm, scratch>>

\* Every layer is fetched: the dist is verified and imported (ArtifactStore),
\* and the scratch directory goes away.
Finish(p) ==
  /\ pc[p] = "layer" /\ todo[p] = <<>>
  /\ scratch' = [scratch EXCEPT ![p] = Nothing]
  /\ Goto(p, "done")
  /\ UNCHANGED <<files, progress>>

-----------------------------------------------------------------------------
\* scavenge_partial_blobs

\* A locked partial is active somewhere: never wait for it.
ScanSkip(p) ==
  /\ pc[p] = "scan"
  /\ \E d \in scan[p] : lock[d] # None /\ scan' = [scan EXCEPT ![p] = @ \ {d}]
  /\ UNCHANGED <<files, pc, todo, attempt, offset, at, calm, scratch>>

ScanLock(p) ==
  /\ pc[p] = "scan"
  /\ \E d \in scan[p] : lock[d] = None /\ lock' = [lock EXCEPT ![d] = p]
  /\ Goto(p, "stat")
  /\ UNCHANGED <<partial, stale, progress, scratch>>

\* A stale partial is removed, a fresh or missing one is left; the lease goes.
ScanStat(p) ==
  /\ pc[p] = "stat"
  /\ \E d \in scan[p] :
       /\ lock[d] = p
       /\ IF stale[d] THEN RemoveIfPresent(d) ELSE UNCHANGED <<partial, stale>>
       /\ lock' = [lock EXCEPT ![d] = None]
       /\ scan' = [scan EXCEPT ![p] = @ \ {d}]
  /\ Goto(p, "scan")
  /\ UNCHANGED <<todo, attempt, offset, at, calm, scratch>>

ScanDone(p) ==
  /\ pc[p] = "scan" /\ scan[p] = {}
  /\ Goto(p, "lease")
  /\ UNCHANGED <<files, progress, scratch>>

-----------------------------------------------------------------------------
\* fetch_blob_to

\* acquire_partial_lease polls until the lock is free.
Acquire(p) ==
  /\ pc[p] = "lease" /\ lock[Want(p)] = None
  /\ lock' = [lock EXCEPT ![Want(p)] = p]
  /\ Goto(p, "inspect")
  /\ UNCHANGED <<partial, stale, progress, scratch>>

\* partial_len
PartialLen(d) == IF partial[d] = None THEN 0 ELSE partial[d].len

\* The head of an attempt: an oversized partial is removed, a full one is
\* hashed before anything is requested, a shorter one is resumed.
Inspect(p) ==
  LET d == Want(p) IN
  /\ pc[p] = "inspect"
  /\ IF PartialLen(d) > Size[d]
     THEN RemoveIfPresent(d) /\ offset' = [offset EXCEPT ![p] = 0]
     ELSE UNCHANGED <<partial, stale>> /\ offset' = [offset EXCEPT ![p] = PartialLen(d)]
  /\ Goto(p, IF PartialLen(d) = Size[d] /\ Size[d] > 0 THEN "rehash" ELSE "request")
  /\ UNCHANGED <<lock, todo, scan, attempt, at, calm, scratch>>

\* Mutant: a full partial with the wrong digest ends the pull.
RehashStops(p) ==
  LET d == Want(p) IN
  /\ pc[p] = "rehash"
  /\ IF partial[d] = Whole(d)
     THEN Goto(p, "move") /\ UNCHANGED <<files, offset, scratch>>
     ELSE RemoveIfPresent(d) /\ Fail(p) /\ UNCHANGED offset
  /\ UNCHANGED <<todo, scan, attempt, at, calm>>

\* A full partial that verifies needs no request; one that does not is removed
\* and this same attempt starts from nothing.
Rehash(p) ==
  LET d == Want(p) IN
  /\ pc[p] = "rehash"
  /\ IF partial[d] = Whole(d)
     THEN Goto(p, "move") /\ UNCHANGED <<partial, stale, offset>>
     ELSE /\ RemoveIfPresent(d)
          /\ offset' = [offset EXCEPT ![p] = 0]
          /\ Goto(p, "request")
  /\ UNCHANGED <<lock, todo, scan, attempt, at, calm, scratch>>

\* The request fails: a timeout, a transport error or an odd status is retried,
\* a missing blob or a refused credential is not.
RequestFails(p) ==
  /\ pc[p] = "request"
  /\ Retry(p) \/ (Fail(p) /\ UNCHANGED <<todo, scan, attempt, offset, at>>)
  /\ Upset(p)
  /\ UNCHANGED <<partial, stale>>

\* 416 to a range request: the partial is not a prefix the registry knows.
RangeRejected(p) ==
  /\ pc[p] = "request" /\ offset[p] > 0
  /\ RemoveIfPresent(Want(p))
  /\ Retry(p)
  /\ Upset(p)

\* A 206 whose Content-Range is not the one asked for, or a status that answers
\* no request of this code.
RangeInvalid(p) ==
  /\ pc[p] = "request"
  /\ RemoveIfPresent(Want(p))
  /\ Fail(p)
  /\ Upset(p)
  /\ UNCHANGED <<todo, scan, attempt, offset, at>>

\* 206 with the right Content-Range: the file is opened for append.
AnswerRange(p) ==
  LET d == Want(p) IN
  /\ pc[p] = "request" /\ offset[p] > 0
  /\ IF partial[d] = None THEN Write(d, Empty) ELSE UNCHANGED <<partial, stale>>
  /\ at' = [at EXCEPT ![p] = offset[p]]
  /\ Goto(p, "body")
  /\ UNCHANGED <<lock, todo, scan, attempt, offset, calm, scratch>>

\* Mutant: the full answer is appended to the prefix.
AnswerWholeAppends(p) ==
  LET d == Want(p) IN
  /\ pc[p] = "request"
  /\ IF partial[d] = None THEN Write(d, Empty) ELSE UNCHANGED <<partial, stale>>
  /\ offset' = [offset EXCEPT ![p] = 0]
  /\ at' = [at EXCEPT ![p] = 0]
  /\ Goto(p, "body")
  /\ UNCHANGED <<lock, todo, scan, attempt, calm, scratch>>

\* 200, whether or not a range was asked for: the file is truncated on open.
AnswerWhole(p) ==
  /\ pc[p] = "request"
  /\ Write(Want(p), Empty)
  /\ offset' = [offset EXCEPT ![p] = 0]
  /\ at' = [at EXCEPT ![p] = 0]
  /\ Goto(p, "body")
  /\ UNCHANGED <<lock, todo, scan, attempt, calm, scratch>>

\* Bytes of the body arrive and are written, right or wrong.  Nothing caps a
\* body: it may go on for ever, and past Excess its bytes change nothing more.
Receive(p) ==
  LET d == Want(p)  file == partial[d] IN
  /\ pc[p] = "body" /\ file # None /\ file.len < Size[d] + Excess
  /\ \E right \in BOOLEAN :
       /\ Write(d, [len |-> file.len + 1, good |-> file.good /\ right /\ at[p] = file.len])
       /\ calm' = [calm EXCEPT ![p] = @ /\ right /\ at[p] < Size[d]]
  /\ at' = [at EXCEPT ![p] = @ + 1]
  /\ UNCHANGED <<lock, pc, todo, scan, attempt, offset, scratch>>

\* The connection drops, stalls past the idle timeout, or the disk refuses a
\* write: what arrived stays in the partial.
BodyFails(p) ==
  /\ pc[p] = "body"
  /\ Retry(p)
  /\ Upset(p)
  /\ UNCHANGED <<partial, stale>>

\* The body ends, at the end of the blob or not.
BodyEnds(p) ==
  /\ pc[p] = "body"
  /\ calm' = [calm EXCEPT ![p] = @ /\ at[p] = Size[Want(p)]]
  /\ Goto(p, "hash")
  /\ UNCHANGED <<files, todo, scan, attempt, offset, at, scratch>>

\* Mutant: the size alone is compared.
HashMatchesSize(p) ==
  /\ pc[p] = "hash" /\ PartialLen(Want(p)) = Size[Want(p)]
  /\ Goto(p, "move")
  /\ UNCHANGED <<files, progress, scratch>>

HashMatches(p) ==
  /\ pc[p] = "hash" /\ partial[Want(p)] = Whole(Want(p))
  /\ Goto(p, "move")
  /\ UNCHANGED <<files, progress, scratch>>

\* A short file stays for the next attempt or the next pull; a full or longer
\* one is corrupt and is removed.
HashDiffers(p) ==
  LET d == Want(p) IN
  /\ pc[p] = "hash" /\ partial[d] # Whole(d)
  /\ IF PartialLen(d) >= Size[d] THEN RemoveIfPresent(d) ELSE UNCHANGED <<partial, stale>>
  /\ Retry(p)
  /\ UNCHANGED calm

\* Mutant: the lease is never given back.
MoveKeepsLease(p) ==
  LET d == Want(p) IN
  /\ pc[p] = "move" /\ partial[d] # None
  /\ scratch' = [scratch EXCEPT ![p][d] = partial[d]]
  /\ RemoveIfPresent(d)
  /\ todo' = [todo EXCEPT ![p] = Tail(@)]
  /\ Goto(p, "layer")
  /\ UNCHANGED <<lock, scan, attempt, offset, at, calm>>

\* move_verified_blob, and the lease goes with fetch_blob_to's return.
Move(p) ==
  LET d == Want(p) IN
  /\ pc[p] = "move" /\ partial[d] # None
  /\ scratch' = [scratch EXCEPT ![p][d] = partial[d]]
  /\ RemoveIfPresent(d)
  /\ lock' = [lock EXCEPT ![d] = None]
  /\ todo' = [todo EXCEPT ![p] = Tail(@)]
  /\ Goto(p, "layer")
  /\ UNCHANGED <<scan, attempt, offset, at, calm>>

\* A file or directory cannot be opened, read, removed or renamed, or the
\* fetched dist is refused.
IoFails(p) ==
  /\ pc[p] \notin {"idle", "body"} \cup Ended
  /\ Fail(p)
  /\ Upset(p)
  /\ UNCHANGED <<partial, stale, todo, scan, attempt, offset, at>>

-----------------------------------------------------------------------------
\* The environment

\* A process dies: the kernel drops its locks, its files stay.
Crash(p) ==
  /\ Crashes /\ pc[p] \notin {"idle"} \cup Ended
  /\ DropLeases(p)
  /\ Goto(p, "dead")
  /\ UNCHANGED <<partial, stale, progress, scratch>>

\* Seven days pass over a partial nobody is writing.
Age(d) ==
  /\ partial[d] # None /\ ~stale[d]
  /\ stale' = [stale EXCEPT ![d] = TRUE]
  /\ UNCHANGED <<partial, lock, pc, progress, scratch>>

\* What the process does by itself; requests are bounded by their timeouts.
Work(p) ==
  \/ NextLayer(p) \/ Finish(p)
  \/ ScanSkip(p) \/ ScanLock(p) \/ ScanStat(p) \/ ScanDone(p)
  \/ Acquire(p) \/ Inspect(p) \/ Rehash(p)
  \/ RequestFails(p) \/ RangeRejected(p) \/ RangeInvalid(p) \/ AnswerRange(p) \/ AnswerWhole(p)
  \/ HashMatches(p) \/ HashDiffers(p) \/ Move(p)

\* What the registry makes of a body.
Body(p) == Receive(p) \/ BodyFails(p) \/ BodyEnds(p)

Next == \/ \E p \in Proc : Start(p) \/ Work(p) \/ Body(p) \/ IoFails(p) \/ Crash(p)
        \/ \E d \in Digest : Age(d)

Spec == Init /\ [][Next]_vars

\* A live process takes its next step: a request ends by its timeouts if by
\* nothing else, and the lease is polled every 50 ms.  Nothing is assumed of a
\* body: the default timeout is one of idleness, and a trickle never meets it.
FairSpec == Spec /\ \A p \in Proc : WF_vars(Work(p))

-----------------------------------------------------------------------------
\* Properties

\* "Only a complete descriptor-verified blob moves into the caller's scratch
\* tree": whatever registries answered, wherever pulls died and however they
\* interleave, a layer in a scratch directory has the bytes of its digest.
DeliveredIsVerified ==
  \A p \in Proc, d \in Digest : scratch[p][d] \in {None, Whole(d)}

\* "concurrent pulls cannot append, truncate, rename, or scavenge each other's
\* bytes": while a body is copied, the shared file ends exactly where the body
\* has got to, so that a resumed prefix and its continuation line up.
StreamIsAligned ==
  \A p \in Proc : pc[p] = "body" => partial[Want(p)] # None /\ partial[Want(p)].len = at[p]

\* What earlier pulls left behind, corrupt, oversized, short or whole, never
\* costs a pull that meets right answers only: its second attempt is clean.
CalmPullDelivers ==
  MaxAttempts >= 2 => \A p \in Proc : pc[p] = "failed" => ~calm[p]

\* A pull ends unless some registry's body goes on for ever: retries are bounded,
\* and no lease is lost to a process that failed, finished or died.  (With
\* --overall-timeout DeadlineReader ends every body, so that every pull ends.)
EveryPullEnds ==
  (\A q \in Proc : []<>(pc[q] # "body"))
    => \A p \in Proc : (pc[p] # "idle") ~> (pc[p] \in Ended)
=============================================================================
