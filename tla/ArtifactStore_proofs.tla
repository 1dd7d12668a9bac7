------------------------ MODULE ArtifactStore_proofs ------------------------
(***************************************************************************)
(* Proofs about ArtifactStore, for any number of commands over any dists   *)
(* that run one after the other and may die at any step: the index agrees  *)
(* with the records, objects stay whole and an identity is never rewritten.*)
(***************************************************************************)
EXTENDS ArtifactStore, TLAPS

Busy(p) == pc[p] \notin {"idle"} \cup Ended
Sequential == \A p, q \in Proc : Busy(p) /\ Busy(q) => p = q

\* Identity a carries every field that identity b has.
Carries(a, b) == \A f \in Field : b[f] # None => a[f] = b[f]

\* The provenance that a record names is for the source of its identity.
Attests(rec) == rec.prov # None => rec.ident["source"] = rec.prov.source

\* What survives a death at any step: the manifest carries the record's identity,
\* the record the one its index entry had, and both attest it.
Binds(d) ==
  LET o == object[d] IN
  /\ o["record"] # None =>
       /\ Attests(o["record"])
       /\ o["manifest"] # None => Carries(o["manifest"].ident, o["record"].ident)
  /\ index[d] # None =>
       /\ o["record"] # None
       /\ Attests(index[d]) /\ Carries(o["record"].ident, index[d].ident)

\* What a command that ran to its end leaves: the evidence the record names, the
\* debug archive of the manifest, their sums, and the record in the index.
Evidence(o) ==
  o["record"] # None =>
    /\ o["manifest"] # None
    /\ o["sbom"] = o["record"].sbom /\ o["prov"] = o["record"].prov
    /\ o["manifest"].debug # None => o["debug"] = o["manifest"].debug
    /\ o["sums"] = Sums(o["record"], o["manifest"].debug)
Whole(d) == index[d] = object[d]["record"] /\ Evidence(object[d])

-----------------------------------------------------------------------------
\* The steps of an import that works on a stored object, before and after it
\* reconciled the identities.
Reconciled == {"repairDebug", "repairSums", "sbom", "prov", "promise", "manifest", "record"}
Stored == {"identity", "sums"} \cup Reconciled
Importing == {"examine", "staged"} \cup Stored
Indexing == {"readIndex", "writeIndex"}

\* The step fits the command.
StepFitsJob(p) ==
  /\ pc[p] # "idle" => job[p] \in Jobs
  /\ pc[p] \in Importing => job[p].op = "import"
  /\ pc[p] \in Indexing => job[p].op \in {"import", "remove"}
  /\ pc[p] = "resolve" => job[p].op \in {"remove", "export"}
  /\ pc[p] = "removing" => job[p].op = "remove"
  /\ pc[p] \in {"copying", "copied"} => job[p].op = "export"
  /\ pc[p] # "idle" /\ job[p].op = "import" => job[p].dist \in Dist /\ job[p].digest = job[p].dist.digest

\* What an import knows of the object it works on; deaths before it change nothing.
Remembers(p) ==
  /\ pc[p] \in {"idle", "examine", "resolve"} => mem[p] = Idle
  /\ pc[p] = "staged" => Obj(p)["record"] = None /\ mem[p].rec = RecordOf(job[p].dist)
  /\ pc[p] \in Stored => /\ mem[p].rec # None /\ mem[p].manifest # None
                         /\ Obj(p)["record"] # None /\ Obj(p)["manifest"] = mem[p].manifest
  /\ pc[p] = "identity" => mem[p].rec = Obj(p)["record"] /\ mem[p].attached = {} /\ mem[p].enriched = {}
  /\ pc[p] = "sums" => mem[p].rec = Obj(p)["record"]
  /\ pc[p] \in Indexing /\ job[p].op = "import" =>
       mem[p].rec # None /\ mem[p].rec = Obj(p)["record"]

\* What the reconciled record in memory is to the stored one and to the dist.
Reconciles(p) ==
  LET rec == mem[p].rec  stored == Obj(p)["record"]  d == job[p].dist IN
  pc[p] \in Reconciled =>
    /\ rec.sbom = stored.sbom /\ rec.prov = stored.prov
    /\ Carries(rec.ident, stored.ident)
    /\ mem[p].enriched = {} => rec.ident = stored.ident
    /\ d.prov # None => rec.ident["source"] = d.prov.source
    /\ Offered(d) # {} \/ mem[p].enriched # {} => Carries(d.manifest.ident, rec.ident)
    /\ mem[p].attached \subseteq Offered(d)
    /\ pc[p] \in {"repairDebug", "repairSums", "sbom"} => mem[p].attached = {}
    /\ pc[p] = "repairSums" => Committed(p)
    /\ pc[p] = "manifest" => ("prov" \in mem[p].attached \/ mem[p].enriched # {})
    /\ pc[p] = "record" /\ ("prov" \in mem[p].attached \/ mem[p].enriched # {}) => Committed(p)

\* What the other commands, and the index update, know.
Looks(p) ==
  /\ pc[p] = "writeIndex" => mem[p].index = index
  /\ pc[p] \in {"copying", "copied"} => mem[p].rec = index[Digest_(p)]
  /\ pc[p] \in Indexing \cup {"removing", "copying", "copied"} => mem[p].rec # None
  /\ pc[p] = "removing" => index[Digest_(p)] = None
  /\ pc[p] = "copied" =>
       /\ mem[p].manifest # None /\ mem[p].manifest = Obj(p)["manifest"]
       /\ exported[p] \in Dirs /\ exported[p]["archive"] # None
       /\ exported[p]["debug"] = None <=> mem[p].manifest.debug = None

\* While nothing was disturbed: the object is whole until the first write, then
\* holds the merged evidence, until record and sums describe it.
Merged(p, f) == IF job[p].dist[f] # None THEN job[p].dist[f] ELSE mem[p].rec[f]
AtWork(p) ==
  LET o == Obj(p)  d == job[p].dist  m == mem[p].manifest IN
  /\ pc[p] \in {"examine", "staged", "identity", "repairDebug", "repairSums", "sbom",
                 "resolve", "copying", "copied"} => Whole(Digest_(p))
  /\ pc[p] \in Indexing => IF job[p].op = "import" THEN Evidence(o) ELSE Whole(Digest_(p))
  /\ pc[p] \in {"prov", "promise"} /\ mem[p].attached = {} => Whole(Digest_(p))
  /\ pc[p] = "record" /\ ~Changed(p) => Whole(Digest_(p))
  /\ pc[p] \in {"prov", "promise", "manifest", "record"} => o["sbom"] = Merged(p, "sbom")
  /\ pc[p] = "prov" => o["prov"] = mem[p].rec.prov
  /\ pc[p] \in {"promise", "manifest", "record"} => o["prov"] = Merged(p, "prov")
  /\ pc[p] \in {"prov", "promise", "record", "sums"} /\ m.debug # None => o["debug"] = m.debug
  /\ pc[p] = "manifest" /\ d.manifest.debug # None => o["debug"] = d.manifest.debug
  /\ pc[p] = "sums" => o["sbom"] = o["record"].sbom /\ o["prov"] = o["record"].prov

\* An object nobody works on is whole.
AtRest(d) == (\A p \in Proc : Busy(p) => Digest_(p) # d) => Whole(d)

\* What a finished export handed out (the bodies of ExportBinds, ExportIsWhole).
HandedOut(p) ==
  pc[p] = "done" /\ job[p].op = "export" =>
    LET x == exported[p] IN
    /\ x["archive"] # None
    /\ x["prov"] # None => x["prov"].source = x["manifest"].ident["source"]
    /\ x["debug"] = x["manifest"].debug
HandedOutWhole(p) ==
  pc[p] = "done" /\ job[p].op = "export" =>
    LET x == exported[p] IN
    /\ x["record"].sbom = x["sbom"] /\ x["record"].prov = x["prov"]
    /\ x["sums"] = Sums(x["record"], x["debug"])

Local(p) == StepFitsJob(p) /\ Remembers(p) /\ Reconciles(p) /\ Looks(p) /\ HandedOut(p)
Calm(p) == AtWork(p) /\ HandedOutWhole(p)

StoreInv ==
  /\ TypeOK
  /\ Sequential
  /\ \A d \in Digest : Binds(d)
  /\ \A p \in Proc : Local(p)
  /\ Undisturbed => /\ \A d \in Digest : AtRest(d)
                    /\ \A p \in Proc : Calm(p)

-----------------------------------------------------------------------------
\* The invariant implies the properties of the run.
LEMMA InvImpliesProperties == StoreInv => IndexAgrees /\ ObjectsAreWhole
  <1> SUFFICES ASSUME StoreInv PROVE IndexAgrees /\ ObjectsAreWhole
    OBVIOUS
  <1>1. TypeOK /\ IndexPointsAtRecord
    BY DEF StoreInv, Binds, IndexPointsAtRecord
  <1>2. ASSUME Quiet, Undisturbed, NEW d \in Digest PROVE Whole(d) /\ Binds(d)
    BY <1>2 DEF StoreInv, AtRest, Quiet, Busy
  <1>3. IndexIsTheRecords
    BY <1>2 DEF IndexIsTheRecords, Whole
  <1>4. ASSUME Quiet, Undisturbed, NEW d \in Digest, object[d]["record"] # None
        PROVE  LET o == object[d] IN
               /\ o["sbom"] = o["record"].sbom /\ o["prov"] = o["record"].prov
               /\ o["prov"] # None => o["prov"].source = o["manifest"].ident["source"]
               /\ o["manifest"].debug # None => o["debug"] = o["manifest"].debug
               /\ o["sums"] = Sums(o["record"], o["manifest"].debug)
    <2>1. Evidence(object[d]) /\ Binds(d)
      BY <1>2, <1>4 DEF Whole
    <2>2. object[d]["record"].prov # None => object[d]["record"].prov.source # None
      BY <1>1, <1>4, NoneAssumption DEF TypeOK, Dirs, Records, Provs, Maybe
    <2> QED
      BY <1>4, <2>1, <2>2 DEF Evidence, Binds, Attests, Carries, Field
  <1>5. EvidenceIsStored
    BY <1>4 DEF EvidenceIsStored
  <1>6. ExportBinds
    BY DEF StoreInv, Local, HandedOut, ExportBinds
  <1>7. ExportIsWhole
    BY DEF StoreInv, Calm, HandedOutWhole, ExportIsWhole
  <1> QED
    BY <1>1, <1>3, <1>5, <1>6, <1>7 DEF IndexAgrees, ObjectsAreWhole

\* Nothing is stored and nobody works.
LEMMA InitHasInv == Init => StoreInv
  <1> SUFFICES ASSUME Init PROVE StoreInv
    OBVIOUS
  <1>1. NoDir \in Dirs /\ \A f \in Files : NoDir[f] = None
    BY DEF NoDir, Dirs, Maybe, Files
  <1>2. Idle \in Memory
    BY DEF Idle, Memory, Maybe
  <1>3. TypeOK
    BY <1>1, <1>2 DEF Init, TypeOK, Steps, Maybe
  <1>4. ASSUME NEW p \in Proc PROVE ~Busy(p) /\ Local(p) /\ Calm(p)
    BY DEF Init, Busy, Local, StepFitsJob, Remembers, Reconciles, Looks, HandedOut, Calm, AtWork,
       HandedOutWhole, Importing, Stored, Reconciled, Indexing
  <1>5. ASSUME NEW d \in Digest PROVE Binds(d) /\ Whole(d)
    BY <1>1 DEF Init, Binds, Whole, Evidence, Files
  <1> QED
    BY <1>3, <1>4, <1>5 DEF StoreInv, Sequential, AtRest

-----------------------------------------------------------------------------
\* Sequential steps: a step of the one process at work touches its own state and
\* the object of its digest.
Touches(p) ==
  /\ job' = job
  /\ \A q \in Proc \ {p} : pc'[q] = pc[q] /\ mem'[q] = mem[q] /\ exported'[q] = exported[q]
  /\ \A d \in Digest \ {Digest_(p)} : object'[d] = object[d] /\ index'[d] = index[d]

\* A command that fails after its first write is a disturbance.
CleanSoFar(p) == /\ job[p].op = "import" => mem[p].attached = {}
                 /\ job[p].op = "remove" => mem[p].rec = None
FailsClean(p) == pc[p] # "dead" /\ (pc[p] = "failed" => CleanSoFar(p))

\* It is enough to look at the process that steps, and at its object.
LEMMA Framing ==
  ASSUME StoreInv, NEW p \in Proc, Busy(p), Touches(p), TypeOK', Binds(Digest_(p))', Local(p)',
         Undisturbed /\ FailsClean(p)' => Calm(p)' /\ (Busy(p)' \/ Whole(Digest_(p))')
  PROVE  StoreInv'
  <1>1. Sequential'
    <2>1. \A q \in Proc \ {p} : ~Busy(q)
      BY DEF StoreInv, Sequential
    <2> QED
      BY <2>1 DEF Sequential, Busy, Touches
  <1>2. ASSUME NEW d \in Digest PROVE Binds(d)'
    <2>1. CASE d = Digest_(p)
      BY <2>1 DEF Touches, Digest_
    <2>2. CASE d # Digest_(p)
      BY <2>2 DEF Touches, StoreInv, Binds
    <2> QED
      BY <2>1, <2>2
  <1>3. ASSUME NEW q \in Proc, q # p
        PROVE  ~Busy(q) /\ ~Busy(q)' /\ Local(q)' /\ (Calm(q) => Calm(q)')
    <2>1. ~Busy(q) /\ Local(q)
      BY <1>3 DEF StoreInv, Sequential
    <2>2. pc'[q] = pc[q] /\ job'[q] = job[q] /\ mem'[q] = mem[q] /\ exported'[q] = exported[q]
      BY <1>3 DEF Touches
    <2> QED
      BY <2>1, <2>2 DEF Busy, Ended, Local, StepFitsJob, Remembers, Reconciles, Looks, HandedOut,
         Calm, AtWork, HandedOutWhole, Importing, Stored, Reconciled, Indexing
  <1>4. ASSUME Undisturbed' PROVE Undisturbed /\ FailsClean(p)'
    <2>1. ASSUME NEW q \in Proc PROVE FailsClean(q)
      <3>1. CASE q = p
        BY <3>1 DEF FailsClean, CleanSoFar, Busy, Ended
      <3>2. CASE q # p
        BY <3>2, <1>4 DEF FailsClean, CleanSoFar, Undisturbed, Touches
      <3> QED
        BY <3>1, <3>2
    <2> QED
      BY <1>4, <2>1 DEF Undisturbed, FailsClean, CleanSoFar
  <1>5. ASSUME Undisturbed', NEW d \in Digest PROVE AtRest(d)'
    <2>1. Undisturbed /\ FailsClean(p)'
      BY <1>4, <1>5
    <2>2. CASE d = Digest_(p)
      BY <2>1, <2>2 DEF AtRest, Touches, Digest_
    <2>3. CASE d # Digest_(p)
      <3>1. AtRest(d)
        BY <2>1 DEF StoreInv
      <3>2. \A q \in Proc : Busy(q) => Digest_(q) # d
        BY <2>3, <1>3
      <3>3. Whole(d)
        BY <3>1, <3>2 DEF AtRest
      <3> QED
        BY <3>3, <2>3 DEF AtRest, Whole, Touches
    <2> QED
      BY <2>2, <2>3
  <1>6. ASSUME Undisturbed', NEW q \in Proc PROVE Calm(q)'
    BY <1>3, <1>4, <1>6 DEF StoreInv
  <1> QED
    BY <1>1, <1>2, <1>3, <1>5, <1>6 DEF StoreInv

-----------------------------------------------------------------------------
\* What the invariant says of the process at work.
LEMMA BusyFacts ==
  ASSUME StoreInv, NEW p \in Proc, Busy(p)
  PROVE  /\ job[p] \in Jobs /\ Digest_(p) \in Digest
         /\ Obj(p) \in Dirs /\ mem[p] \in Memory
         /\ Local(p) /\ Binds(Digest_(p))
         /\ Undisturbed => Calm(p)
  BY DEF StoreInv, TypeOK, Local, StepFitsJob, Busy, Jobs, Digest_, Obj

\* A command that fails writes nothing in that step.
LEMMA FailKeepsInv ==
  ASSUME StoreInv, NEW p \in Proc, Busy(p), Fail(p),
         Undisturbed /\ CleanSoFar(p) => Whole(Digest_(p))
  PROVE  StoreInv'
  <1>1. pc' = [pc EXCEPT ![p] = "failed"] /\ pc'[p] = "failed" /\ Touches(p)
    BY DEF Fail, Goto, Touches, store, StoreInv, TypeOK
  <1>2. UNCHANGED <<index, object, job, mem, exported>>
    BY DEF Fail, store
  <1>3. TypeOK'
    BY <1>1, <1>2 DEF StoreInv, TypeOK, Steps, Ended
  <1>4. Binds(Digest_(p))'
    BY <1>2, BusyFacts DEF Binds, Digest_
  <1>5. Local(p)'
    BY <1>1, <1>2, BusyFacts DEF Local, StepFitsJob, Remembers, Reconciles, Looks, HandedOut,
       Importing, Stored, Reconciled, Indexing, Busy
  <1>6. Calm(p)'
    BY <1>1, <1>2 DEF Calm, AtWork, HandedOutWhole, Indexing
  <1>7. ASSUME Undisturbed, FailsClean(p)' PROVE Whole(Digest_(p))'
    BY <1>1, <1>2, <1>7 DEF FailsClean, CleanSoFar, Whole, Digest_
  <1> QED
    BY <1>1, <1>3, <1>4, <1>5, <1>6, <1>7, Framing

\* A death leaves the files as they are.
LEMMA CrashKeepsInv == ASSUME StoreInv, NEW p \in Proc, Crash(p) PROVE StoreInv'
  <1>0. Busy(p)
    BY DEF Crash, Busy
  <1>1. pc' = [pc EXCEPT ![p] = "dead"] /\ pc'[p] = "dead" /\ Touches(p)
    BY DEF Crash, Goto, Touches, store, StoreInv, TypeOK
  <1>2. UNCHANGED <<index, object, job, mem, exported>>
    BY DEF Crash, store
  <1>3. TypeOK'
    BY <1>1, <1>2 DEF StoreInv, TypeOK, Steps, Ended
  <1>4. Binds(Digest_(p))'
    BY <1>0, <1>2, BusyFacts DEF Binds, Digest_
  <1>5. Local(p)'
    BY <1>0, <1>1, <1>2, BusyFacts DEF Local, StepFitsJob, Remembers, Reconciles, Looks, HandedOut,
       Importing, Stored, Reconciled, Indexing, Busy
  <1>6. ~FailsClean(p)'
    BY <1>1 DEF FailsClean
  <1> QED
    BY <1>0, <1>1, <1>3, <1>4, <1>5, <1>6, Framing

\* An object that has a record is a directory: a write replaces the file.
LEMMA StoredIsADirectory == ASSUME NEW p, Obj(p)["record"] # None PROVE Obj(p) # NoDir
  BY DEF NoDir, Files

-----------------------------------------------------------------------------

\* Nothing is stored yet: the incoming record is the one to write.
LEMMA ExamineNewKeepsInv == ASSUME StoreInv, NEW p \in Proc, ExamineNew(p) PROVE StoreInv'
  <1>0. pc[p] = "examine" /\ Busy(p)
    BY DEF ExamineNew, Busy, Ended
  <1>1. /\ job[p] \in Jobs /\ job[p].op = "import" /\ job[p].dist \in Dist /\ mem[p] = Idle
        /\ job[p].digest = job[p].dist.digest
        /\ Binds(Digest_(p)) /\ (Undisturbed => Whole(Digest_(p)))
    BY <1>0, BusyFacts DEF Local, StepFitsJob, Remembers, Calm, AtWork, Importing
  <1>2. /\ pc'[p] = "staged" /\ Touches(p) /\ UNCHANGED <<index, object, job, exported>>
        /\ mem'[p].rec = RecordOf(job[p].dist) /\ Obj(p)["record"] = None
    BY <1>1 DEF ExamineNew, Goto, Touches, store, StoreInv, TypeOK, Memory
  <1>3. TypeOK'
    <2>1. RecordOf(job[p].dist) \in Records /\ Offered(job[p].dist) \in SUBSET {"sbom", "prov"}
      BY <1>1, DistAssumption DEF RecordOf, Records, Manifests, Maybe, Offered
    <2>4. [mem[p] EXCEPT !.rec = RecordOf(job[p].dist), !.attached = Offered(job[p].dist)] \in Memory
      BY <1>0, <2>1, BusyFacts DEF Memory, Maybe
    <2>2. mem' \in [Proc -> Memory] /\ pc' \in [Proc -> Steps]
      BY <2>4 DEF ExamineNew, Goto, StoreInv, TypeOK, Steps
    <2>3. \A q \in Proc \ {p} : pc'[q] = pc[q] /\ mem'[q] = mem[q]
      BY <1>2 DEF Touches
    <2> QED
      BY <1>2, <2>2, <2>3 DEF StoreInv, TypeOK
  <1>4. Binds(Digest_(p))' /\ (Undisturbed => Whole(Digest_(p))')
    BY <1>1, <1>2 DEF Binds, Whole, Digest_
  <1>5. Local(p)'
    BY <1>1, <1>2 DEF Local, StepFitsJob, Remembers, Reconciles, Looks, HandedOut, Importing, Stored, Reconciled, Indexing, Obj, Digest_
  <1>6. Undisturbed => Calm(p)' /\ Busy(p)'
    BY <1>2, <1>4 DEF Calm, AtWork, HandedOutWhole, Importing, Stored, Reconciled, Indexing, Busy, Ended
  <1> QED
    BY <1>0, <1>2, <1>3, <1>4, <1>5, <1>6, Framing

\* The bytes are stored: their record and manifest are read.
LEMMA ExamineStoredKeepsInv == ASSUME StoreInv, NEW p \in Proc, ExamineStored(p) PROVE StoreInv'
  <1>0. pc[p] = "examine" /\ Busy(p)
    BY DEF ExamineStored, Busy, Ended
  <1>1. /\ job[p] \in Jobs /\ job[p].op = "import" /\ job[p].dist \in Dist /\ mem[p] = Idle
        /\ Binds(Digest_(p)) /\ (Undisturbed => Whole(Digest_(p))) /\ Obj(p) \in Dirs
        /\ job[p].digest = job[p].dist.digest
    BY <1>0, BusyFacts DEF Local, StepFitsJob, Remembers, Calm, AtWork, Importing
  <1>2. CASE Fail(p)
    BY <1>0, <1>1, <1>2, FailKeepsInv
  <1>3. CASE ~Fail(p)
    <2>1. /\ pc'[p] = "identity" /\ Touches(p) /\ UNCHANGED <<index, object, job, exported>>
          /\ mem'[p].rec = Obj(p)["record"] /\ mem'[p].manifest = Obj(p)["manifest"]
          /\ mem'[p].attached = {} /\ mem'[p].enriched = {}
          /\ Obj(p)["record"] # None /\ Obj(p)["manifest"] # None
      BY <1>1, <1>3 DEF ExamineStored, Goto, Touches, store, StoreInv, TypeOK, Memory, Idle
    <2>8. [mem[p] EXCEPT !.rec = Obj(p)["record"], !.manifest = Obj(p)["manifest"]] \in Memory
      BY <1>0, BusyFacts DEF Memory, Dirs
    <2>2. mem' \in [Proc -> Memory] /\ pc' \in [Proc -> Steps]
      BY <1>3, <2>8 DEF ExamineStored, Goto, StoreInv, TypeOK, Steps
    <2>3. \A q \in Proc \ {p} : pc'[q] = pc[q] /\ mem'[q] = mem[q]
      BY <2>1 DEF Touches
    <2>4. TypeOK'
      BY <2>1, <2>2, <2>3 DEF StoreInv, TypeOK
    <2>5. Binds(Digest_(p))' /\ (Undisturbed => Whole(Digest_(p))')
      BY <1>1, <2>1 DEF Binds, Whole, Digest_
    <2>6. Local(p)'
      BY <1>1, <2>1 DEF Local, StepFitsJob, Remembers, Reconciles, Looks, HandedOut, Importing, Stored, Reconciled, Indexing, Obj, Digest_
    <2>7. Undisturbed => Calm(p)' /\ Busy(p)'
      BY <2>1, <2>5 DEF Calm, AtWork, HandedOutWhole, Importing, Stored, Reconciled, Indexing, Busy, Ended
    <2> QED
      BY <1>0, <2>1, <2>4, <2>5, <2>6, <2>7, Framing
  <1> QED
    BY <1>2, <1>3

\* The staged directory becomes the object, whole, or the import fails.
LEMMA PublishKeepsInv == ASSUME StoreInv, NEW p \in Proc, Publish(p) PROVE StoreInv'
  <1> DEFINE d == job[p].dist
  <1>0. pc[p] = "staged" /\ Busy(p)
    BY DEF Publish, Busy, Ended
  <1>1. /\ job[p] \in Jobs /\ job[p].op = "import" /\ d \in Dist /\ Digest_(p) = d.digest
        /\ Obj(p)["record"] = None /\ mem[p].rec = RecordOf(d)
        /\ Binds(Digest_(p)) /\ (Undisturbed => Whole(Digest_(p))) /\ Digest_(p) \in Digest
    BY <1>0, BusyFacts DEF Local, StepFitsJob, Remembers, Calm, AtWork, Importing, Digest_
  <1>2. CASE Obj(p) # NoDir
    <2>1. Fail(p)
      BY <1>1, <1>2 DEF Publish, Fail, store
    <2> QED
      BY <1>0, <1>1, <2>1, FailKeepsInv
  <1>3. CASE Obj(p) = NoDir
    <2> DEFINE new == [archive |-> d.digest, record |-> RecordOf(d), manifest |-> d.manifest,
                       sbom |-> d.sbom, prov |-> d.prov, debug |-> d.manifest.debug,
                       sums |-> Sums(RecordOf(d), d.manifest.debug)]
    <2>1. /\ pc' = [pc EXCEPT ![p] = "readIndex"] /\ object' = [object EXCEPT ![Digest_(p)] = new]
          /\ UNCHANGED <<index, job, mem, exported>>
      BY <1>1, <1>3 DEF Publish, Goto
    <2>2. RecordOf(d) \in Records /\ d.manifest \in Manifests /\ d.digest \in Digest
      BY <1>1, DistAssumption DEF RecordOf, Records, Manifests
    <2>3. new \in Dirs
      BY <1>1, <2>2, DistAssumption DEF Dirs, Maybe, Sums, SumsFiles, Records, Manifests
    <2>4. object' \in [Digest -> Dirs] /\ pc' \in [Proc -> Steps] /\ pc'[p] = "readIndex"
      BY <1>1, <2>1, <2>3 DEF StoreInv, TypeOK, Steps
    <2>5. Touches(p)
      BY <2>1 DEF Touches, StoreInv, TypeOK
    <2>6. TypeOK'
      BY <2>1, <2>4, <2>5 DEF StoreInv, TypeOK, Touches
    <2>7. object'[Digest_(p)] = new
      BY <1>1, <2>1 DEF StoreInv, TypeOK
    <2>8. RecordOf(d) # None /\ d.manifest # None
      BY <2>2, NoneAssumption
    <2>9. Binds(Digest_(p))'
      <3>1. index[Digest_(p)] = None
        BY <1>1 DEF Binds, Obj
      <3>2. Attests(RecordOf(d)) /\ Carries(d.manifest.ident, RecordOf(d).ident)
        BY <1>1, DistAssumption DEF Attests, RecordOf, Carries
      <3> QED
        BY <2>1, <2>7, <3>1, <3>2 DEF Binds, Digest_
    <2>10. Local(p)'
      BY <1>1, <2>1, <2>4, <2>7, <2>8 DEF Local, StepFitsJob, Remembers, Reconciles, Looks, HandedOut, Importing, Stored, Reconciled, Indexing, Obj, Digest_
    <2>11. Evidence(new)
      BY <2>8 DEF Evidence, RecordOf, Sums
    <2>12. Calm(p)' /\ Busy(p)'
      BY <1>1, <2>1, <2>4, <2>7, <2>11 DEF Calm, AtWork, HandedOutWhole, Importing, Stored, Reconciled, Indexing, Busy, Ended, Obj, Digest_
    <2> QED
      BY <1>0, <2>5, <2>6, <2>9, <2>10, <2>12, Framing
  <1> QED
    BY <1>2, <1>3

\* A refused identity leaves the object as it is.
LEMMA RefuseIdentityKeepsInv == ASSUME StoreInv, NEW p \in Proc, RefuseIdentity(p) PROVE StoreInv'
  <1>0. pc[p] = "identity" /\ Busy(p) /\ Fail(p)
    BY DEF RefuseIdentity, Busy, Ended
  <1>1. Undisturbed => Whole(Digest_(p))
    BY <1>0, BusyFacts DEF Calm, AtWork
  <1> QED
    BY <1>0, <1>1, FailKeepsInv

-----------------------------------------------------------------------------
\* The index is read as it is.
LEMMA ReadIndexKeepsInv == ASSUME StoreInv, NEW p \in Proc, ReadIndex(p) PROVE StoreInv'
  <1>0. pc[p] = "readIndex" /\ Busy(p)
    BY DEF ReadIndex, Busy, Ended
  <1>1. /\ job[p] \in Jobs /\ mem[p] \in Memory /\ Local(p) /\ Binds(Digest_(p))
        /\ Undisturbed => Calm(p)
    BY <1>0, BusyFacts
  <1>2. [mem[p] EXCEPT !.index = index] \in Memory
    BY <1>1 DEF Memory, Maybe, StoreInv, TypeOK
  <1>3. /\ pc' = [pc EXCEPT ![p] = "writeIndex"] /\ pc'[p] = "writeIndex"
        /\ mem' \in [Proc -> Memory] /\ pc' \in [Proc -> Steps]
        /\ UNCHANGED <<index, object, job, exported>> /\ Touches(p)
    BY <1>2 DEF ReadIndex, Goto, Touches, store, StoreInv, TypeOK, Steps
  <1>4. mem'[p].rec = mem[p].rec /\ mem'[p].index = index
    BY <1>1 DEF ReadIndex, StoreInv, TypeOK, Memory
  <1>6. TypeOK'
    BY <1>3 DEF StoreInv, TypeOK, Touches
  <1>7. Binds(Digest_(p))'
    BY <1>1, <1>3 DEF Binds, Digest_
  <1>8. Local(p)'
    BY <1>0, <1>1, <1>3, <1>4 DEF Local, StepFitsJob, Remembers, Reconciles, Looks, HandedOut, Importing, Stored, Reconciled, Indexing, Obj, Digest_
  <1>9. Undisturbed => Calm(p)' /\ Busy(p)'
    BY <1>0, <1>1, <1>3 DEF Calm, AtWork, HandedOutWhole, Importing, Stored, Reconciled, Indexing, Busy, Ended, Obj, Digest_, Whole
  <1> QED
    BY <1>0, <1>3, <1>6, <1>7, <1>8, <1>9, Framing

\* The record that was committed goes into the index that was read.
LEMMA UpsertIndexKeepsInv == ASSUME StoreInv, NEW p \in Proc, UpsertIndex(p) PROVE StoreInv'
  <1>0. pc[p] = "writeIndex" /\ job[p].op = "import" /\ Busy(p)
    BY DEF UpsertIndex, Busy, Ended
  <1>1. /\ job[p] \in Jobs /\ mem[p] \in Memory /\ Local(p) /\ Binds(Digest_(p))
        /\ (Undisturbed => Calm(p)) /\ Digest_(p) \in Digest
    BY <1>0, BusyFacts
  <1>2. mem[p].index = index /\ mem[p].rec # None /\ mem[p].rec = Obj(p)["record"]
    BY <1>0, <1>1 DEF Local, Looks, Remembers, Indexing
  <1>3. /\ index' = [index EXCEPT ![Digest_(p)] = mem[p].rec]
        /\ pc' = [pc EXCEPT ![p] = "done"] /\ pc'[p] = "done"
        /\ UNCHANGED <<object, job, mem, exported>>
    BY <1>2 DEF UpsertIndex, Goto, StoreInv, TypeOK
  <1>4. index' \in [Digest -> Maybe(Records)] /\ pc' \in [Proc -> Steps] /\ Touches(p)
    BY <1>1, <1>3 DEF StoreInv, TypeOK, Memory, Steps, Ended, Touches
  <1>5. TypeOK'
    BY <1>3, <1>4 DEF StoreInv, TypeOK, Touches
  <1>6. index'[Digest_(p)] = object[Digest_(p)]["record"]
    BY <1>1, <1>2, <1>3 DEF StoreInv, TypeOK, Obj
  <1>7. Binds(Digest_(p))'
    BY <1>1, <1>2, <1>3, <1>6 DEF Binds, Digest_, Carries, Obj
  <1>8. Local(p)'
    BY <1>0, <1>1, <1>3 DEF Local, StepFitsJob, Remembers, Reconciles, Looks, HandedOut, Importing, Stored, Reconciled, Indexing
  <1>9. Undisturbed => Calm(p)' /\ Whole(Digest_(p))'
    BY <1>0, <1>1, <1>3, <1>6 DEF Calm, AtWork, HandedOutWhole, Importing, Stored, Reconciled, Indexing, Obj, Digest_, Whole
  <1> QED
    BY <1>0, <1>4, <1>5, <1>7, <1>8, <1>9, Framing

\* remove and export look their digest up in the index.
LEMMA ResolveKeepsInv == ASSUME StoreInv, NEW p \in Proc, Resolve(p) PROVE StoreInv'
  <1>0. pc[p] = "resolve" /\ Busy(p)
    BY DEF Resolve, Busy, Ended
  <1>1. /\ job[p] \in Jobs /\ mem[p] \in Memory /\ Local(p) /\ Binds(Digest_(p))
        /\ (Undisturbed => Whole(Digest_(p))) /\ Digest_(p) \in Digest
        /\ job[p].op \in {"remove", "export"}
    BY <1>0, BusyFacts DEF Calm, AtWork, Local, StepFitsJob
  <1>2. CASE Fail(p)
    BY <1>0, <1>1, <1>2, FailKeepsInv
  <1>3. CASE ~Fail(p)
    <2>1. /\ index[Digest_(p)] # None /\ UNCHANGED <<index, object, job, exported>>
          /\ mem' = [mem EXCEPT ![p].rec = index[Digest_(p)]]
          /\ pc' = [pc EXCEPT ![p] = IF job[p].op = "remove" THEN "readIndex" ELSE "copying"]
      BY <1>3 DEF Resolve, Goto, store
    <2>2. [mem[p] EXCEPT !.rec = index[Digest_(p)]] \in Memory
      BY <1>1 DEF Memory, StoreInv, TypeOK
    <2>3. /\ mem' \in [Proc -> Memory] /\ pc' \in [Proc -> Steps] /\ Touches(p)
          /\ pc'[p] = IF job[p].op = "remove" THEN "readIndex" ELSE "copying"
      BY <2>1, <2>2 DEF Touches, StoreInv, TypeOK, Steps
    <2>4. mem'[p].rec = index[Digest_(p)]
      BY <1>1, <2>1 DEF StoreInv, TypeOK, Memory
    <2>5. TypeOK'
      BY <2>1, <2>3 DEF StoreInv, TypeOK, Touches
    <2>6. Binds(Digest_(p))' /\ (Undisturbed => Whole(Digest_(p))')
      BY <1>1, <2>1 DEF Binds, Whole, Digest_
    <2>7. Local(p)'
      BY <1>0, <1>1, <2>1, <2>3, <2>4 DEF Local, StepFitsJob, Remembers, Reconciles, Looks, HandedOut, Importing, Stored, Reconciled, Indexing, Digest_
    <2>8. Undisturbed => Calm(p)' /\ Busy(p)'
      BY <1>1, <2>1, <2>3, <2>6 DEF Calm, AtWork, HandedOutWhole, Importing, Stored, Reconciled, Indexing, Busy, Ended
    <2> QED
      BY <1>0, <2>3, <2>5, <2>6, <2>7, <2>8, Framing
  <1> QED
    BY <1>2, <1>3

\* remove takes the entry out first ...
LEMMA DropFromIndexKeepsInv == ASSUME StoreInv, NEW p \in Proc, DropFromIndex(p) PROVE StoreInv'
  <1>0. pc[p] = "writeIndex" /\ job[p].op = "remove" /\ Busy(p)
    BY DEF DropFromIndex, Busy, Ended
  <1>1. job[p] \in Jobs /\ Local(p) /\ Binds(Digest_(p)) /\ Digest_(p) \in Digest
    BY <1>0, BusyFacts
  <1>2. mem[p].index = index /\ mem[p].rec # None
    BY <1>0, <1>1 DEF Local, Looks, Indexing
  <1>3. /\ index' = [index EXCEPT ![Digest_(p)] = None] /\ index'[Digest_(p)] = None
        /\ pc' = [pc EXCEPT ![p] = "removing"] /\ pc'[p] = "removing"
        /\ UNCHANGED <<object, job, mem, exported>>
    BY <1>1, <1>2 DEF DropFromIndex, Goto, StoreInv, TypeOK
  <1>4. index' \in [Digest -> Maybe(Records)] /\ pc' \in [Proc -> Steps] /\ Touches(p)
    BY <1>1, <1>3 DEF StoreInv, TypeOK, Steps, Touches, Maybe
  <1>5. TypeOK'
    BY <1>3, <1>4 DEF StoreInv, TypeOK, Touches
  <1>6. Binds(Digest_(p))'
    BY <1>1, <1>3 DEF Binds, Digest_
  <1>7. Local(p)'
    BY <1>0, <1>1, <1>2, <1>3 DEF Local, StepFitsJob, Remembers, Reconciles, Looks, HandedOut, Importing, Stored, Reconciled, Indexing, Digest_
  <1>8. Calm(p)' /\ Busy(p)'
    BY <1>3 DEF Calm, AtWork, HandedOutWhole, Importing, Stored, Reconciled, Indexing, Busy, Ended
  <1> QED
    BY <1>0, <1>4, <1>5, <1>6, <1>7, <1>8, Framing

\* ... and then the files, one by one: what is left still binds.
LEMMA RemoveFileKeepsInv == ASSUME StoreInv, NEW p \in Proc, RemoveFile(p) PROVE StoreInv'
  <1>0. pc[p] = "removing" /\ Busy(p)
    BY DEF RemoveFile, Busy, Ended
  <1>1. /\ job[p] \in Jobs /\ Local(p) /\ Binds(Digest_(p)) /\ Digest_(p) \in Digest
        /\ Obj(p) \in Dirs /\ index[Digest_(p)] = None
    BY <1>0, BusyFacts DEF Local, Looks
  <1>2. PICK f \in Files : object' = [object EXCEPT ![Digest_(p)] = [Obj(p) EXCEPT ![f] = None]]
    BY DEF RemoveFile, Put, Obj
  <1>3. UNCHANGED <<index, pc, job, mem, exported>>
    BY DEF RemoveFile
  <1>4. [Obj(p) EXCEPT ![f] = None] \in Dirs
    BY <1>1 DEF Dirs, Maybe, Files
  <1>5. object' \in [Digest -> Dirs] /\ Touches(p)
    BY <1>1, <1>2, <1>3, <1>4 DEF StoreInv, TypeOK, Touches
  <1>6. TypeOK'
    BY <1>3, <1>5 DEF StoreInv, TypeOK
  <1>7. \A g \in Files : object'[Digest_(p)][g] \in {None, Obj(p)[g]}
    BY <1>1, <1>2 DEF StoreInv, TypeOK, Dirs, Files
  <1>8. Binds(Digest_(p))'
    BY <1>1, <1>3, <1>7 DEF Binds, Digest_, Obj, Files
  <1>9. Local(p)' /\ Calm(p)' /\ Busy(p)'
    BY <1>0, <1>1, <1>3 DEF Local, StepFitsJob, Remembers, Reconciles, Looks, HandedOut, Calm, AtWork, HandedOutWhole, Importing, Stored, Reconciled, Indexing, Digest_, Busy, Ended
  <1> QED
    BY <1>0, <1>5, <1>6, <1>8, <1>9, Framing

LEMMA RemoveDoneKeepsInv == ASSUME StoreInv, NEW p \in Proc, RemoveDone(p) PROVE StoreInv'
  <1>0. pc[p] = "removing" /\ Busy(p) /\ Obj(p) = NoDir
    BY DEF RemoveDone, Busy, Ended
  <1>1. /\ job[p] \in Jobs /\ job[p].op = "remove" /\ Local(p) /\ Binds(Digest_(p))
        /\ Digest_(p) \in Digest /\ index[Digest_(p)] = None
    BY <1>0, BusyFacts DEF Local, Looks, StepFitsJob
  <1>2. /\ pc' = [pc EXCEPT ![p] = "done"] /\ pc'[p] = "done"
        /\ UNCHANGED <<index, object, job, mem, exported>>
    BY DEF RemoveDone, Goto, store, StoreInv, TypeOK
  <1>3. TypeOK' /\ Touches(p)
    BY <1>2 DEF StoreInv, TypeOK, Steps, Ended, Touches
  <1>4. Binds(Digest_(p))'
    BY <1>1, <1>2 DEF Binds, Digest_
  <1>5. Local(p)' /\ Calm(p)'
    BY <1>0, <1>1, <1>2 DEF Local, StepFitsJob, Remembers, Reconciles, Looks, HandedOut, Calm, AtWork, HandedOutWhole, Importing, Stored, Reconciled, Indexing
  <1>6. Whole(Digest_(p))'
    BY <1>0, <1>1, <1>2 DEF Whole, Evidence, NoDir, Files, Digest_, Obj
  <1> QED
    BY <1>0, <1>3, <1>4, <1>5, <1>6, Framing

LEMMA RemoveFailsKeepsInv == ASSUME StoreInv, NEW p \in Proc, RemoveFails(p) PROVE StoreInv'
  <1>0. pc[p] = "removing" /\ Busy(p) /\ Fail(p)
    BY DEF RemoveFails, Busy, Ended
  <1>1. ~CleanSoFar(p)
    BY <1>0, BusyFacts DEF Local, Looks, StepFitsJob, CleanSoFar
  <1> QED
    BY <1>0, <1>1, FailKeepsInv

-----------------------------------------------------------------------------
\* export copies what the record and the manifest name ...
LEMMA CopySidecarsKeepsInv == ASSUME StoreInv, NEW p \in Proc, CopySidecars(p) PROVE StoreInv'
  <1> DEFINE m == Obj(p)["manifest"]
             named == {"archive"} \cup {f \in {"sbom", "prov"} : mem[p].rec[f] # None}
                      \cup IF m # None /\ m.debug # None THEN {"debug"} ELSE {}
             x == [f \in Files |-> IF f \in named THEN Obj(p)[f] ELSE None]
  <1>0. pc[p] = "copying" /\ Busy(p)
    BY DEF CopySidecars, Busy, Ended
  <1>1. /\ job[p] \in Jobs /\ mem[p] \in Memory /\ Obj(p) \in Dirs /\ Local(p) /\ Binds(Digest_(p))
        /\ (Undisturbed => Whole(Digest_(p))) /\ Digest_(p) \in Digest
        /\ mem[p].rec # None /\ job[p].op = "export"
    BY <1>0, BusyFacts DEF Calm, AtWork, Local, Looks, StepFitsJob
  <1>2. CASE Fail(p)
    BY <1>0, <1>1, <1>2, FailKeepsInv
  <1>3. CASE ~Fail(p)
    <2>1. /\ m # None /\ \A f \in named : Obj(p)[f] # None
          /\ exported' = [exported EXCEPT ![p] = x] /\ mem' = [mem EXCEPT ![p].manifest = m]
          /\ pc' = [pc EXCEPT ![p] = "copied"] /\ UNCHANGED <<index, object, job>>
      BY <1>3 DEF CopySidecars, Goto, store
    <2>2. x \in Dirs
      BY <1>1 DEF Dirs, Maybe, Files
    <2>3. [mem[p] EXCEPT !.manifest = m] \in Memory
      BY <1>1 DEF Memory, Dirs
    <2>4. /\ mem' \in [Proc -> Memory] /\ pc' \in [Proc -> Steps] /\ Touches(p) /\ pc'[p] = "copied"
          /\ exported' \in [Proc -> Maybe(Dirs)] /\ exported'[p] = x
      BY <2>1, <2>2, <2>3 DEF Touches, StoreInv, TypeOK, Steps, Maybe
    <2>5. mem'[p].manifest = m /\ mem'[p].rec = mem[p].rec
      BY <1>1, <2>1 DEF StoreInv, TypeOK, Memory
    <2>6. TypeOK'
      BY <1>1, <2>1, <2>4, <2>5 DEF StoreInv, TypeOK, Touches
    <2>7. Binds(Digest_(p))' /\ (Undisturbed => Whole(Digest_(p))')
      BY <1>1, <2>1 DEF Binds, Whole, Digest_
    <2>8. x["archive"] # None /\ (x["debug"] = None <=> m.debug = None)
      BY <2>1 DEF Files
    <2>9. Local(p)'
      BY <1>0, <1>1, <2>1, <2>2, <2>4, <2>5, <2>8 DEF Local, StepFitsJob, Remembers, Reconciles, Looks, HandedOut, Importing, Stored, Reconciled, Indexing, Obj, Digest_
    <2>10. Undisturbed => Calm(p)' /\ Busy(p)'
      BY <2>4, <2>7 DEF Calm, AtWork, HandedOutWhole, Importing, Stored, Reconciled, Indexing, Busy, Ended
    <2> QED
      BY <1>0, <2>4, <2>6, <2>7, <2>9, <2>10, Framing
  <1> QED
    BY <1>2, <1>3

\* ... then the documents: what it verified belongs to the stored manifest.
LEMMA CopyDocumentsKeepsInv == ASSUME StoreInv, NEW p \in Proc, CopyDocuments(p) PROVE StoreInv'
  <1> DEFINE x == [f \in Files |-> IF f \in {"record", "manifest", "sums"} THEN Obj(p)[f]
                                   ELSE exported[p][f]]
             o == Obj(p)
             rec == mem[p].rec
  <1>0. pc[p] = "copied" /\ Busy(p)
    BY DEF CopyDocuments, Busy, Ended
  <1>1. /\ job[p] \in Jobs /\ mem[p] \in Memory /\ o \in Dirs /\ Local(p) /\ Binds(Digest_(p))
        /\ (Undisturbed => Whole(Digest_(p))) /\ Digest_(p) \in Digest /\ job[p].op = "export"
    BY <1>0, BusyFacts DEF Calm, AtWork, Local, Looks, StepFitsJob
  <1>2. /\ rec # None /\ rec = index[Digest_(p)] /\ o["manifest"] # None /\ exported[p] \in Dirs
        /\ exported[p]["archive"] # None /\ mem[p].manifest = o["manifest"]
        /\ exported[p]["debug"] = None <=> o["manifest"].debug = None
    BY <1>0, <1>1 DEF Local, Looks, StoreInv, TypeOK, Maybe
  <1>3. CASE Fail(p)
    BY <1>0, <1>1, <1>3, FailKeepsInv
  <1>4. CASE ~Fail(p)
    <2>1. /\ exported[p]["debug"] \in {None, o["manifest"].debug}
          /\ exported[p]["sbom"] = rec.sbom /\ exported[p]["prov"] = rec.prov
          /\ exported' = [exported EXCEPT ![p] = x]
          /\ pc' = [pc EXCEPT ![p] = "done"] /\ UNCHANGED <<index, object, job, mem>>
      BY <1>1, <1>2, <1>4 DEF CopyDocuments, Goto, store, StoreInv, TypeOK, Memory, Records
    <2>2. x \in Dirs
      BY <1>1, <1>2 DEF Dirs, Files
    <2>3. /\ pc' \in [Proc -> Steps] /\ Touches(p) /\ pc'[p] = "done"
          /\ exported' \in [Proc -> Maybe(Dirs)] /\ exported'[p] = x
      BY <2>1, <2>2 DEF Touches, StoreInv, TypeOK, Steps, Ended, Maybe
    <2>4. TypeOK'
      BY <2>1, <2>3 DEF StoreInv, TypeOK, Touches
    <2>5. Binds(Digest_(p))' /\ (Undisturbed => Whole(Digest_(p))')
      BY <1>1, <2>1 DEF Binds, Whole, Digest_
    <2>6. rec.prov # None => rec.prov.source = o["manifest"].ident["source"]
      <3>1. rec.prov # None => rec.prov.source # None
        BY <1>1, <1>2, NoneAssumption DEF Memory, Records, Provs, Maybe
      <3> QED
        BY <1>1, <1>2, <3>1 DEF Binds, Attests, Carries, Field, Obj
    <2>7. /\ x["archive"] # None /\ x["debug"] = x["manifest"].debug
          /\ x["prov"] # None => x["prov"].source = x["manifest"].ident["source"]
      BY <1>2, <2>1, <2>6 DEF Files
    <2>8. Local(p)'
      BY <1>1, <2>1, <2>3, <2>7 DEF Local, StepFitsJob, Remembers, Reconciles, Looks, HandedOut, Importing, Stored, Reconciled, Indexing
    <2>9. ASSUME Undisturbed
          PROVE  /\ x["record"].sbom = x["sbom"] /\ x["record"].prov = x["prov"]
                 /\ x["sums"] = Sums(x["record"], x["debug"])
      BY <1>1, <1>2, <2>1, <2>7, <2>9 DEF Whole, Evidence, Obj, Files
    <2>10. Undisturbed => Calm(p)'
      BY <2>1, <2>3, <2>9 DEF Calm, AtWork, HandedOutWhole, Importing, Stored, Reconciled, Indexing
    <2> QED
      BY <1>0, <2>3, <2>4, <2>5, <2>8, <2>10, Framing
  <1> QED
    BY <1>3, <1>4

-----------------------------------------------------------------------------
\* A command starts when no other is at work, and finds whole objects unless
\* one was disturbed.
LEMMA StartKeepsInv ==
  ASSUME StoreInv, Overlap = FALSE, NEW p \in Proc, Start(p) PROVE StoreInv'
  <1>1. pc[p] = "idle" /\ (\A q \in Proc : ~Busy(q)) /\ mem[p] = Idle
    BY DEF Start, Busy, StoreInv, Local, Remembers
  <1>2. PICK op \in Op, d \in Dist :
          /\ job' = [job EXCEPT ![p] = [op |-> op, digest |-> d.digest,
                                        dist |-> IF op = "import" THEN d ELSE None]]
          /\ pc' = [pc EXCEPT ![p] = IF op = "import" THEN "examine" ELSE "resolve"]
    BY DEF Start, Goto
  <1>3. UNCHANGED <<index, object, mem, exported>>
    BY DEF Start, store
  <1>4. /\ job'[p] = [op |-> op, digest |-> d.digest, dist |-> IF op = "import" THEN d ELSE None]
        /\ pc'[p] = IF op = "import" THEN "examine" ELSE "resolve"
        /\ \A q \in Proc \ {p} : pc'[q] = pc[q] /\ job'[q] = job[q]
        /\ job'[p] \in Jobs /\ job'[p].digest \in Digest /\ job'[p].digest = d.digest
        /\ job'[p].op = op /\ (op = "import" => job'[p].dist = d)
    BY <1>2, DistAssumption DEF StoreInv, TypeOK, Jobs, Maybe
  <1>5. job' \in [Proc -> Maybe(Jobs)] /\ pc' \in [Proc -> Steps]
    BY <1>2, <1>4 DEF StoreInv, TypeOK, Maybe, Steps
  <1>6. TypeOK'
    BY <1>3, <1>4, <1>5 DEF StoreInv, TypeOK
  <1>7. Sequential'
    BY <1>1, <1>4 DEF Sequential, Busy
  <1>8. ASSUME NEW e \in Digest PROVE Binds(e)' /\ (Undisturbed => Whole(e)')
    BY <1>1, <1>3 DEF StoreInv, Binds, AtRest, Whole
  <1>9. ASSUME NEW q \in Proc, q # p PROVE Local(q)' /\ (Calm(q) => Calm(q)')
    <2>1. Local(q) /\ ~Busy(q) /\ pc'[q] = pc[q] /\ job'[q] = job[q]
      BY <1>1, <1>4, <1>9 DEF StoreInv
    <2> QED
      BY <1>3, <2>1 DEF Local, StepFitsJob, Remembers, Reconciles, Looks, HandedOut, Calm, AtWork, HandedOutWhole, Importing, Stored, Reconciled, Indexing, Busy, Ended
  <1>10. Local(p)'
    BY <1>1, <1>3, <1>4, OpAssumption DEF Local, StepFitsJob, Remembers, Reconciles, Looks, HandedOut, Importing, Stored, Reconciled, Indexing
  <1>11. Undisturbed => Calm(p)'
    <2>1. Undisturbed => Whole(Digest_(p))'
      BY <1>4, <1>8 DEF Digest_
    <2> QED
      BY <1>4, <2>1 DEF Calm, AtWork, HandedOutWhole, Importing, Stored, Reconciled, Indexing
  <1>12. Undisturbed' => Undisturbed
    <2>1. ASSUME Undisturbed', NEW q \in Proc PROVE FailsClean(q)
      <3>1. CASE q = p
        BY <1>1, <3>1 DEF FailsClean
      <3>2. CASE q # p
        BY <1>3, <1>4, <2>1, <3>2 DEF FailsClean, CleanSoFar, Undisturbed
      <3> QED
        BY <3>1, <3>2
    <2> QED
      BY <2>1 DEF Undisturbed, FailsClean, CleanSoFar
  <1> QED
    BY <1>6, <1>7, <1>8, <1>9, <1>10, <1>11, <1>12 DEF StoreInv, AtRest

-----------------------------------------------------------------------------
\* The stored and the incoming identity: what is stored stays, what is added is
\* bound by the incoming evidence or by the committed manifest.
LEMMA AcceptIdentityKeepsInv == ASSUME StoreInv, NEW p \in Proc, AcceptIdentity(p) PROVE StoreInv'
  <1> DEFINE d == job[p].dist
             stored == Obj(p)["record"]
             enrich == Committed(p) \/ (EnrichmentRequested(p) /\ EnrichmentIsBound(p))
             added == {f \in Field : Enriches(p, f)}
             ident == [f \in Field |-> IF Enriches(p, f) THEN d.manifest.ident[f] ELSE stored.ident[f]]
  <1>0. pc[p] = "identity" /\ Busy(p)
    BY DEF AcceptIdentity, Busy, Ended
  <1>1. /\ job[p] \in Jobs /\ mem[p] \in Memory /\ Obj(p) \in Dirs /\ Local(p) /\ Binds(Digest_(p))
        /\ (Undisturbed => Whole(Digest_(p))) /\ Digest_(p) \in Digest
    BY <1>0, BusyFacts DEF Calm, AtWork
  <1>2. /\ job[p].op = "import" /\ d \in Dist /\ job[p].digest = d.digest
        /\ mem[p].rec = stored /\ stored # None /\ mem[p].attached = {} /\ mem[p].enriched = {}
        /\ mem[p].manifest = Obj(p)["manifest"] /\ mem[p].manifest # None
    BY <1>0, <1>1 DEF Local, StepFitsJob, Remembers, Importing, Stored
  <1>3. /\ d.manifest.ident \in [Field -> Maybe(Value)]
        /\ d.prov # None => d.prov.source # None /\ d.manifest.ident["source"] = d.prov.source
    BY <1>2, DistAssumption, NoneAssumption DEF Manifests, Provs, Maybe
  <1>4. stored \in Records /\ stored.ident \in [Field -> Maybe(Value)]
    BY <1>1, <1>2 DEF Dirs, Records, Maybe
  <1>5. Carries(mem[p].manifest.ident, stored.ident)
    BY <1>1, <1>2 DEF Binds, Obj
  <1>6. /\ \A f \in Field : ~Conflict(p, f)
        /\ Committed(p) \/ Offered(d) = {} \/ ~EnrichmentRequested(p) \/ EnrichmentIsBound(p)
        /\ pc' = [pc EXCEPT ![p] = "repairDebug"] /\ UNCHANGED <<index, object, job, exported>>
        /\ pc'[p] = "repairDebug"
    BY DEF AcceptIdentity, Goto, store, StoreInv, TypeOK
  <1>7. ASSUME NEW f \in Field, stored.ident[f] # None
        PROVE  ~Enriches(p, f) /\ (Offered(d) # {} => d.manifest.ident[f] = stored.ident[f])
    BY <1>2, <1>6, <1>7 DEF Enriches, Conflict
  <1>8. /\ \A f \in {"sbom", "prov"} : d[f] # None => Offered(d) # {}
        /\ Offered(d) = {} => \A f \in Field : ~Bound(p, f)
    BY DEF Offered, Bound
  <1>9. /\ mem'[p].rec.sbom = stored.sbom /\ mem'[p].rec.prov = stored.prov
        /\ mem'[p].attached = {} /\ mem'[p].manifest = mem[p].manifest
        /\ mem'[p].rec.ident = IF enrich THEN ident ELSE stored.ident
        /\ mem'[p].enriched = IF enrich THEN added ELSE {}
        /\ mem' \in [Proc -> Memory] /\ mem'[p].rec # None
    <2>1. CASE ~enrich
      BY <1>1, <1>2, <2>1 DEF AcceptIdentity, StoreInv, TypeOK
    <2>2. CASE enrich
      <3> DEFINE rec == [stored EXCEPT !.ident = ident]
      <3>1. /\ mem' = [mem EXCEPT ![p].rec.ident = [f \in Field |->
                          IF Enriches(p, f) THEN d.manifest.ident[f] ELSE @[f]],
                                  ![p].enriched = added]
        BY <2>2 DEF AcceptIdentity
      <3>2. [mem[p] EXCEPT !.rec.ident = [f \in Field |->
                          IF Enriches(p, f) THEN d.manifest.ident[f] ELSE @[f]], !.enriched = added]
            = [mem[p] EXCEPT !.rec = rec, !.enriched = added]
        BY <1>2
      <3>3. ident \in [Field -> Maybe(Value)]
        BY <1>3, <1>4
      <3>4. rec \in Records /\ rec.ident = ident /\ rec.sbom = stored.sbom /\ rec.prov = stored.prov
        BY <1>4, <3>3 DEF Records
      <3>5. [mem[p] EXCEPT !.rec = rec, !.enriched = added] \in Memory
        BY <1>1, <3>4 DEF Memory, Maybe
      <3>6. mem'[p] = [mem[p] EXCEPT !.rec = rec, !.enriched = added] /\ mem' \in [Proc -> Memory]
        BY <3>1, <3>2, <3>5 DEF StoreInv, TypeOK
      <3>7. mem'[p].rec = rec /\ mem'[p].enriched = added /\ mem'[p].attached = mem[p].attached
            /\ mem'[p].manifest = mem[p].manifest
        BY <1>1, <3>6 DEF Memory
      <3> QED
        BY <1>2, <2>2, <3>4, <3>6, <3>7, NoneAssumption
    <2> QED
      BY <2>1, <2>2
  <1>10. Touches(p)
    BY <1>6 DEF Touches, AcceptIdentity, StoreInv, TypeOK
  <1>11. TypeOK'
    <2>1. pc' \in [Proc -> Steps]
      BY <1>6 DEF StoreInv, TypeOK, Steps
    <2>2. mem'[p].rec # None /\ mem'[p].manifest # None /\ mem' \in [Proc -> Memory]
      BY <1>2, <1>9
    <2> QED
      BY <1>6, <1>10, <2>1, <2>2 DEF StoreInv, TypeOK, Touches
  <1>12. Binds(Digest_(p))' /\ (Undisturbed => Whole(Digest_(p))')
    BY <1>1, <1>6 DEF Binds, Whole, Digest_
  <1>13. Reconciles(p)'
    <2>1. Carries(mem'[p].rec.ident, stored.ident)
      BY <1>7, <1>9 DEF Carries
    <2>2. mem'[p].enriched = {} => mem'[p].rec.ident = stored.ident
      BY <1>4, <1>9
    <2>3. d.prov # None => mem'[p].rec.ident["source"] = d.prov.source
      <3> SUFFICES ASSUME d.prov # None PROVE mem'[p].rec.ident["source"] = d.prov.source
        OBVIOUS
      <3>1. "source" \in Field /\ Offered(d) # {}
        BY <1>8 DEF Field
      <3>2. CASE stored.ident["source"] # None
        BY <1>3, <1>7, <1>9, <3>1, <3>2
      <3>3. CASE stored.ident["source"] = None
        <4>1. Enriches(p, "source")
          BY <1>2, <1>3, <3>3 DEF Enriches
        <4>2. enrich
          BY <1>6, <3>1, <4>1 DEF EnrichmentRequested
        <4> QED
          BY <1>3, <1>9, <3>1, <4>1, <4>2
      <3> QED
        BY <3>2, <3>3
    <2>4. ASSUME Offered(d) # {} \/ mem'[p].enriched # {}
          PROVE  Carries(d.manifest.ident, mem'[p].rec.ident)
      <3>1. CASE Offered(d) # {}
        BY <1>7, <1>9, <3>1 DEF Carries
      <3>2. CASE Offered(d) = {}
        <4>1. Committed(p)
          BY <1>8, <1>9, <2>4, <3>2 DEF EnrichmentIsBound
        <4> QED
          BY <1>5, <1>9, <4>1 DEF Carries, Committed
      <3> QED
        BY <3>1, <3>2
    <2> QED
      BY <1>6, <1>9, <2>1, <2>2, <2>3, <2>4 DEF Reconciles, Obj, Digest_
  <1>14. Local(p)'
    BY <1>1, <1>2, <1>6, <1>9, <1>13 DEF Local, StepFitsJob, Remembers, Looks, HandedOut,
       Importing, Stored, Reconciled, Indexing, Obj, Digest_
  <1>15. Undisturbed => Calm(p)' /\ Busy(p)'
    BY <1>6, <1>12 DEF Calm, AtWork, HandedOutWhole, Importing, Stored, Reconciled, Indexing, Busy, Ended
  <1> QED
    BY <1>0, <1>10, <1>11, <1>12, <1>14, <1>15, Framing

\* What the invariant says of an import past the identities.
LEMMA ReconciledFacts ==
  ASSUME StoreInv, NEW p \in Proc, pc[p] \in Reconciled
  PROVE  /\ Busy(p) /\ job[p] \in Jobs /\ mem[p] \in Memory /\ Obj(p) \in Dirs
         /\ Local(p) /\ Binds(Digest_(p)) /\ (Undisturbed => Calm(p)) /\ Digest_(p) \in Digest
         /\ job[p].op = "import" /\ job[p].dist \in Dist /\ job[p].digest = job[p].dist.digest
         /\ mem[p].rec \in Records /\ mem[p].rec # None /\ Obj(p)["record"] # None
         /\ mem[p].manifest \in Manifests /\ mem[p].manifest # None
         /\ Obj(p)["manifest"] = mem[p].manifest
  <1>1. Busy(p)
    BY DEF Reconciled, Busy, Ended
  <1>2. /\ job[p] \in Jobs /\ mem[p] \in Memory /\ Obj(p) \in Dirs /\ Digest_(p) \in Digest
        /\ Local(p) /\ Binds(Digest_(p)) /\ (Undisturbed => Calm(p))
    BY <1>1, BusyFacts
  <1>3. mem[p].rec \in Maybe(Records) /\ mem[p].manifest \in Maybe(Manifests)
    BY <1>2 DEF Memory
  <1> QED
    BY <1>1, <1>2, <1>3 DEF Local, StepFitsJob, Remembers, Reconciled, Stored, Importing, Maybe

\* From one of these steps to the next without a write.
LEMMA SkipEffect ==
  ASSUME StoreInv, NEW p \in Proc, pc[p] \in Reconciled, NEW step \in Stored \cup {"readIndex"},
         Skip(p, step)
  PROVE  /\ pc'[p] = step /\ UNCHANGED <<index, object, job, mem, exported>>
         /\ Touches(p) /\ TypeOK' /\ Binds(Digest_(p))' /\ (Whole(Digest_(p)) => Whole(Digest_(p))')
  <1>1. /\ pc' = [pc EXCEPT ![p] = step] /\ pc'[p] = step
        /\ UNCHANGED <<index, object, job, mem, exported>> /\ Touches(p)
    BY DEF Skip, Goto, store, Touches, StoreInv, TypeOK
  <1>2. pc' \in [Proc -> Steps]
    BY <1>1 DEF StoreInv, TypeOK, Stored, Reconciled, Steps
  <1>3. mem[p].rec # None /\ mem[p].manifest # None /\ Binds(Digest_(p))
    BY ReconciledFacts
  <1>4. TypeOK'
    BY <1>1, <1>2, <1>3 DEF StoreInv, TypeOK, Touches
  <1> QED
    BY <1>1, <1>3, <1>4 DEF Binds, Whole, Digest_

\* A write of a file other than the record and the manifest, that leaves the
\* record and the manifest in memory alone.
LEMMA SidecarEffect ==
  ASSUME StoreInv, NEW p \in Proc, pc[p] \in Stored, NEW file \in {"sbom", "prov", "debug", "sums"},
         NEW step \in Stored \cup {"readIndex"}, pc' = [pc EXCEPT ![p] = step],
         object' \in [Digest -> Dirs],
         \A g \in Files \ {file} : object'[Digest_(p)][g] = Obj(p)[g],
         \A d \in Digest \ {Digest_(p)} : object'[d] = object[d],
         mem' \in [Proc -> Memory], \A q \in Proc \ {p} : mem'[q] = mem[q],
         mem'[p].rec = mem[p].rec, mem'[p].manifest = mem[p].manifest,
         UNCHANGED <<index, job, exported>>
  PROVE  pc'[p] = step /\ Touches(p) /\ TypeOK' /\ Binds(Digest_(p))'
  <1>1. Busy(p) /\ step \in Steps
    BY DEF Stored, Reconciled, Busy, Ended, Steps
  <1>2. mem[p].rec # None /\ mem[p].manifest # None /\ Binds(Digest_(p))
    BY <1>1, BusyFacts DEF Local, Remembers
  <1>3. /\ pc' \in [Proc -> Steps] /\ pc'[p] = step
        /\ \A q \in Proc \ {p} : pc'[q] = pc[q]
    BY <1>1 DEF StoreInv, TypeOK
  <1>4. Touches(p)
    BY <1>3 DEF Touches
  <1>5. TypeOK'
    BY <1>2, <1>3 DEF StoreInv, TypeOK
  <1>6. Binds(Digest_(p))'
    BY <1>2 DEF Binds, Digest_, Obj, Files
  <1> QED
    BY <1>3, <1>4, <1>5, <1>6

-----------------------------------------------------------------------------
\* The same manifest again: its debug archive is put back ...
LEMMA RepairDebugKeepsInv == ASSUME StoreInv, NEW p \in Proc, RepairDebug(p) PROVE StoreInv'
  <1> DEFINE debug == job[p].dist.manifest.debug
  <1>0. pc[p] = "repairDebug" /\ pc[p] \in Reconciled /\ pc[p] \in Stored
    BY DEF RepairDebug, Reconciled, Stored
  <1>1. /\ Busy(p) /\ Local(p) /\ (Undisturbed => Whole(Digest_(p))) /\ Obj(p) \in Dirs
        /\ Digest_(p) \in Digest
        /\ job[p].dist \in Dist /\ Obj(p)["manifest"] = mem[p].manifest /\ Obj(p)["record"] # None
    BY <1>0, ReconciledFacts DEF Calm, AtWork
  <1>2. CASE Skip(p, "sbom")
    <2>1. /\ pc'[p] = "sbom" /\ UNCHANGED <<index, object, job, mem, exported>>
          /\ Touches(p) /\ TypeOK' /\ Binds(Digest_(p))' /\ (Undisturbed => Whole(Digest_(p))')
      BY <1>0, <1>1, <1>2, SkipEffect DEF Stored, Reconciled
    <2>2. Local(p)'
      BY <1>0, <1>1, <2>1 DEF Local, StepFitsJob, Remembers, Reconciles, Looks, HandedOut, Importing, Stored, Reconciled, Indexing, Obj, Digest_, Committed
    <2>3. Undisturbed => Calm(p)' /\ Busy(p)'
      BY <2>1 DEF Calm, AtWork, HandedOutWhole, Importing, Stored, Reconciled, Indexing, Busy, Ended
    <2> QED
      BY <1>1, <2>1, <2>2, <2>3, Framing
  <1>3. CASE Fail(p)
    BY <1>1, <1>3, FailKeepsInv
  <1>4. CASE Committed(p) /\ Write(p, "debug", debug, "repairSums", mem)
    <2>1. [Obj(p) EXCEPT !["debug"] = debug] \in Dirs
      BY <1>1, DistAssumption DEF Dirs, Manifests
    <2>2. /\ pc'[p] = "repairSums" /\ UNCHANGED <<index, job, exported, mem>>
          /\ object'[Digest_(p)]["debug"] = debug
          /\ \A g \in Files \ {"debug"} : object'[Digest_(p)][g] = Obj(p)[g]
          /\ Touches(p) /\ TypeOK' /\ Binds(Digest_(p))'
      <3>1. mem \in [Proc -> Memory] /\ "repairSums" \in Stored
        BY DEF StoreInv, TypeOK, Stored, Reconciled
      <3>2. /\ object' = [object EXCEPT ![Digest_(p)]["debug"] = debug]
            /\ pc' = [pc EXCEPT ![p] = "repairSums"] /\ UNCHANGED <<index, job, exported, mem>>
        BY <1>1, <1>4, StoredIsADirectory DEF Write, Put, Goto
      <3>3. /\ object' \in [Digest -> Dirs] /\ object'[Digest_(p)]["debug"] = debug
            /\ \A g \in Files \ {"debug"} : object'[Digest_(p)][g] = Obj(p)[g]
            /\ \A d \in Digest \ {Digest_(p)} : object'[d] = object[d]
        BY <1>1, <2>1, <3>2 DEF StoreInv, TypeOK, Obj, Dirs, Files
      <3> QED
        BY <1>0, <3>1, <3>2, <3>3, SidecarEffect
    <2>3. Local(p)'
      BY <1>0, <1>1, <1>4, <2>2 DEF Local, StepFitsJob, Remembers, Reconciles, Looks, HandedOut, Importing, Stored, Reconciled, Indexing, Obj, Digest_, Committed, Files
    <2>4. Undisturbed => Whole(Digest_(p))'
      BY <1>1, <1>4, <2>2 DEF Whole, Evidence, Committed, Files, Obj, Digest_
    <2>5. Undisturbed => Calm(p)' /\ Busy(p)'
      BY <2>2, <2>4 DEF Calm, AtWork, HandedOutWhole, Importing, Stored, Reconciled, Indexing, Busy, Ended
    <2> QED
      BY <1>1, <2>2, <2>3, <2>5, Framing
  <1> QED
    BY <1>2, <1>3, <1>4 DEF RepairDebug

\* ... and its sums, which an undisturbed object has already.
LEMMA RepairSumsKeepsInv == ASSUME StoreInv, NEW p \in Proc, RepairSums(p) PROVE StoreInv'
  <1> DEFINE sums == Sums(mem[p].rec, job[p].dist.manifest.debug)
  <1>0. pc[p] = "repairSums" /\ pc[p] \in Reconciled /\ pc[p] \in Stored
    BY DEF RepairSums, Reconciled, Stored
  <1>1. /\ Busy(p) /\ Local(p) /\ (Undisturbed => Whole(Digest_(p))) /\ Obj(p) \in Dirs
        /\ Digest_(p) \in Digest
        /\ job[p].dist \in Dist /\ Obj(p)["manifest"] = mem[p].manifest /\ Committed(p)
        /\ mem[p].rec \in Records /\ Obj(p)["record"] # None
        /\ mem[p].rec.sbom = Obj(p)["record"].sbom /\ mem[p].rec.prov = Obj(p)["record"].prov
    BY <1>0, ReconciledFacts DEF Calm, AtWork, Local, Reconciles
  <1>2. sums \in SumsFiles
    BY <1>1, DistAssumption DEF Sums, SumsFiles, Records, Manifests
  <1>3. [Obj(p) EXCEPT !["sums"] = sums] \in Dirs
    BY <1>1, <1>2 DEF Dirs, Maybe
  <1>4. /\ pc'[p] = "sbom" /\ UNCHANGED <<index, job, exported, mem>>
        /\ object'[Digest_(p)]["sums"] = sums
        /\ \A g \in Files \ {"sums"} : object'[Digest_(p)][g] = Obj(p)[g]
        /\ Touches(p) /\ TypeOK' /\ Binds(Digest_(p))'
    <2>1. mem \in [Proc -> Memory] /\ "sbom" \in Stored
      BY DEF StoreInv, TypeOK, Stored, Reconciled
    <2>2. /\ object' = [object EXCEPT ![Digest_(p)]["sums"] = sums]
          /\ pc' = [pc EXCEPT ![p] = "sbom"] /\ UNCHANGED <<index, job, exported, mem>>
      BY <1>1, StoredIsADirectory DEF RepairSums, Write, Put, Goto
    <2>3. /\ object' \in [Digest -> Dirs] /\ object'[Digest_(p)]["sums"] = sums
          /\ \A g \in Files \ {"sums"} : object'[Digest_(p)][g] = Obj(p)[g]
          /\ \A d \in Digest \ {Digest_(p)} : object'[d] = object[d]
      BY <1>1, <1>3, <2>2 DEF StoreInv, TypeOK, Obj, Dirs, Files
    <2> QED
      BY <1>0, <2>1, <2>2, <2>3, SidecarEffect
  <1>5. Local(p)'
    BY <1>0, <1>1, <1>4 DEF Local, StepFitsJob, Remembers, Reconciles, Looks, HandedOut, Importing, Stored, Reconciled, Indexing, Obj, Digest_, Committed, Files
  <1>6. Undisturbed => Whole(Digest_(p))'
    BY <1>1, <1>4 DEF Whole, Evidence, Committed, Files, Obj, Digest_, Sums
  <1>7. Undisturbed => Calm(p)' /\ Busy(p)'
    BY <1>4, <1>6 DEF Calm, AtWork, HandedOutWhole, Importing, Stored, Reconciled, Indexing, Busy, Ended
  <1> QED
    BY <1>1, <1>4, <1>5, <1>7, Framing

\* A new SBOM is put in place, the record still names the old one.
LEMMA AttachSbomKeepsInv == ASSUME StoreInv, NEW p \in Proc, AttachSbom(p) PROVE StoreInv'
  <1> DEFINE doc == job[p].dist["sbom"]
             o == Obj(p)
             attached == mem[p].attached \cup {"sbom"}
  <1>0. pc[p] = "sbom" /\ pc[p] \in Reconciled /\ pc[p] \in Stored
    BY DEF AttachSbom, Attach, Reconciled, Stored
  <1>1. /\ Busy(p) /\ Local(p) /\ (Undisturbed => Calm(p)) /\ o \in Dirs /\ mem[p] \in Memory
        /\ Digest_(p) \in Digest /\ job[p].dist \in Dist /\ o["record"] # None
        /\ o["manifest"] = mem[p].manifest /\ o["manifest"] # None
        /\ mem[p].rec.sbom = o["record"].sbom /\ mem[p].rec.prov = o["record"].prov
    BY <1>0, ReconciledFacts DEF Local, Reconciles
  <1>2. Undisturbed /\ mem[p].attached = {} => Whole(Digest_(p))
    BY <1>0, <1>1 DEF Calm, AtWork
  <1>3. CASE Skip(p, "prov") /\ (doc # None => o["sbom"] = doc)
    <2>1. /\ pc'[p] = "prov" /\ UNCHANGED <<index, object, job, mem, exported>>
          /\ Touches(p) /\ TypeOK' /\ Binds(Digest_(p))' /\ (Whole(Digest_(p)) => Whole(Digest_(p))')
      BY <1>0, <1>3, SkipEffect DEF Stored, Reconciled
    <2>2. Local(p)'
      BY <1>0, <1>1, <2>1 DEF Local, StepFitsJob, Remembers, Reconciles, Looks, HandedOut, Importing, Stored, Reconciled, Indexing, Obj, Digest_, Committed
    <2>3. Undisturbed => Calm(p)' /\ Busy(p)'
      BY <1>0, <1>1, <1>2, <1>3, <2>1 DEF Calm, AtWork, HandedOutWhole, Importing, Stored, Reconciled, Indexing, Busy, Ended, Obj, Digest_, Merged,
         Local, Reconciles, Whole, Evidence
    <2> QED
      BY <1>1, <2>1, <2>2, <2>3, Framing
  <1>4. CASE Fail(p)
    BY <1>1, <1>2, <1>4, ReconciledFacts, <1>0, FailKeepsInv DEF CleanSoFar
  <1>5. CASE doc # None /\ Write(p, "sbom", doc, "prov", [mem EXCEPT ![p].attached = @ \cup {"sbom"}])
    <2>1. [o EXCEPT !["sbom"] = doc] \in Dirs
      BY <1>1, DistAssumption DEF Dirs
    <2>2. [mem[p] EXCEPT !.attached = attached] \in Memory
      BY <1>1 DEF Memory
    <2>3. /\ object' = [object EXCEPT ![Digest_(p)]["sbom"] = doc] /\ pc' = [pc EXCEPT ![p] = "prov"]
          /\ mem' = [mem EXCEPT ![p].attached = @ \cup {"sbom"}] /\ UNCHANGED <<index, job, exported>>
      BY <1>1, <1>5, StoredIsADirectory DEF Write, Put, Goto
    <2>4. /\ object' \in [Digest -> Dirs] /\ object'[Digest_(p)]["sbom"] = doc
          /\ \A g \in Files \ {"sbom"} : object'[Digest_(p)][g] = Obj(p)[g]
          /\ \A d \in Digest \ {Digest_(p)} : object'[d] = object[d]
      BY <1>1, <2>1, <2>3 DEF StoreInv, TypeOK, Obj, Dirs, Files
    <2>5. mem' \in [Proc -> Memory] /\ \A q \in Proc \ {p} : mem'[q] = mem[q]
      BY <2>2, <2>3 DEF StoreInv, TypeOK
    <2>6. /\ mem'[p].rec = mem[p].rec /\ mem'[p].manifest = mem[p].manifest
          /\ mem'[p].enriched = mem[p].enriched /\ mem'[p].attached = attached
      BY <1>1, <2>3 DEF StoreInv, TypeOK, Memory
    <2>7. pc'[p] = "prov" /\ Touches(p) /\ TypeOK' /\ Binds(Digest_(p))'
      <3>1. "prov" \in Stored
        BY DEF Stored, Reconciled
      <3> QED
        BY <1>0, <2>3, <2>4, <2>5, <2>6, <3>1, SidecarEffect
    <2>8. "sbom" \in Offered(job[p].dist)
      BY <1>5 DEF Offered
    <2>9. Local(p)'
      BY <1>0, <1>1, <2>3, <2>4, <2>6, <2>7, <2>8 DEF Local, StepFitsJob, Remembers, Reconciles, Looks, HandedOut, Importing, Stored, Reconciled, Indexing, Obj, Digest_, Committed, Files
    <2>10. ASSUME Undisturbed PROVE Calm(p)' /\ Busy(p)'
      <3>1. o["prov"] = mem[p].rec.prov /\ (o["manifest"].debug # None => o["debug"] = o["manifest"].debug)
        BY <1>0, <1>1, <2>10 DEF Calm, AtWork, Whole, Evidence, Obj
      <3>2. /\ object'[Digest_(p)]["prov"] = mem'[p].rec.prov
            /\ object'[Digest_(p)]["debug"] = o["debug"]
        BY <2>4, <2>6, <3>1 DEF Files
      <3> QED
        BY <1>1, <1>5, <2>3, <2>4, <2>6, <2>7, <3>1, <3>2 DEF Calm, AtWork, HandedOutWhole, Indexing,
           Busy, Ended, Obj, Digest_, Merged
    <2> QED
      BY <1>1, <2>7, <2>9, <2>10, Framing
  <1> QED
    BY <1>3, <1>4, <1>5 DEF AttachSbom, Attach

\* A new provenance is put in place beside it.
LEMMA AttachProvKeepsInv == ASSUME StoreInv, NEW p \in Proc, AttachProv(p) PROVE StoreInv'
  <1> DEFINE doc == job[p].dist["prov"]
             o == Obj(p)
             attached == mem[p].attached \cup {"prov"}
  <1>0. pc[p] = "prov" /\ pc[p] \in Reconciled /\ pc[p] \in Stored
    BY DEF AttachProv, Attach, Reconciled, Stored
  <1>1. /\ Busy(p) /\ Local(p) /\ (Undisturbed => Calm(p)) /\ o \in Dirs /\ mem[p] \in Memory
        /\ Digest_(p) \in Digest /\ job[p].dist \in Dist /\ o["record"] # None
        /\ o["manifest"] = mem[p].manifest /\ o["manifest"] # None
        /\ mem[p].rec.sbom = o["record"].sbom /\ mem[p].rec.prov = o["record"].prov
    BY <1>0, ReconciledFacts DEF Local, Reconciles
  <1>2. Undisturbed /\ mem[p].attached = {} => Whole(Digest_(p))
    BY <1>0, <1>1 DEF Calm, AtWork
  <1>3. CASE Skip(p, "promise") /\ (doc # None => o["prov"] = doc)
    <2>1. /\ pc'[p] = "promise" /\ UNCHANGED <<index, object, job, mem, exported>>
          /\ Touches(p) /\ TypeOK' /\ Binds(Digest_(p))' /\ (Whole(Digest_(p)) => Whole(Digest_(p))')
      BY <1>0, <1>3, SkipEffect DEF Stored, Reconciled
    <2>2. Local(p)'
      BY <1>0, <1>1, <2>1 DEF Local, StepFitsJob, Remembers, Reconciles, Looks, HandedOut, Importing, Stored, Reconciled, Indexing, Obj, Digest_, Committed
    <2>3. Undisturbed => Calm(p)' /\ Busy(p)'
      BY <1>0, <1>1, <1>2, <1>3, <2>1 DEF Calm, AtWork, HandedOutWhole, Importing, Stored, Reconciled, Indexing, Busy, Ended, Obj, Digest_, Merged,
         Local, Reconciles, Whole, Evidence
    <2> QED
      BY <1>1, <2>1, <2>2, <2>3, Framing
  <1>4. CASE Fail(p)
    BY <1>1, <1>2, <1>4, ReconciledFacts, <1>0, FailKeepsInv DEF CleanSoFar
  <1>5. CASE doc # None /\ Write(p, "prov", doc, "promise", [mem EXCEPT ![p].attached = @ \cup {"prov"}])
    <2>1. [o EXCEPT !["prov"] = doc] \in Dirs
      BY <1>1, DistAssumption DEF Dirs
    <2>2. [mem[p] EXCEPT !.attached = attached] \in Memory
      BY <1>1 DEF Memory
    <2>3. /\ object' = [object EXCEPT ![Digest_(p)]["prov"] = doc] /\ pc' = [pc EXCEPT ![p] = "promise"]
          /\ mem' = [mem EXCEPT ![p].attached = @ \cup {"prov"}] /\ UNCHANGED <<index, job, exported>>
      BY <1>1, <1>5, StoredIsADirectory DEF Write, Put, Goto
    <2>4. /\ object' \in [Digest -> Dirs] /\ object'[Digest_(p)]["prov"] = doc
          /\ \A g \in Files \ {"prov"} : object'[Digest_(p)][g] = Obj(p)[g]
          /\ \A d \in Digest \ {Digest_(p)} : object'[d] = object[d]
      BY <1>1, <2>1, <2>3 DEF StoreInv, TypeOK, Obj, Dirs, Files
    <2>5. mem' \in [Proc -> Memory] /\ \A q \in Proc \ {p} : mem'[q] = mem[q]
      BY <2>2, <2>3 DEF StoreInv, TypeOK
    <2>6. /\ mem'[p].rec = mem[p].rec /\ mem'[p].manifest = mem[p].manifest
          /\ mem'[p].enriched = mem[p].enriched /\ mem'[p].attached = attached
      BY <1>1, <2>3 DEF StoreInv, TypeOK, Memory
    <2>7. pc'[p] = "promise" /\ Touches(p) /\ TypeOK' /\ Binds(Digest_(p))'
      <3>1. "promise" \in Stored
        BY DEF Stored, Reconciled
      <3> QED
        BY <1>0, <2>3, <2>4, <2>5, <2>6, <3>1, SidecarEffect
    <2>8. "prov" \in Offered(job[p].dist)
      BY <1>5 DEF Offered
    <2>9. Local(p)'
      BY <1>0, <1>1, <2>3, <2>4, <2>6, <2>7, <2>8 DEF Local, StepFitsJob, Remembers, Reconciles, Looks, HandedOut, Importing, Stored, Reconciled, Indexing, Obj, Digest_, Committed, Files
    <2>10. Undisturbed => Calm(p)' /\ Busy(p)'
      BY <1>0, <1>1, <1>2, <1>5, <2>3, <2>4, <2>6, <2>7 DEF Calm, AtWork, HandedOutWhole, Importing, Stored, Reconciled, Indexing, Busy, Ended, Obj, Digest_,
         Merged, Local, Reconciles, Whole, Evidence, Files
    <2> QED
      BY <1>1, <2>7, <2>9, <2>10, Framing
  <1> QED
    BY <1>3, <1>4, <1>5 DEF AttachProv, Attach

\* A new promise is kept before it is made: the debug archive goes first.
LEMMA CommitDebugKeepsInv == ASSUME StoreInv, NEW p \in Proc, CommitDebug(p) PROVE StoreInv'
  <1> DEFINE m == job[p].dist.manifest
             o == Obj(p)
             promised == "prov" \in mem[p].attached \/ mem[p].enriched # {}
  <1>0. pc[p] = "promise" /\ pc[p] \in Reconciled /\ pc[p] \in Stored
    BY DEF CommitDebug, Reconciled, Stored
  <1>1. /\ Busy(p) /\ Local(p) /\ (Undisturbed => Calm(p)) /\ o \in Dirs /\ mem[p] \in Memory
        /\ Digest_(p) \in Digest /\ job[p].dist \in Dist /\ o["record"] # None
        /\ job[p].op = "import"
    BY <1>0, ReconciledFacts
  <1>2. Undisturbed /\ mem[p].attached = {} => Whole(Digest_(p))
    BY <1>0, <1>1 DEF Calm, AtWork
  <1>3. CASE Skip(p, "record") /\ (promised => Committed(p))
    <2>1. /\ pc'[p] = "record" /\ UNCHANGED <<index, object, job, mem, exported>>
          /\ Touches(p) /\ TypeOK' /\ Binds(Digest_(p))' /\ (Whole(Digest_(p)) => Whole(Digest_(p))')
      BY <1>0, <1>3, SkipEffect DEF Stored, Reconciled
    <2>2. Local(p)'
      BY <1>0, <1>1, <1>3, <2>1 DEF Local, StepFitsJob, Remembers, Reconciles, Looks, HandedOut, Importing, Stored, Reconciled, Indexing, Obj, Digest_, Committed
    <2>3. Undisturbed => Calm(p)' /\ Busy(p)'
      BY <1>0, <1>1, <1>2, <2>1 DEF Calm, AtWork, HandedOutWhole, Indexing, Busy, Ended, Obj, Digest_, Merged, Changed
    <2> QED
      BY <1>1, <2>1, <2>2, <2>3, Framing
  <1>4. CASE Skip(p, "manifest") /\ promised /\ m.debug = None
    <2>1. /\ pc'[p] = "manifest" /\ UNCHANGED <<index, object, job, mem, exported>>
          /\ Touches(p) /\ TypeOK' /\ Binds(Digest_(p))'
      BY <1>0, <1>4, SkipEffect DEF Stored, Reconciled
    <2>2. Local(p)'
      BY <1>0, <1>1, <1>4, <2>1 DEF Local, StepFitsJob, Remembers, Reconciles, Looks, HandedOut, Importing, Stored, Reconciled, Indexing, Obj, Digest_, Committed
    <2>3. Undisturbed => Calm(p)' /\ Busy(p)'
      BY <1>0, <1>1, <1>4, <2>1 DEF Calm, AtWork, HandedOutWhole, Indexing, Busy, Ended, Obj, Digest_, Merged
    <2> QED
      BY <1>1, <2>1, <2>2, <2>3, Framing
  <1>5. CASE Fail(p)
    BY <1>1, <1>2, <1>5, FailKeepsInv DEF CleanSoFar
  <1>6. CASE promised /\ Write(p, "debug", m.debug, "manifest", mem)
    <2>1. [o EXCEPT !["debug"] = m.debug] \in Dirs
      BY <1>1, DistAssumption DEF Dirs, Manifests
    <2>2. /\ object' = [object EXCEPT ![Digest_(p)]["debug"] = m.debug]
          /\ pc' = [pc EXCEPT ![p] = "manifest"] /\ UNCHANGED <<index, job, exported, mem>>
      BY <1>1, <1>6, StoredIsADirectory DEF Write, Put, Goto
    <2>3. /\ object' \in [Digest -> Dirs] /\ object'[Digest_(p)]["debug"] = m.debug
          /\ \A g \in Files \ {"debug"} : object'[Digest_(p)][g] = Obj(p)[g]
          /\ \A d \in Digest \ {Digest_(p)} : object'[d] = object[d]
      BY <1>1, <2>1, <2>2 DEF StoreInv, TypeOK, Obj, Dirs, Files
    <2>4. pc'[p] = "manifest" /\ Touches(p) /\ TypeOK' /\ Binds(Digest_(p))'
      <3>1. "manifest" \in Stored /\ mem \in [Proc -> Memory]
        BY DEF Stored, Reconciled, StoreInv, TypeOK
      <3> QED
        BY <1>0, <2>2, <2>3, <3>1, SidecarEffect
    <2>5. Local(p)'
      BY <1>0, <1>1, <1>6, <2>2, <2>3, <2>4 DEF Local, StepFitsJob, Remembers, Reconciles, Looks, HandedOut, Importing, Stored, Reconciled, Indexing, Obj, Digest_, Committed, Files
    <2>6. Undisturbed => Calm(p)' /\ Busy(p)'
      BY <1>0, <1>1, <2>2, <2>3, <2>4 DEF Calm, AtWork, HandedOutWhole, Indexing, Busy, Ended, Obj, Digest_, Merged, Files
    <2> QED
      BY <1>1, <2>4, <2>5, <2>6, Framing
  <1> QED
    BY <1>3, <1>4, <1>5, <1>6 DEF CommitDebug

\* The new manifest carries the identity of the record it is put beside.
LEMMA CommitManifestKeepsInv == ASSUME StoreInv, NEW p \in Proc, CommitManifest(p) PROVE StoreInv'
  <1> DEFINE m == job[p].dist.manifest
             o == Obj(p)
  <1>0. pc[p] = "manifest" /\ pc[p] \in Reconciled
    BY DEF CommitManifest, Reconciled
  <1>1. /\ Busy(p) /\ Local(p) /\ (Undisturbed => Calm(p)) /\ o \in Dirs /\ mem[p] \in Memory
        /\ Digest_(p) \in Digest /\ job[p].dist \in Dist /\ o["record"] # None
        /\ mem[p].rec # None /\ Binds(Digest_(p))
    BY <1>0, ReconciledFacts
  <1>2. m \in Manifests /\ m # None
    BY <1>1, DistAssumption, NoneAssumption
  <1>3. [o EXCEPT !["manifest"] = m] \in Dirs /\ [mem[p] EXCEPT !.manifest = m] \in Memory
    BY <1>1, <1>2 DEF Dirs, Memory, Maybe
  <1>4. /\ object' = [object EXCEPT ![Digest_(p)]["manifest"] = m] /\ pc' = [pc EXCEPT ![p] = "record"]
        /\ mem' = [mem EXCEPT ![p].manifest = m] /\ UNCHANGED <<index, job, exported>>
    BY <1>1, StoredIsADirectory DEF CommitManifest, Write, Put, Goto
  <1>5. /\ object' \in [Digest -> Dirs] /\ object'[Digest_(p)]["manifest"] = m
        /\ \A g \in Files \ {"manifest"} : object'[Digest_(p)][g] = o[g]
        /\ \A d \in Digest \ {Digest_(p)} : object'[d] = object[d]
    BY <1>1, <1>3, <1>4 DEF StoreInv, TypeOK, Obj, Dirs, Files
  <1>6. /\ mem' \in [Proc -> Memory] /\ \A q \in Proc \ {p} : mem'[q] = mem[q]
        /\ pc' \in [Proc -> Steps] /\ pc'[p] = "record" /\ \A q \in Proc \ {p} : pc'[q] = pc[q]
    BY <1>3, <1>4 DEF StoreInv, TypeOK, Steps
  <1>7. /\ mem'[p].rec = mem[p].rec /\ mem'[p].manifest = m
        /\ mem'[p].enriched = mem[p].enriched /\ mem'[p].attached = mem[p].attached
    BY <1>1, <1>4 DEF StoreInv, TypeOK, Memory
  <1>8. Touches(p)
    BY <1>4, <1>5, <1>6 DEF Touches
  <1>9. TypeOK'
    BY <1>1, <1>2, <1>4, <1>5, <1>6, <1>7 DEF StoreInv, TypeOK
  <1>10. Carries(m.ident, o["record"].ident)
    <2>1. Carries(m.ident, mem[p].rec.ident)
      BY <1>0, <1>1 DEF Local, Reconciles
    <2>2. Carries(mem[p].rec.ident, o["record"].ident)
      BY <1>0, <1>1 DEF Local, Reconciles
    <2> QED
      BY <2>1, <2>2 DEF Carries
  <1>11. Binds(Digest_(p))'
    BY <1>1, <1>4, <1>5, <1>10 DEF Binds, Digest_, Obj, Files
  <1>12. Local(p)'
    BY <1>0, <1>1, <1>2, <1>4, <1>5, <1>6, <1>7 DEF Local, StepFitsJob, Remembers, Reconciles, Looks, HandedOut, Importing, Stored, Reconciled, Indexing, Obj, Digest_, Committed, Files
  <1>13. Undisturbed => Calm(p)' /\ Busy(p)'
    <2>1. Changed(p)'
      BY <1>0, <1>1, <1>7 DEF Local, Reconciles, Changed
    <2> QED
      BY <1>0, <1>1, <1>4, <1>5, <1>6, <1>7, <2>1 DEF Calm, AtWork, HandedOutWhole, Indexing, Busy, Ended, Obj, Digest_,
         Merged, Files
  <1> QED
    BY <1>1, <1>8, <1>9, <1>11, <1>12, <1>13, Framing

\* The record takes the evidence that is in place, and attests the identity.
LEMMA CommitRecordKeepsInv == ASSUME StoreInv, NEW p \in Proc, CommitRecord(p) PROVE StoreInv'
  <1> DEFINE d == job[p].dist
             o == Obj(p)
             rec == [mem[p].rec EXCEPT !.sbom = IF d.sbom # None THEN d.sbom ELSE @,
                                       !.prov = IF d.prov # None THEN d.prov ELSE @]
  <1>0. pc[p] = "record" /\ pc[p] \in Reconciled
    BY DEF CommitRecord, Reconciled
  <1>1. /\ Busy(p) /\ Local(p) /\ (Undisturbed => Calm(p)) /\ o \in Dirs /\ mem[p] \in Memory
        /\ job[p] \in Jobs /\ job[p].digest = job[p].dist.digest
        /\ Digest_(p) \in Digest /\ d \in Dist /\ o["record"] # None /\ job[p].op = "import"
        /\ mem[p].rec \in Records /\ mem[p].rec # None /\ Binds(Digest_(p))
        /\ o["manifest"] = mem[p].manifest /\ mem[p].manifest # None
    BY <1>0, ReconciledFacts
  <1>2. /\ mem[p].rec.sbom = o["record"].sbom /\ mem[p].rec.prov = o["record"].prov
        /\ Carries(mem[p].rec.ident, o["record"].ident)
        /\ mem[p].enriched = {} => mem[p].rec.ident = o["record"].ident
        /\ d.prov # None => mem[p].rec.ident["source"] = d.prov.source
    BY <1>0, <1>1 DEF Local, Reconciles
  <1>3. CASE ~Changed(p)
    <2>1. Skip(p, "readIndex")
      BY <1>3 DEF CommitRecord
    <2>2. /\ pc'[p] = "readIndex" /\ UNCHANGED <<index, object, job, mem, exported>>
          /\ Touches(p) /\ TypeOK' /\ Binds(Digest_(p))'
      BY <1>0, <2>1, SkipEffect
    <2>3. mem[p].rec = o["record"]
      <3>1. o["record"] \in Records
        BY <1>1 DEF Dirs, Maybe
      <3> QED
        BY <1>1, <1>2, <1>3, <3>1 DEF Changed, Records
    <2>4. Local(p)'
      BY <1>1, <2>2, <2>3 DEF Local, StepFitsJob, Remembers, Reconciles, Looks, HandedOut, Importing, Stored, Reconciled, Indexing, Obj, Digest_
    <2>5. Undisturbed => Calm(p)' /\ Busy(p)'
      BY <1>0, <1>1, <1>3, <2>2 DEF Calm, AtWork, HandedOutWhole, Indexing, Busy, Ended, Obj, Digest_, Whole
    <2> QED
      BY <1>1, <2>2, <2>4, <2>5, Framing
  <1>4. CASE Changed(p)
    <2>1. /\ rec \in Records /\ rec # None /\ rec.ident = mem[p].rec.ident
          /\ rec.sbom = Merged(p, "sbom") /\ rec.prov = Merged(p, "prov")
      BY <1>1, DistAssumption, NoneAssumption DEF Records, Merged
    <2>2. [o EXCEPT !["record"] = rec] \in Dirs /\ [mem[p] EXCEPT !.rec = rec] \in Memory
      BY <1>1, <2>1 DEF Dirs, Memory, Maybe
    <2>3. /\ object' = [object EXCEPT ![Digest_(p)]["record"] = rec] /\ pc' = [pc EXCEPT ![p] = "sums"]
          /\ mem' = [mem EXCEPT ![p].rec = rec] /\ UNCHANGED <<index, job, exported>>
      BY <1>1, <1>4, StoredIsADirectory DEF CommitRecord, Write, Put, Goto
    <2>4. /\ object' \in [Digest -> Dirs] /\ object'[Digest_(p)]["record"] = rec
          /\ \A g \in Files \ {"record"} : object'[Digest_(p)][g] = o[g]
          /\ \A e \in Digest \ {Digest_(p)} : object'[e] = object[e]
      BY <1>1, <2>2, <2>3 DEF StoreInv, TypeOK, Obj, Dirs, Files
    <2>5. /\ mem' \in [Proc -> Memory] /\ \A q \in Proc \ {p} : mem'[q] = mem[q]
          /\ pc' \in [Proc -> Steps] /\ pc'[p] = "sums" /\ \A q \in Proc \ {p} : pc'[q] = pc[q]
      BY <2>2, <2>3 DEF StoreInv, TypeOK, Steps
    <2>6. mem'[p].rec = rec /\ mem'[p].manifest = mem[p].manifest
      BY <1>1, <2>3 DEF StoreInv, TypeOK, Memory
    <2>7. Touches(p)
      BY <2>3, <2>4, <2>5 DEF Touches
    <2>8. TypeOK'
      BY <1>1, <2>1, <2>3, <2>4, <2>5, <2>6 DEF StoreInv, TypeOK
    <2>9. Attests(rec)
      <3>1. o["record"].prov # None => o["record"].prov.source # None
        BY <1>1, NoneAssumption DEF Dirs, Records, Provs, Maybe
      <3> QED
        BY <1>1, <1>2, <2>1, <3>1 DEF Attests, Merged, Binds, Carries, Field, Obj
    <2>10. Carries(o["manifest"].ident, rec.ident)
      <3>1. CASE "prov" \in mem[p].attached \/ mem[p].enriched # {}
        BY <1>0, <1>1, <2>1, <3>1 DEF Local, Reconciles, Committed
      <3>2. CASE mem[p].enriched = {}
        BY <1>1, <1>2, <2>1, <3>2 DEF Binds, Obj
      <3> QED
        BY <3>1, <3>2
    <2>11. Binds(Digest_(p))'
      <3>1. /\ object'[Digest_(p)]["record"] = rec /\ object'[Digest_(p)]["manifest"] = o["manifest"]
            /\ index' = index /\ job' = job
        BY <2>3, <2>4 DEF Files
      <3>2. index[Digest_(p)] # None => /\ Attests(index[Digest_(p)])
                                        /\ Carries(o["record"].ident, index[Digest_(p)].ident)
        BY <1>1 DEF Binds, Obj
      <3>3. index[Digest_(p)] # None => Carries(rec.ident, index[Digest_(p)].ident)
        BY <1>2, <2>1, <3>2 DEF Carries
      <3> HIDE DEF rec, o
      <3> QED
        BY <2>1, <2>9, <2>10, <3>1, <3>2, <3>3 DEF Binds, Digest_
    <2>12. Local(p)'
      <3>1. /\ object'[Digest_(p)]["record"] = rec /\ object'[Digest_(p)]["manifest"] = o["manifest"]
            /\ job' = job
        BY <2>3, <2>4 DEF Files
      <3> HIDE DEF rec, o
      <3> QED
        BY <1>1, <2>1, <2>5, <2>6, <3>1 DEF Local, StepFitsJob, Remembers, Reconciles, Looks, HandedOut, Importing, Stored, Reconciled, Indexing, Obj, Digest_
    <2>13. Undisturbed => Calm(p)' /\ Busy(p)'
      <3>1. Undisturbed => /\ o["sbom"] = rec.sbom /\ o["prov"] = rec.prov
                           /\ mem[p].manifest.debug # None => o["debug"] = mem[p].manifest.debug
        BY <1>0, <1>1, <2>1 DEF Calm, AtWork
      <3>2. /\ object'[Digest_(p)]["record"] = rec /\ object'[Digest_(p)]["sbom"] = o["sbom"]
            /\ object'[Digest_(p)]["prov"] = o["prov"] /\ object'[Digest_(p)]["debug"] = o["debug"]
            /\ job' = job
        BY <2>3, <2>4 DEF Files
      <3> HIDE DEF rec, o
      <3> QED
        BY <2>5, <2>6, <3>1, <3>2 DEF Calm, AtWork, HandedOutWhole, Indexing, Busy, Ended, Obj, Digest_
    <2> QED
      BY <1>1, <2>7, <2>8, <2>11, <2>12, <2>13, Framing
  <1> QED
    BY <1>3, <1>4

\* SHA256SUMS comes last and completes the object.
LEMMA WriteSumsKeepsInv == ASSUME StoreInv, NEW p \in Proc, WriteSums(p) PROVE StoreInv'
  <1> DEFINE sums == Sums(mem[p].rec, mem[p].manifest.debug)
             o == Obj(p)
  <1>0. pc[p] = "sums" /\ pc[p] \in Stored /\ Busy(p)
    BY DEF WriteSums, Stored, Busy, Ended
  <1>1. /\ Local(p) /\ (Undisturbed => Calm(p)) /\ o \in Dirs /\ mem[p] \in Memory
        /\ Digest_(p) \in Digest
    BY <1>0, BusyFacts
  <1>2. /\ o["record"] # None /\ mem[p].rec = o["record"] /\ mem[p].manifest = o["manifest"]
        /\ mem[p].manifest # None
    BY <1>0, <1>1 DEF Local, Remembers
  <1>3. sums \in SumsFiles
    BY <1>1, <1>2 DEF Sums, SumsFiles, Memory, Records, Manifests, Maybe
  <1>4. [o EXCEPT !["sums"] = sums] \in Dirs
    BY <1>1, <1>3 DEF Dirs, Maybe
  <1>5. /\ object' = [object EXCEPT ![Digest_(p)]["sums"] = sums]
        /\ pc' = [pc EXCEPT ![p] = "readIndex"] /\ UNCHANGED <<index, job, exported, mem>>
    BY <1>2, StoredIsADirectory DEF WriteSums, Write, Put, Goto
  <1>6. /\ object' \in [Digest -> Dirs] /\ object'[Digest_(p)]["sums"] = sums
        /\ \A g \in Files \ {"sums"} : object'[Digest_(p)][g] = Obj(p)[g]
        /\ \A d \in Digest \ {Digest_(p)} : object'[d] = object[d]
    BY <1>1, <1>4, <1>5 DEF StoreInv, TypeOK, Obj, Dirs, Files
  <1>7. pc'[p] = "readIndex" /\ Touches(p) /\ TypeOK' /\ Binds(Digest_(p))'
    <2>1. mem \in [Proc -> Memory]
      BY DEF StoreInv, TypeOK
    <2> QED
      BY <1>0, <1>5, <1>6, <2>1, SidecarEffect
  <1>8. Local(p)'
    BY <1>0, <1>1, <1>2, <1>5, <1>6, <1>7 DEF Local, StepFitsJob, Remembers, Reconciles, Looks, HandedOut, Importing, Stored, Reconciled, Indexing, Obj, Digest_, Files
  <1>9. Undisturbed => Evidence(Obj(p))'
    BY <1>0, <1>1, <1>2, <1>5, <1>6 DEF Calm, AtWork, Evidence, Obj, Digest_, Files
  <1>10. Undisturbed => Calm(p)' /\ Busy(p)'
    <2>1. job[p].op = "import"
      BY <1>0, <1>1 DEF Local, StepFitsJob, Importing
    <2> QED
      BY <1>5, <1>7, <1>9, <2>1 DEF Calm, AtWork, HandedOutWhole, Indexing, Busy, Ended
  <1> QED
    BY <1>0, <1>7, <1>8, <1>10, Framing

-----------------------------------------------------------------------------
\* Every step keeps the invariant.
LEMMA StepKeepsInv == ASSUME StoreInv, Overlap = FALSE, [Next]_vars PROVE StoreInv'
  <1>1. ASSUME NEW p \in Proc, ImportStep(p) PROVE StoreInv'
    BY <1>1, ExamineNewKeepsInv, ExamineStoredKeepsInv, PublishKeepsInv, RefuseIdentityKeepsInv,
       AcceptIdentityKeepsInv, RepairDebugKeepsInv, RepairSumsKeepsInv, AttachSbomKeepsInv,
       AttachProvKeepsInv, CommitDebugKeepsInv, CommitManifestKeepsInv, CommitRecordKeepsInv,
       WriteSumsKeepsInv, ReadIndexKeepsInv, UpsertIndexKeepsInv DEF ImportStep
  <1>2. ASSUME NEW p \in Proc, RemoveStep(p) \/ ExportStep(p) PROVE StoreInv'
    BY <1>2, DropFromIndexKeepsInv, RemoveFileKeepsInv, RemoveDoneKeepsInv, RemoveFailsKeepsInv,
       CopySidecarsKeepsInv, CopyDocumentsKeepsInv DEF RemoveStep, ExportStep
  <1>3. ASSUME NEW p \in Proc, Start(p) \/ Resolve(p) \/ Crash(p) PROVE StoreInv'
    BY <1>3, StartKeepsInv, ResolveKeepsInv, CrashKeepsInv
  <1>4. CASE UNCHANGED vars
    <2>1. UNCHANGED <<index, object, pc, job, mem, exported>>
      BY <1>4 DEF vars, store
    <2>2. TypeOK' /\ Sequential' /\ (Undisturbed' <=> Undisturbed)
      BY <2>1 DEF StoreInv, TypeOK, Sequential, Busy, Undisturbed
    <2>3. \A d \in Digest : Binds(d)'
      BY <2>1 DEF StoreInv, Binds
    <2>4. ASSUME NEW p \in Proc PROVE Local(p)'
      BY <2>1 DEF StoreInv, Local, StepFitsJob, Remembers, Reconciles, Looks, HandedOut, Obj, Digest_,
         Committed
    <2>5. ASSUME NEW d \in Digest PROVE AtRest(d)' <=> AtRest(d)
      BY <2>1 DEF AtRest, Whole, Busy, Digest_
    <2>6. ASSUME NEW p \in Proc PROVE Calm(p)' <=> Calm(p)
      BY <2>1 DEF Calm, AtWork, HandedOutWhole, Whole, Obj, Digest_, Merged, Changed
    <2> QED
      BY <2>2, <2>3, <2>4, <2>5, <2>6 DEF StoreInv
  <1> QED
    BY <1>1, <1>2, <1>3, <1>4 DEF Next

-----------------------------------------------------------------------------
\* The record of d keeps every field its identity has.
KeepsIdentity(d) ==
  LET old == object[d]["record"]  new == object'[d]["record"] IN
  old # None /\ new # None => Carries(new.ident, old.ident)

\* No step rewrites an identity: a publish finds no record, an import that
\* reconciled writes one that carries the stored one, a removal writes nothing.
LEMMA StepKeepsIdentities ==
  ASSUME StoreInv, [Next]_vars, NEW d \in Digest PROVE KeepsIdentity(d)
  <1> USE DEF KeepsIdentity
  <1>1. ASSUME object' = object PROVE KeepsIdentity(d)
    BY <1>1 DEF Carries
  <1>2. ASSUME object'[d]["record"] = object[d]["record"] PROVE KeepsIdentity(d)
    BY <1>2 DEF Carries
  <1>3. object \in [Digest -> Dirs]
    BY DEF StoreInv, TypeOK
  <1>4. ASSUME NEW p \in Proc, Publish(p) PROVE KeepsIdentity(d)
    <2>1. Busy(p) /\ pc[p] = "staged"
      BY <1>4 DEF Publish, Busy, Ended
    <2>2. Digest_(p) = job[p].dist.digest
      BY <2>1, BusyFacts DEF Local, StepFitsJob, Importing, Digest_
    <2>3. CASE Obj(p) = NoDir
      <3>1. object[Digest_(p)]["record"] = None
        BY <2>3 DEF Obj, NoDir, Files
      <3>2. d # Digest_(p) => object'[d] = object[d]
        BY <1>3, <1>4, <2>2, <2>3 DEF Publish
      <3> QED
        BY <1>2, <3>1, <3>2
    <2>4. CASE Obj(p) # NoDir
      BY <1>1, <1>4, <2>4 DEF Publish
    <2> QED
      BY <2>3, <2>4
  <1>5. ASSUME NEW p \in Proc, CommitRecord(p) PROVE KeepsIdentity(d)
    <2>1. CASE object' = object
      BY <1>1, <2>1
    <2>2. CASE object' # object
      <3>1. pc[p] = "record" /\ pc[p] \in Reconciled
        BY <1>5 DEF CommitRecord, Reconciled
      <3>2. /\ Local(p) /\ mem[p].rec \in Records /\ Obj(p) \in Dirs /\ Digest_(p) \in Digest
        BY <3>1, ReconciledFacts
      <3>3. Carries(mem[p].rec.ident, Obj(p)["record"].ident)
        BY <3>1, <3>2 DEF Local, Reconciles
      <3> DEFINE rec == [mem[p].rec EXCEPT !.sbom = IF job[p].dist.sbom # None THEN job[p].dist.sbom ELSE @,
                                           !.prov = IF job[p].dist.prov # None THEN job[p].dist.prov ELSE @]
      <3>4. object' = [object EXCEPT ![Digest_(p)]["record"] = rec]
        BY <1>5, <2>2 DEF CommitRecord, Write, Put, Skip, Fail, store
      <3>5. rec.ident = mem[p].rec.ident
        BY <3>2 DEF Records
      <3> HIDE DEF rec
      <3>6. object'[d]["record"] = IF d = Digest_(p) THEN rec ELSE object[d]["record"]
        BY <1>3, <3>2, <3>4 DEF Dirs, Obj
      <3> QED
        BY <1>2, <3>3, <3>5, <3>6 DEF Obj
    <2> QED
      BY <2>1, <2>2
  <1>6. ASSUME NEW p \in Proc, RemoveFile(p) PROVE KeepsIdentity(d)
    <2>1. PICK f \in Files : object' = [object EXCEPT ![Digest_(p)][f] = None]
      BY <1>6 DEF RemoveFile, Put
    <2>2. object'[d]["record"] \in {None, object[d]["record"]}
      BY <1>3, <2>1 DEF Dirs, Files
    <2> QED
      BY <1>2, <2>2
  <1>7. ASSUME NEW p \in Proc,
               \/ RepairDebug(p) \/ RepairSums(p) \/ AttachSbom(p) \/ AttachProv(p)
               \/ CommitDebug(p) \/ CommitManifest(p) \/ WriteSums(p)
        PROVE  KeepsIdentity(d)
    <2>1. \/ object' = object
          \/ \E f \in Files \ {"record"} : \E c : object' = [object EXCEPT ![Digest_(p)][f] = c]
      BY <1>7 DEF RepairDebug, RepairSums, AttachSbom, AttachProv, Attach, CommitDebug, CommitManifest,
         WriteSums, Write, Put, Skip, Fail, store, Files
    <2>2. object'[d]["record"] = object[d]["record"]
      BY <1>3, <2>1 DEF Dirs
    <2> QED
      BY <1>2, <2>2
  <1>8. ASSUME NEW p \in Proc,
               \/ Start(p) \/ Resolve(p) \/ Crash(p) \/ ExportStep(p) \/ ExamineNew(p) \/ ExamineStored(p)
               \/ RefuseIdentity(p) \/ AcceptIdentity(p) \/ ReadIndex(p) \/ UpsertIndex(p)
               \/ DropFromIndex(p) \/ RemoveDone(p) \/ RemoveFails(p)
        PROVE  KeepsIdentity(d)
    <2>1. object' = object
      BY <1>8 DEF Start, Resolve, Crash, ExportStep, CopySidecars, CopyDocuments, ExamineNew, ExamineStored,
         RefuseIdentity, AcceptIdentity, ReadIndex, UpsertIndex, DropFromIndex, RemoveDone, RemoveFails,
         Fail, store
    <2> QED
      BY <1>1, <2>1
  <1>9. CASE UNCHANGED vars
    BY <1>1, <1>9 DEF vars, store
  <1> QED
    BY <1>4, <1>5, <1>6, <1>7, <1>8, <1>9 DEF Next, ImportStep, RemoveStep

-----------------------------------------------------------------------------
\* Commands that run one after the other, and may die at any step, keep the
\* store's invariant.
THEOREM StoreInvHolds == ASSUME Overlap = FALSE PROVE Spec => []StoreInv
  <1>1. ASSUME StoreInv, [Next]_vars PROVE StoreInv'
    BY <1>1, StepKeepsInv
  <1> QED
    BY <1>1, InitHasInv, PTL DEF Spec

\* store.rs, import, remove: an index entry points at a stored record that
\* carries its identity, and a store that no command left half way lists
\* exactly the records it holds.
THEOREM IndexAgreesWithRecords == ASSUME Overlap = FALSE PROVE Spec => []IndexAgrees
  <1>1. Spec => []StoreInv
    BY StoreInvHolds
  <1> QED
    BY <1>1, InvImpliesProperties, PTL

\* store.rs, import, export: the sidecars a record names, the debug archive its
\* manifest promises and the sums are in the object directory, and what an
\* export hands out belongs together, after deaths too.
THEOREM ObjectsStayWhole == ASSUME Overlap = FALSE PROVE Spec => []ObjectsAreWhole
  <1>1. Spec => []StoreInv
    BY StoreInvHolds
  <1> QED
    BY <1>1, InvImpliesProperties, PTL

\* store.rs, ensure_compatible_identity: no import changes a field that a stored
\* record's identity has.
THEOREM IdentitiesAreStable == ASSUME Overlap = FALSE PROVE Spec => IdentityIsStable
  <1>1. Spec => []StoreInv
    BY StoreInvHolds
  <1>2. ASSUME StoreInv, [Next]_vars
        PROVE  [\A d \in Digest, f \in Field :
                  LET old == object[d]["record"]  new == object'[d]["record"] IN
                  old # None /\ new # None /\ old.ident[f] # None => new.ident[f] = old.ident[f]]_vars
    BY <1>2, StepKeepsIdentities DEF KeepsIdentity, Carries
  <1> QED
    BY <1>1, <1>2, PTL DEF Spec, IdentityIsStable
=============================================================================
