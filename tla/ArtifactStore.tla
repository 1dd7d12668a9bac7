---------------------------- MODULE ArtifactStore ----------------------------
(***************************************************************************)
(* The local artifact store (ost-artifact/src/store.rs): object           *)
(* directories keyed by archive digest, the registry index beside them,   *)
(* and the commands that import into, remove from and export out of it.   *)
(* No lock guards any of it: every process reads and writes the files one *)
(* by one, and may die between two of them.                               *)
(***************************************************************************)
EXTENDS Naturals, FiniteSets

CONSTANTS Proc,      \* invocations of ost
          Digest,    \* archive digests
          Value,     \* the identities, builds and debug archives in documents
          Dist,      \* producer outputs that verify: see DistAssumption
          Op,        \* the commands in use
          Overlap,   \* commands run concurrently, or one after the other
          Crashes,   \* a process may die at any step
          None       \* an absent file, sidecar or identity

\* The identity a producer manifest may carry, field by field.
Field == {"source", "deps", "usd"}

\* The documents: the producer manifest, the SBOM (which binds the dependency
\* identities), the provenance (which binds the source), the record of the
\* store and SHA256SUMS.
Maybe(S) == S \cup {None}
Manifests == [build : Value, ident : [Field -> Maybe(Value)], debug : Maybe(Value)]
Sboms == [build : Value, deps : Maybe(Value)]
Provs == [build : Value, source : Value]
Records == [ident : [Field -> Maybe(Value)], sbom : Maybe(Sboms), prov : Maybe(Provs)]
SumsFiles == [debug : Maybe(Value), sbom : Maybe(Sboms), prov : Maybe(Provs)]

\* A dist directory: an archive, its manifest and its sidecars; import refuses
\* one whose sidecars do not bind to the manifest.
ASSUME DistAssumption ==
  /\ Dist \subseteq [digest : Digest, manifest : Manifests,
                      sbom : Maybe(Sboms), prov : Maybe(Provs)]
  /\ \A d \in Dist :
       /\ d.sbom # None => d.sbom.deps = d.manifest.ident["deps"]
       /\ d.prov # None => d.prov.source = d.manifest.ident["source"]
ASSUME NoneAssumption ==
  /\ None \notin Digest /\ None \notin Value
  /\ None \notin Manifests /\ None \notin Sboms /\ None \notin Provs
  /\ None \notin Records /\ None \notin SumsFiles
ASSUME OpAssumption == Op \subseteq {"import", "remove", "export"}
ASSUME SwitchAssumption == Overlap \in BOOLEAN /\ Crashes \in BOOLEAN

VARIABLES index,    \* index.json: digest -> its record, or None
          object,   \* digest -> the files of its object directory
          pc,       \* process -> the next step of its command
          job,      \* process -> its command
          mem,      \* process -> what it has read and decided
          exported  \* process -> the files its export handed out

store == <<index, object>>
vars == <<store, pc, job, mem, exported>>

Files == {"archive", "record", "manifest", "sbom", "prov", "debug", "sums"}
NoDir == [f \in Files |-> None]
Dirs == [archive : Maybe(Digest), record : Maybe(Records), manifest : Maybe(Manifests),
         sbom : Maybe(Sboms), prov : Maybe(Provs), debug : Maybe(Value), sums : Maybe(SumsFiles)]

\* A command, and what it remembers: the record and the manifest it works on,
\* the identity fields it adds, the sidecars it attached (which an import
\* reports), the index it read.
Jobs == [op : Op, digest : Digest, dist : Maybe(Dist)]
Memory == [rec : Maybe(Records), manifest : Maybe(Manifests), enriched : SUBSET Field,
           attached : SUBSET {"sbom", "prov"}, index : Maybe([Digest -> Maybe(Records)])]
Idle == [rec |-> None, manifest |-> None, enriched |-> {}, attached |-> {}, index |-> None]
Ended == {"done", "failed", "dead"}
Steps == {"idle", "examine", "staged", "identity", "repairDebug", "repairSums", "sbom", "prov",
          "promise", "manifest", "record", "sums", "readIndex", "writeIndex", "resolve",
          "removing", "copying", "copied"} \cup Ended

TypeOK ==
  /\ index \in [Digest -> Maybe(Records)]
  /\ object \in [Digest -> Dirs]
  /\ pc \in [Proc -> Steps]
  /\ job \in [Proc -> Maybe(Jobs)]
  /\ mem \in [Proc -> Memory]
  /\ exported \in [Proc -> Maybe(Dirs)]
  /\ \A p \in Proc : pc[p] \in {"repairSums", "sbom", "prov", "promise", "manifest", "record",
                                 "sums", "copied"}
                       => mem[p].rec # None /\ mem[p].manifest # None

Init ==
  /\ index = [d \in Digest |-> None]
  /\ object = [d \in Digest |-> NoDir]
  /\ pc = [p \in Proc |-> "idle"]
  /\ job = [p \in Proc |-> None]
  /\ mem = [p \in Proc |-> Idle]
  /\ exported = [p \in Proc |-> None]

-----------------------------------------------------------------------------
\* Helpers

Goto(p, step) == pc' = [pc EXCEPT ![p] = step]
Digest_(p) == job[p].digest
Obj(p) == object[Digest_(p)]
Put(p, file, content) == object' = [object EXCEPT ![Digest_(p)][file] = content]
Fail(p) == Goto(p, "failed") /\ UNCHANGED <<store, job, mem, exported>>
Skip(p, step) == Goto(p, step) /\ UNCHANGED <<store, job, mem, exported>>

\* A copy or write_atomic into the object directory: the file is replaced whole,
\* and no directory is created for it. A directory with no file in it is one
\* that is gone.
Write(p, file, content, step, memory) ==
  IF Obj(p) = NoDir THEN Fail(p)
  ELSE Put(p, file, content) /\ mem' = memory /\ Goto(p, step) /\ UNCHANGED <<index, job, exported>>

\* The record an import would write for a dist.
RecordOf(d) == [ident |-> d.manifest.ident, sbom |-> d.sbom, prov |-> d.prov]

\* checksum_contents: what SHA256SUMS lists beside the archive.
Sums(rec, debug) == [debug |-> debug, sbom |-> rec.sbom, prov |-> rec.prov]

\* The sidecars of a dist: file name and content.
Offered(d) == {f \in {"sbom", "prov"} : d[f] # None}

\* The incoming manifest is the one that was read from the object directory.
Committed(p) == mem[p].manifest = job[p].dist.manifest

-----------------------------------------------------------------------------
\* import

Start(p) ==
  /\ pc[p] = "idle"
  /\ Overlap \/ \A q \in Proc : pc[q] \in {"idle"} \cup Ended
  /\ \E op \in Op, d \in Dist :
       /\ job' = [job EXCEPT ![p] = [op |-> op, digest |-> d.digest,
                                     dist |-> IF op = "import" THEN d ELSE None]]
       /\ Goto(p, IF op = "import" THEN "examine" ELSE "resolve")
  /\ UNCHANGED <<store, mem, exported>>

\* The archive hashes to the manifest's digest; a record in the object
\* directory means these bytes are stored already.
ExamineNew(p) ==
  /\ pc[p] = "examine" /\ Obj(p)["record"] = None
  /\ mem' = [mem EXCEPT ![p].rec = RecordOf(job[p].dist),
                        ![p].attached = Offered(job[p].dist)]
  /\ Goto(p, "staged")
  /\ UNCHANGED <<store, job, exported>>

ExamineStored(p) ==
  /\ pc[p] = "examine" /\ Obj(p)["record"] # None
  /\ IF Obj(p)["manifest"] = None THEN Fail(p)
     ELSE /\ mem' = [mem EXCEPT ![p].rec = Obj(p)["record"], ![p].manifest = Obj(p)["manifest"]]
          /\ Goto(p, "identity")
          /\ UNCHANGED <<store, job, exported>>

\* The staged directory is renamed into place; losing the race to a directory
\* that carries a record is success, to one that does not is an error.
Publish(p) ==
  LET d == job[p].dist IN
  /\ pc[p] = "staged"
  /\ IF Obj(p) = NoDir
     THEN /\ object' = [object EXCEPT ![d.digest] =
               [archive |-> d.digest, record |-> RecordOf(d), manifest |-> d.manifest,
                sbom |-> d.sbom, prov |-> d.prov, debug |-> d.manifest.debug,
                sums |-> Sums(RecordOf(d), d.manifest.debug)]]
          /\ Goto(p, "readIndex")
     ELSE /\ Goto(p, IF Obj(p)["record"] # None THEN "readIndex" ELSE "failed")
          /\ UNCHANGED object
  /\ UNCHANGED <<index, job, mem, exported>>

\* ARTIFACT_IDENTITY_CONFLICT: a field that differs, or that the incoming
\* manifest lacks while it brings evidence.
Conflict(p, f) ==
  LET stored == mem[p].rec.ident[f]  incoming == job[p].dist.manifest.ident[f] IN
  stored # None /\ IF incoming = None THEN Offered(job[p].dist) # {} ELSE stored # incoming

Enriches(p, f) == mem[p].rec.ident[f] = None /\ job[p].dist.manifest.ident[f] # None

\* Provenance binds a source, an SBOM binds dependencies, nothing binds the rest.
Bound(p, f) == \/ f = "source" /\ job[p].dist.prov # None
               \/ f = "deps" /\ job[p].dist.sbom # None

EnrichmentIsBound(p) == \A f \in Field : Enriches(p, f) => Bound(p, f)
EnrichmentRequested(p) == \E f \in Field : Enriches(p, f)

RefuseIdentity(p) ==
  /\ pc[p] = "identity"
  /\ \/ \E f \in Field : Conflict(p, f)
     \/ /\ ~Committed(p) /\ Offered(job[p].dist) # {}
        /\ EnrichmentRequested(p) /\ ~EnrichmentIsBound(p)
  /\ Fail(p)

\* Mutant: an incoming identity replaces the stored one.
AcceptAnyIdentity(p) ==
  /\ pc[p] = "identity"
  /\ mem' = [mem EXCEPT ![p].rec.ident = job[p].dist.manifest.ident, ![p].enriched = Field]
  /\ Goto(p, "repairDebug")
  /\ UNCHANGED <<store, job, exported>>

\* The stored record is enriched in memory where the incoming evidence or the
\* committed manifest allows it.
AcceptIdentity(p) ==
  LET enrich == Committed(p) \/ (EnrichmentRequested(p) /\ EnrichmentIsBound(p)) IN
  /\ pc[p] = "identity"
  /\ \A f \in Field : ~Conflict(p, f)
  /\ \/ Committed(p) \/ Offered(job[p].dist) = {}
     \/ ~EnrichmentRequested(p) \/ EnrichmentIsBound(p)
  /\ mem' = IF enrich
            THEN [mem EXCEPT ![p].rec.ident = [f \in Field |->
                                IF Enriches(p, f) THEN job[p].dist.manifest.ident[f] ELSE @[f]],
                             ![p].enriched = {f \in Field : Enriches(p, f)}]
            ELSE mem
  /\ Goto(p, "repairDebug")
  /\ UNCHANGED <<store, job, exported>>

\* materialize_debug_archive: copy it when no file of that name is there, then
\* verify what is there against the manifest's claim.
DebugIsOther(p) == job[p].dist.manifest.debug # None
                   /\ Obj(p)["debug"] \notin {None, job[p].dist.manifest.debug}

\* The same manifest again: its debug archive and SHA256SUMS are repaired.
RepairDebug(p) ==
  LET debug == job[p].dist.manifest.debug IN
  /\ pc[p] = "repairDebug"
  /\ IF ~Committed(p) \/ debug = None THEN Skip(p, "sbom")
     ELSE IF DebugIsOther(p) THEN Fail(p)
     ELSE Write(p, "debug", debug, "repairSums", mem)

RepairSums(p) ==
  /\ pc[p] = "repairSums"
  /\ Write(p, "sums", Sums(mem[p].rec, job[p].dist.manifest.debug), "sbom", mem)

\* One sidecar: already bound (and then verified), or renamed into place.
Attach(p, f, next) ==
  /\ pc[p] = f
  /\ LET doc == job[p].dist[f] IN
     CASE doc = None -> Skip(p, next)
       [] doc # None /\ mem[p].rec[f] = doc /\ Obj(p)[f] # None ->
            IF Obj(p)[f] = doc THEN Skip(p, next) ELSE Fail(p)
       [] OTHER -> Write(p, f, doc, next, [mem EXCEPT ![p].attached = @ \cup {f}])

AttachSbom(p) == Attach(p, "sbom", "prov")
AttachProv(p) == Attach(p, "prov", "promise")

\* New provenance or a new identity brings its manifest, and that manifest its
\* debug archive, which is written first.
CommitDebug(p) ==
  LET m == job[p].dist.manifest IN
  /\ pc[p] = "promise"
  /\ IF ("prov" \notin mem[p].attached /\ mem[p].enriched = {}) \/ Committed(p) THEN Skip(p, "record")
     ELSE IF m.debug = None THEN Skip(p, "manifest")
     ELSE IF DebugIsOther(p) THEN Fail(p)
     ELSE Write(p, "debug", m.debug, "manifest", mem)

\* Mutant: the provenance is attached without the manifest it binds to.
CommitManifestNot(p) == pc[p] = "manifest" /\ Skip(p, "record")

CommitManifest(p) ==
  LET m == job[p].dist.manifest IN
  /\ pc[p] = "manifest"
  /\ Write(p, "manifest", m, "record", [mem EXCEPT ![p].manifest = m])

Changed(p) == mem[p].attached # {} \/ mem[p].enriched # {}

\* The record takes the incoming sidecars' digests and is rewritten.
CommitRecord(p) ==
  LET d == job[p].dist
      rec == [mem[p].rec EXCEPT !.sbom = IF d.sbom # None THEN d.sbom ELSE @,
                                !.prov = IF d.prov # None THEN d.prov ELSE @] IN
  /\ pc[p] = "record"
  /\ IF Changed(p) THEN Write(p, "record", rec, "sums", [mem EXCEPT ![p].rec = rec])
     ELSE Skip(p, "readIndex")

\* SHA256SUMS describes the manifest that was committed.
WriteSums(p) ==
  /\ pc[p] = "sums"
  /\ Write(p, "sums", Sums(mem[p].rec, mem[p].manifest.debug), "readIndex", mem)

-----------------------------------------------------------------------------
\* The index: read, changed in memory, written back whole

ReadIndex(p) ==
  /\ pc[p] = "readIndex"
  /\ mem' = [mem EXCEPT ![p].index = index]
  /\ Goto(p, "writeIndex")
  /\ UNCHANGED <<store, job, exported>>

\* index_upsert, and the import is over.
UpsertIndex(p) ==
  /\ pc[p] = "writeIndex" /\ job[p].op = "import"
  /\ index' = [mem[p].index EXCEPT ![Digest_(p)] = mem[p].rec]
  /\ Goto(p, "done")
  /\ UNCHANGED <<object, job, mem, exported>>

-----------------------------------------------------------------------------
\* remove and export

\* resolve: a digest is looked up in the index, nowhere else.
Resolve(p) ==
  /\ pc[p] = "resolve"
  /\ IF index[Digest_(p)] = None THEN Fail(p)
     ELSE /\ mem' = [mem EXCEPT ![p].rec = index[Digest_(p)]]
          /\ Goto(p, IF job[p].op = "remove" THEN "readIndex" ELSE "copying")
          /\ UNCHANGED <<store, job, exported>>

\* Mutant: the directory goes first, the index entry stays until it is gone.
DropFromIndexLate(p) ==
  /\ pc[p] = "writeIndex" /\ job[p].op = "remove"
  /\ Goto(p, "removing")
  /\ UNCHANGED <<store, job, mem, exported>>

\* The entry goes first ...
DropFromIndex(p) ==
  /\ pc[p] = "writeIndex" /\ job[p].op = "remove"
  /\ index' = [mem[p].index EXCEPT ![Digest_(p)] = None]
  /\ Goto(p, "removing")
  /\ UNCHANGED <<object, job, mem, exported>>

\* ... then remove_dir_all, file by file in the file system's order.
RemoveFile(p) ==
  /\ pc[p] = "removing"
  /\ \E f \in {g \in Files : Obj(p)[g] # None} : Put(p, f, None)
  /\ UNCHANGED <<index, pc, job, mem, exported>>

RemoveDone(p) ==
  /\ pc[p] = "removing" /\ Obj(p) = NoDir
  /\ Goto(p, "done")
  /\ UNCHANGED <<store, job, mem, exported>>

\* An entry cannot be deleted, or one was created since the directory was read.
RemoveFails(p) ==
  /\ pc[p] = "removing" /\ (Crashes \/ Overlap)
  /\ Fail(p)

\* export reads the manifest for its debug archive, copies archive, debug
\* archive and the sidecars the record names ...
CopySidecars(p) ==
  LET m == Obj(p)["manifest"]
      named == {"archive"} \cup {f \in {"sbom", "prov"} : mem[p].rec[f] # None}
               \cup IF m # None /\ m.debug # None THEN {"debug"} ELSE {} IN
  /\ pc[p] = "copying"
  /\ IF m = None \/ \E f \in named : Obj(p)[f] = None THEN Fail(p)
     ELSE /\ exported' = [exported EXCEPT ![p] = [f \in Files |-> IF f \in named THEN Obj(p)[f]
                                                                ELSE None]]
          /\ mem' = [mem EXCEPT ![p].manifest = m]
          /\ Goto(p, "copied")
          /\ UNCHANGED <<store, job>>

\* ... then manifest, SHA256SUMS and record, and verifies what it copied.
CopyDocuments(p) ==
  /\ pc[p] = "copied"
  /\ IF \/ \E f \in {"record", "manifest", "sums"} : Obj(p)[f] = None
        \/ exported[p]["debug"] \notin {None, mem[p].manifest.debug}
        \/ \E f \in {"sbom", "prov"} : exported[p][f] # mem[p].rec[f]
     THEN Fail(p)
     ELSE /\ exported' = [exported EXCEPT ![p] =
               [f \in Files |-> IF f \in {"record", "manifest", "sums"} THEN Obj(p)[f] ELSE @[f]]]
          /\ Goto(p, "done")
          /\ UNCHANGED <<store, job, mem>>

Crash(p) ==
  /\ Crashes /\ pc[p] \notin {"idle"} \cup Ended
  /\ Goto(p, "dead")
  /\ UNCHANGED <<store, job, mem, exported>>

ImportStep(p) == \/ ExamineNew(p) \/ ExamineStored(p) \/ Publish(p)
                 \/ RefuseIdentity(p) \/ AcceptIdentity(p) \/ RepairDebug(p)
                 \/ RepairSums(p) \/ AttachSbom(p) \/ AttachProv(p)
                 \/ CommitDebug(p) \/ CommitManifest(p)
                 \/ CommitRecord(p) \/ WriteSums(p) \/ ReadIndex(p) \/ UpsertIndex(p)
RemoveStep(p) == DropFromIndex(p) \/ RemoveFile(p) \/ RemoveDone(p) \/ RemoveFails(p)
ExportStep(p) == CopySidecars(p) \/ CopyDocuments(p)

Next == \E p \in Proc : \/ Start(p) \/ ImportStep(p) \/ Resolve(p)
                        \/ RemoveStep(p) \/ ExportStep(p) \/ Crash(p)

Spec == Init /\ [][Next]_vars

-----------------------------------------------------------------------------
\* Properties

Quiet == \A p \in Proc : pc[p] \in {"idle"} \cup Ended

\* remove: the order of its two steps never leaves "an index entry pointing at
\* bytes that no longer exist".
IndexPointsAtRecord == \A d \in Digest : index[d] # None => object[d]["record"] # None

\* An identity field that is set stays set to that value for as long as the
\* record exists: "the same archive digest cannot carry two producer
\* identities" (import).
IdentityIsStable ==
  [][\A d \in Digest, f \in Field :
       LET old == object[d]["record"]  new == object'[d]["record"] IN
       old # None /\ new # None /\ old.ident[f] # None => new.ident[f] = old.ident[f]]_vars

\* What an export hands out belongs together even after a crashed import: the
\* archive is there, the provenance binds the manifest's source, and the debug
\* archive is the one the manifest promises.
ExportBinds ==
  \A p \in Proc : pc[p] = "done" /\ job[p].op = "export" =>
    LET x == exported[p] IN
    /\ x["archive"] # None
    /\ x["prov"] # None => x["prov"].source = x["manifest"].ident["source"]
    /\ x["debug"] = x["manifest"].debug

\* No command died or failed after its first write.
Undisturbed ==
  \A p \in Proc :
    /\ pc[p] # "dead"
    /\ pc[p] = "failed" /\ job[p].op = "import" => mem[p].attached = {}
    /\ pc[p] = "failed" /\ job[p].op = "remove" => mem[p].rec = None

\* Without crashes an export is also complete: its record names the sidecars it
\* carries, and its SHA256SUMS lists exactly the files that are there.
ExportIsWhole ==
  Undisturbed => \A p \in Proc : pc[p] = "done" /\ job[p].op = "export" =>
    LET x == exported[p] IN
    /\ x["record"].sbom = x["sbom"] /\ x["record"].prov = x["prov"]
    /\ x["sums"] = Sums(x["record"], x["debug"])

\* Between commands that ran undisturbed, the index repeats the records.
IndexIsTheRecords == Quiet /\ Undisturbed => \A d \in Digest : index[d] = object[d]["record"]

\* Between such commands the evidence a record names is the evidence that is
\* stored and binds to the stored manifest, which has its debug archive.
EvidenceIsStored ==
  Quiet /\ Undisturbed => \A d \in Digest : LET o == object[d] IN o["record"] # None =>
    /\ o["sbom"] = o["record"].sbom /\ o["prov"] = o["record"].prov
    /\ o["prov"] # None => o["prov"].source = o["manifest"].ident["source"]
    /\ o["manifest"].debug # None => o["debug"] = o["manifest"].debug
    /\ o["sums"] = Sums(o["record"], o["manifest"].debug)

-----------------------------------------------------------------------------
(* The index and the records agree: no import or removal, wherever it      *)
(* dies, leaves an entry without its record, and between commands that ran *)
(* undisturbed the index repeats the records.                              *)
IndexAgrees ==
    /\ TypeOK
    /\ IndexPointsAtRecord
    /\ IndexIsTheRecords

(* An object stays whole although imports enrich it file by file: what an  *)
(* export hands out belongs together, and undisturbed it is complete, as   *)
(* is the evidence that is stored.                                         *)
ObjectsAreWhole ==
    /\ ExportBinds
    /\ EvidenceIsStored
    /\ ExportIsWhole
=============================================================================
