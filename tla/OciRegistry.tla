----------------------------- MODULE OciRegistry -----------------------------
(***************************************************************************)
(* A push to an OCI registry and the fetch of what it pushed (ost-artifact:*)
(* reference, transport::oci, transport::file).  Blobs and manifests are   *)
(* named by their digests, and a digest is its content.                    *)
(*   a stored artifact is [archive, name, debug, sbom, provenance,         *)
(*   manifest, selector]: contents, the archive's file name, NONE where    *)
(*   absent, debug [content, name];                                        *)
(*   a registry is [blobs, manifests, tags];                               *)
(*   a reference is text, a sequence of words and separators.              *)
(***************************************************************************)
EXTENDS Integers, Sequences, FiniteSets, SequencesExt, Common

-----------------------------------------------------------------------------
(* References: oci://<registry>/<repository>[:tag][@digest].               *)

Registries == {"host", ":"}        \* what a registry host may be spelled with
RepositoryWords == {"repo", "/"}   \* what a repository path may be spelled with
TagWords == {"repo", "host"}
DigestWords == {"sha256"}
FirstAt(s, sep) == IF \E i \in DOMAIN s : s[i] = sep THEN CHOOSE i \in DOMAIN s : s[i] = sep /\ \A j \in 1..(i - 1) : s[j] # sep ELSE 0
LastAt(s, sep) == IF \E i \in DOMAIN s : s[i] = sep THEN CHOOSE i \in DOMAIN s : s[i] = sep /\ \A j \in (i + 1)..Len(s) : s[j] # sep ELSE 0
Before(s, i) == SubSeq(s, 1, i - 1)
After(s, i) == SubSeq(s, i + 1, Len(s))
Has(s, w) == \E i \in DOMAIN s : s[i] = w
Spelled(s, words) == s # <<>> /\ Range(s) \subseteq words

(* The digest is what follows the first @, the registry what precedes the  *)
(* first /, the tag what follows the last : unless both sides have a /.    *)
ParseOci(text) ==
    LET at == FirstAt(text, "@")
        digest == IF at = 0 THEN NONE ELSE After(text, at)
        rest == IF at = 0 THEN text ELSE Before(text, at)
        slash == FirstAt(rest, "/")
        path == After(rest, slash)
        colon == LastAt(path, ":")
        tagged == colon # 0 /\ (~Has(Before(path, colon), "/") \/ ~Has(After(path, colon), "/"))
        repository == IF tagged THEN Before(path, colon) ELSE path
        tag == IF tagged THEN After(path, colon) ELSE NONE
    IN  IF /\ at # 0 => Len(digest) = 1 /\ digest[1] \in DigestWords
           /\ slash # 0 /\ Spelled(Before(rest, slash), Registries)
           /\ Spelled(repository, RepositoryWords)
           /\ tagged => Len(tag) = 1 /\ tag[1] \in TagWords
        THEN [registry |-> Before(rest, slash), repository |-> repository, tag |-> tag, digest |-> digest]
        ELSE NONE

Locator(r) ==
    r.registry \o <<"/">> \o r.repository
    \o (IF r.tag = NONE THEN <<>> ELSE <<":">> \o r.tag)
    \o (IF r.digest = NONE THEN <<>> ELSE <<"@">> \o r.digest)
IsPinned(r) == r.digest # NONE
ManifestReference(r) == IF r.digest # NONE THEN r.digest ELSE r.tag

-----------------------------------------------------------------------------
(* The OCI manifest of a stored artifact.                                  *)

ManifestFile == "manifest.json"
SbomFile == "sbom.spdx.json"
ProvenanceFile == "provenance.intoto.jsonl"
Layer(role, content, title) == [role |-> role, content |-> content, title |-> title]

BuildOciManifest(a) ==
    [layers |-> <<Layer("archive", a.archive, a.name)>>
                \o (IF a.debug = NONE THEN <<>> ELSE <<Layer("debug", a.debug.content, a.debug.name)>>)
                \o (IF a.sbom = NONE THEN <<>> ELSE <<Layer("sbom", a.sbom, SbomFile)>>)
                \o (IF a.provenance = NONE THEN <<>> ELSE <<Layer("provenance", a.provenance, ProvenanceFile)>>)
                \o <<Layer("manifest", a.manifest, ManifestFile)>>,
     selector |-> a.selector]

(* By media type, else by title.                                           *)
FindLayer(m, role, title) ==
    LET typed == SelectSeq(m.layers, LAMBDA l : l.role = role)
        titled == SelectSeq(m.layers, LAMBDA l : l.title = title) IN
    IF typed # <<>> THEN Head(typed) ELSE IF titled # <<>> THEN Head(titled) ELSE NONE

-----------------------------------------------------------------------------
(* The push: the writes it makes, in order.  An existing blob is not       *)
(* uploaded again, an existing manifest none of it; the tag moves last.    *)

EmptyRegistry == [blobs |-> {}, manifests |-> {}, tags |-> {}]
Blob(content) == [write |-> "blob", content |-> content]
Config == <<"{}">>
BlobWrites(registry, a) ==
    SelectSeq(<<Blob(Config)>> \o [i \in DOMAIN BuildOciManifest(a).layers |-> Blob(BuildOciManifest(a).layers[i].content)],
              LAMBDA w : w.content \notin registry.blobs)
ManifestWrite(a) == [write |-> "manifest", manifest |-> BuildOciManifest(a)]
TagWrites(a, tag) == IF tag = NONE THEN <<>> ELSE <<[write |-> "tag", tag |-> tag, manifest |-> BuildOciManifest(a)]>>

(* Mutant: the tag is moved before what it names is there.                 *)
PushTagFirst(registry, a, tag) ==
    TagWrites(a, tag)
    \o (IF BuildOciManifest(a) \in registry.manifests THEN <<>>
        ELSE BlobWrites(registry, a) \o <<ManifestWrite(a)>>)

PushWrites(registry, a, tag) ==
    (IF BuildOciManifest(a) \in registry.manifests THEN <<>>
     ELSE BlobWrites(registry, a) \o <<ManifestWrite(a)>>)
    \o TagWrites(a, tag)

(* The registry after one write; a manifest put under a tag is stored too. *)
AfterWrite(registry, w) ==
    CASE w.write = "blob" -> [registry EXCEPT !.blobs = @ \cup {w.content}]
      [] w.write = "manifest" -> [registry EXCEPT !.manifests = @ \cup {w.manifest}]
      [] OTHER -> [registry EXCEPT !.manifests = @ \cup {w.manifest},
                                   !.tags = {t \in @ : t.tag # w.tag} \cup {[tag |-> w.tag, manifest |-> w.manifest]}]
AfterWrites(registry, writes, n) ==
    LET state[i \in 0..n] == IF i = 0 THEN registry ELSE AfterWrite(state[i - 1], writes[i]) IN state[n]

-----------------------------------------------------------------------------
(* The fetch into an empty directory: file name to content.                *)

Put(dir, name, content) == [n \in DOMAIN dir \cup {name} |-> IF n = name THEN content ELSE dir[n]]
FetchLayer(registry, dir, layer, name) ==
    IF dir = NONE \/ layer = NONE \/ (layer # NONE /\ layer.content \notin registry.blobs) THEN NONE
    ELSE Put(dir, name, layer.content)
FetchOptional(registry, dir, m, role, title) ==
    IF FindLayer(m, role, title) = NONE THEN dir ELSE FetchLayer(registry, dir, FindLayer(m, role, title), title)

(* fetch_files with payloads, NONE when it fails: the producer manifest    *)
(* names the archive and the debug archive, whose layer must be the one it *)
(* claims.                                                                 *)
FetchFiles(registry, m, a) ==
    LET producer == FetchLayer(registry, <<>>, FindLayer(m, "manifest", ManifestFile), ManifestFile)
        archive  == FetchLayer(registry, producer, FindLayer(m, "archive", a.name), a.name)
        layer    == IF a.debug = NONE THEN NONE ELSE FindLayer(m, "debug", a.debug.name)
        debug    == IF a.debug = NONE THEN archive
                    ELSE IF layer = NONE THEN NONE
                    ELSE IF layer.content # a.debug.content THEN NONE
                    ELSE FetchLayer(registry, archive, layer, a.debug.name)
        sbom     == FetchOptional(registry, debug, m, "sbom", SbomFile)
    IN  FetchOptional(registry, sbom, m, "provenance", ProvenanceFile)

(* The directory the artifact was packaged in, and the file transport's    *)
(* copy of it.                                                             *)
Dist(a) ==
    LET base == Put(Put(<<>>, ManifestFile, a.manifest), a.name, a.archive)
        debug == IF a.debug = NONE THEN base ELSE Put(base, a.debug.name, a.debug.content)
        sbom == IF a.sbom = NONE THEN debug ELSE Put(debug, SbomFile, a.sbom) IN
    IF a.provenance = NONE THEN sbom ELSE Put(sbom, ProvenanceFile, a.provenance)
SnapshotFile(dir, dist, name, required) ==
    IF dir = NONE THEN NONE
    ELSE IF name \in DOMAIN dist THEN Put(dir, name, dist[name]) ELSE IF required THEN NONE ELSE dir
FetchFromFiles(dist, a) ==
    LET archive == SnapshotFile(Put(<<>>, ManifestFile, dist[ManifestFile]), dist, a.name, TRUE)
        debug == IF a.debug = NONE THEN archive ELSE SnapshotFile(archive, dist, a.debug.name, TRUE) IN
    SnapshotFile(SnapshotFile(debug, dist, SbomFile, FALSE), dist, ProvenanceFile, FALSE)

-----------------------------------------------------------------------------
(* Authentication.  A session holds the token its last exchange gave, a    *)
(* static token, or nothing; the credentials decide what an exchange gives.*)
(* The registry answers a request that lacks a scope with 401, or with     *)
(* 403 once it has seen some token.                                        *)

Scope(write) == IF write THEN {"pull", "push"} ELSE {"pull"}
Answer(site, token, write) ==
    CASE token # NONE /\ (IF write THEN "push" ELSE "pull") \in token -> 200
      [] token # NONE /\ site.strict -> 403
      [] OTHER -> 401
(* exchange_token: the challenge's own scope, where it names one, wins.    *)
Exchange(site, write) ==
    IF ~site.bearer THEN NONE
    ELSE (IF site.challenge # NONE THEN site.challenge ELSE Scope(write)) \cap site.grants

(* One request: with the session's token, and once more with a new one     *)
(* after a 401.  The session afterwards, and whether it was served.        *)
AuthorizedRequest(site, token, write) ==
    IF Answer(site, token, write) = 200 THEN [ok |-> TRUE, token |-> token]
    ELSE IF Answer(site, token, write) = 401 /\ Exchange(site, write) # NONE
    THEN [ok |-> Answer(site, Exchange(site, write), write) = 200, token |-> Exchange(site, write)]
    ELSE [ok |-> FALSE, token |-> token]

(* `ost artifact retain`: read the manifest, put it under a retention tag  *)
(* with a session of its own, read it back with the first one.             *)
Retain(site, fixed) ==
    LET read == AuthorizedRequest(site, fixed, FALSE)
        written == AuthorizedRequest(site, fixed, TRUE)
        again == AuthorizedRequest(site, read.token, FALSE) IN
    read.ok /\ written.ok /\ again.ok

MaxRedirects == 5

(* The origins a chain of Location headers visits; a relative one stays.   *)
Absolutize(current, location) == IF location = "relative" THEN current ELSE location
Origins(origin, locations) ==
    LET visited[i \in 0..Len(locations)] ==
            IF i = 0 THEN origin ELSE Absolutize(visited[i - 1], locations[i])
    IN  [i \in DOMAIN locations |-> visited[i]]

(* redirect_auth_allowed: which of the hops get the session's credentials, *)
(* those before the chain first left the registry.                         *)
RedirectAuth(origin, locations) ==
    [i \in DOMAIN locations |-> \A j \in 1..i : Origins(origin, locations)[j] = origin]
FollowRedirects(origin, locations) ==
    IF Len(locations) > MaxRedirects THEN NONE ELSE RedirectAuth(origin, locations)

-----------------------------------------------------------------------------
(* What the decisions promise, for one input each.                         *)

(* The files of the artifact's directory have one name each.               *)
Coherent(a) ==
    LET names == <<ManifestFile, a.name>> \o (IF a.debug = NONE THEN <<>> ELSE <<a.debug.name>>)
                 \o (IF a.sbom = NONE THEN <<>> ELSE <<SbomFile>>)
                 \o (IF a.provenance = NONE THEN <<>> ELSE <<ProvenanceFile>>) IN
    IsInjective(names)

NothingDangles(registry) ==
    /\ \A m \in registry.manifests : \A i \in DOMAIN m.layers : m.layers[i].content \in registry.blobs
    /\ \A t \in registry.tags : t.manifest \in registry.manifests
=============================================================================
