------------------------------- MODULE OpenUsd -------------------------------
(* The pure decisions of an OpenUSD build: which version satisfies which      *)
(* constraint, when a compatibility identity is verified, which build plan a  *)
(* platform cell gives, and what a host's graphics probes say.  A version is  *)
(* a sequence of numbers; NONE stands for a value that was not recorded.      *)
EXTENDS Integers, Sequences, FiniteSets, Common

Oses == {"linux", "macos", "windows"}
Builders == {"script", "cmake"}
Variants == {"core", "gl", "vulkan", "metal", "standard", "headless"}
GraphicsCapabilities == {"opengl", "vulkan", "metal"}

(***************************************************************************)
(* Versions and constraints.                                               *)
(***************************************************************************)
At(v, i) == IF i <= Len(v) THEN v[i] ELSE 0
Longer(a, b) == IF Len(a) >= Len(b) THEN Len(a) ELSE Len(b)

(* Missing parts count as zero; the first difference decides.              *)
Less(a, b) ==
    \E i \in 1..Longer(a, b) :
        At(a, i) < At(b, i) /\ \A j \in 1..(i - 1) : At(a, j) = At(b, j)

(* A constraint is an operator with a base, or (op = "") a pattern whose   *)
(* parts are matched one by one, up to a wildcard tail.                    *)
Satisfies(v, c) ==
    /\ v # NONE
    /\ CASE c.op = ">=" -> ~Less(v, c.base)
         [] c.op = "<=" -> ~Less(c.base, v)
         [] c.op = ">"  -> Less(c.base, v)
         [] c.op = "<"  -> Less(v, c.base)
         [] c.op = "="  -> ~Less(v, c.base) /\ ~Less(c.base, v)
         [] OTHER -> \A i \in 1..Len(c.base) : i <= Len(v) /\ v[i] = c.base[i]

(* A bare glibc or runtime version of a cell is a floor.                   *)
RuntimeFloor(c) == IF c.op = "" THEN [c EXCEPT !.op = ">="] ELSE c

(* The catalog may say more than the header of an install does.            *)
SameRelease(detected, catalog) ==
    /\ Len(catalog) >= Len(detected)
    /\ \A i \in 1..Len(detected) : detected[i] = catalog[i]

(***************************************************************************)
(* The compatibility identity of a runtime, checked by two functions that  *)
(* must agree: is_verified() and verification_failure().                   *)
(***************************************************************************)
ProviderIsVerified(p) ==
    p.family /\ p.provider /\ p.constraint # NONE /\ Satisfies(p.version, p.constraint)

ProviderFailure(label, p) ==
    IF ~p.family THEN {label \o ": no family"}
    ELSE IF ~p.provider THEN {label \o ": no provider"}
    ELSE IF p.constraint = NONE THEN {label \o ": no constraint"}
    ELSE IF p.version = NONE THEN {label \o ": no observed version"}
    ELSE IF ~Satisfies(p.version, p.constraint) THEN {label \o ": contradictory"}
    ELSE {}

(* `standard` always meant GL; `headless` is core only without imaging.    *)
Canonical(variant, capabilities) ==
    CASE variant = "standard" -> "gl"
      [] variant = "headless" -> IF capabilities \cap (GraphicsCapabilities \cup {"imaging"}) = {}
                                 THEN "core" ELSE NONE
      [] OTHER -> variant

ProvidersAreVerified(c) ==
    /\ c.platform /\ c.cxx
    /\ ProviderIsVerified(c.toolchain) /\ ProviderIsVerified(c.runtime)
    /\ ProviderIsVerified(c.python) /\ ProviderIsVerified(c.tbb)

FirstOf(a, b) == IF a # {} THEN a ELSE b

ProvidersFailure(c) ==
    IF ~c.platform THEN {"no platform"}
    ELSE IF ~c.cxx THEN {"no C++ standard"}
    ELSE FirstOf(ProviderFailure("toolchain", c.toolchain),
         FirstOf(ProviderFailure("toolchain runtime", c.runtime),
         FirstOf(ProviderFailure("python", c.python), ProviderFailure("tbb", c.tbb))))

IsVerified(c) ==
    /\ c.usdProfile /\ c.producer # NONE /\ c.consumer
    /\ Canonical(c.variant, c.capabilities) # NONE
    /\ ProvidersAreVerified(c)
    /\ CASE c.os = "macos" /\ c.sdk # NONE -> ProviderIsVerified(c.sdk) /\ c.deployment
         [] OTHER -> (c.os = "macos") = (c.sdk # NONE)

VerificationFailure(c) ==
    IF ~c.usdProfile THEN {"not the usd profile"}
    ELSE IF c.producer = NONE THEN {"no producer version"}
    ELSE IF ~c.consumer THEN {"no consumer constraint"}
    ELSE IF Canonical(c.variant, c.capabilities) = NONE THEN {"not canonical"}
    ELSE IF ProvidersFailure(c) # {} THEN ProvidersFailure(c)
    ELSE IF c.os = "macos" /\ c.sdk # NONE
         THEN FirstOf(ProviderFailure("macos sdk", c.sdk),
                      IF c.deployment THEN {} ELSE {"no deployment target"})
    ELSE IF c.os = "macos" THEN {"no macos block"}
    ELSE IF c.sdk = NONE THEN {} ELSE {"a macos block elsewhere"}

(***************************************************************************)
(* The build plan of a cell.                                               *)
(***************************************************************************)
Supported(variant, os) ==
    IF os = "macos" THEN variant \notin {"vulkan", "gl"} ELSE variant # "metal"

(* What a plan pins: build_usd.py toggles and CMake cache entries.         *)
BuildPlan(f) ==
    LET variant == Canonical(f.variant, f.capabilities) IN
    IF f.source # "canonical" \/ variant = NONE \/ ~Supported(variant, f.os)
    THEN NONE
    ELSE [imaging  |-> variant # "core",
          vulkan   |-> variant = "vulkan",
          metal    |-> f.os = "macos" /\ variant = "metal",
          toggles  |-> IF f.builder = "script" THEN {"imaging", "examples", "build-args"} ELSE {}]

(* A cell is declared per os and architecture, a variant per cell.         *)
ResolveOpenUsd(f) == f.cell /\ f.declared

Refused == [status |-> "refused"]
Legacy(f) == [status |-> "legacy", builder |-> f.builder, imaging |-> TRUE]

(* resolve_openusd_build: an implicit variant may fall back to the legacy  *)
(* unclassified build, an explicit one is a claim and fails; a user's      *)
(* argument may not override what the plan or the toolchain pins say.      *)
ResolveBuild(f) ==
    LET unclassified == IF f.explicit THEN Refused ELSE Legacy(f) IN
    CASE ~ResolveOpenUsd(f)          -> unclassified
      [] ~f.builderOk                -> Refused
      [] f.source = "unknown"        -> unclassified
      [] BuildPlan(f) = NONE         -> unclassified
      [] f.builder = "script" /\ f.overrides \cap BuildPlan(f).toggles # {} -> Refused
      [] "pin" \in f.overrides       -> Refused
      [] OTHER -> [status |-> "planned", builder |-> f.builder, imaging |-> BuildPlan(f).imaging]

BuildFacts ==
    [explicit : BOOLEAN, os : Oses, variant : {"core", "gl", "vulkan", "metal"},
     capabilities : {{}}, cell : BOOLEAN, declared : BOOLEAN, builder : Builders,
     builderOk : BOOLEAN, source : {"unknown", "canonical", "other"},
     overrides : SUBSET {"imaging", "pin"}]

(* require_profile_viewer: a profile with usdview cannot use a build that  *)
(* turns imaging, usdview or Python off; --usd-imaging replaces --imaging. *)
RequireProfileViewer(s, viewer, disabled) ==
    IF viewer /\ (disabled \/ ~s.imaging) THEN Refused
    ELSE [status |-> s.status, builder |-> s.builder, imaging |-> s.imaging,
          usdview |-> viewer]

(* The first candidate on PATH that answers the constraint.                *)
FindProvider(candidates, c) == \E v \in candidates : Satisfies(v, c)

(* gcc and g++ must report one version.                                    *)
FindGcc(pairs, c) == \E p \in pairs : p[1] = p[2] /\ Satisfies(p[1], c)

(* VCToolsVersion 14.m is compiler 19.m; the parent's value counts too.    *)
FindMsvc(tools, c) == tools # NONE /\ Len(tools) >= 2 /\ Satisfies(<<19, tools[2]>>, c)

FindAppleClang(version, c) == version # NONE /\ Satisfies(version, c)

(* Only a oneTBB series with a declared exact source can be managed.       *)
ManagedOneTbb(c) == c.op = "" /\ c.base \in {<<2021>>, <<2022>>, <<2023>>}

(* prepare_openusd_build runs before anything is deleted or built.         *)
Prepare(s, g) ==
    LET toolchain ==
            CASE g.os = "linux" /\ g.family = "gcc"         -> FindGcc(g.pairs, g.compiler)
              [] g.os = "windows" /\ g.family = "msvc"      -> FindMsvc(g.tools, g.compiler)
              [] g.os = "macos" /\ g.family = "apple-clang" -> FindAppleClang(g.clang, g.compiler)
              [] OTHER -> FALSE
    IN  IF s.status # "planned" THEN s
        ELSE IF /\ FindProvider(g.pythons, g.python) /\ toolchain
                /\ s.builder = "script" => ManagedOneTbb(g.tbb) /\ ~g.noOneTbb
             THEN s ELSE Refused

(* The floor the produced tree is measured against, by host.               *)
RuntimeBoundary(h) ==
    CASE h.os = "linux" /\ h.family = "glibc" ->
            Satisfies(h.measured, RuntimeFloor(h.floor))
      [] h.os = "windows" /\ h.family = "msvc-runtime" ->
            h.compiler[1] = 19 /\ Satisfies(<<14, h.compiler[2]>>, RuntimeFloor(h.floor))
      [] h.os = "macos" /\ h.family = "libcxx" ->
            /\ h.sdk # NONE /\ Satisfies(h.sdk, h.sdkConstraint)
            /\ h.measured = h.deployment
            /\ Satisfies(h.compiler, RuntimeFloor(h.floor))
      [] OTHER -> FALSE

(* finalize_openusd_build: what is observed in the finished tree must be   *)
(* what was planned before it.                                             *)
Finalize(planned, produced, tbb, tbbConstraint, h) ==
    /\ Satisfies(tbb, tbbConstraint)
    /\ produced # NONE /\ produced = planned
    /\ RuntimeBoundary(h)

(***************************************************************************)
(* Graphics probes.  A probe is [api, passed, skipped].                    *)
(***************************************************************************)
VerifierApis(variant, capabilities) ==
    CASE Canonical(variant, capabilities) = "gl"     -> {"opengl"}
      [] Canonical(variant, capabilities) = "vulkan" -> {"opengl", "vulkan"}
      [] Canonical(variant, capabilities) = "metal"  -> {"metal"}
      [] OTHER -> {}

LoaderStatus(probes) ==
    IF probes = {} THEN NONE ELSE IF \A p \in probes : p.passed THEN "passed" ELSE "failed"

DeviceStatus(probes) ==
    IF probes = {} \/ \E p \in probes : p.skipped THEN NONE
    ELSE IF \A p \in probes : p.passed THEN "passed" ELSE "failed"

(* OpenGL without a display, or a software renderer, is skipped; Vulkan    *)
(* and Metal either enumerate a device or fail.                            *)
ProbeDevice(api, h) ==
    LET skipped == api = "opengl" /\ (~h.display \/ h.software) IN
    [api |-> api, skipped |-> skipped, passed |-> ~skipped /\ api \in h.devices]

ProbeLoader(api, h) == [api |-> api, passed |-> api \in h.loaders]

RenderApi(variant) == IF variant \in {"vulkan", "metal"} THEN variant ELSE "opengl"

(* usdrecord is a native tool, a script under the runtime's own Python, or *)
(* a shim under the directory of one; without an interpreter it is skipped.*)
ToolLaunch(h) == h.usdrecord = "native" \/ (h.usdrecord # NONE /\ h.interpreter)

(* The render probe's answer: a missing prerequisite is no answer, a       *)
(* timeout or an empty frame is a failure, and a tool that cannot be       *)
(* launched fails the report while leaving the recorded status alone.      *)
RenderOutcome(h) ==
    CASE ~ToolLaunch(h)          -> [status |-> NONE, ok |-> TRUE]
      [] h.render = "unlaunched" -> [status |-> NONE, ok |-> FALSE]
      [] h.render = "no qt"      -> [status |-> NONE, ok |-> TRUE]
      [] h.render = "frame"      -> [status |-> "passed", ok |-> TRUE]
      [] OTHER                   -> [status |-> "failed", ok |-> FALSE]

(* The whole graphics part of a validation report for one host.            *)
Observe(variant, h) ==
    LET apis    == VerifierApis(variant, {})
        loaders == {ProbeLoader(a, h) : a \in apis}
        loader  == IF h.musl THEN NONE ELSE LoaderStatus(loaders)
        probes  == IF loader = "passed" THEN {ProbeDevice(a, h) : a \in apis} ELSE {}
        ready   == \E p \in probes : p.api = RenderApi(variant) /\ p.passed /\ ~p.skipped
        render  == IF ready THEN RenderOutcome(h) ELSE [status |-> NONE, ok |-> TRUE]
    IN  [loader |-> loader, device |-> DeviceStatus(probes), render |-> render.status,
         ok |-> /\ loader # "failed"
                /\ \A p \in probes : p.passed \/ p.skipped
                /\ render.ok]

GraphicsHosts ==
    [musl : BOOLEAN, display : BOOLEAN, software : BOOLEAN, devices : SUBSET {"opengl", "vulkan"},
     loaders : SUBSET {"opengl", "vulkan"}, usdrecord : {NONE, "native", "script"},
     interpreter : BOOLEAN, render : {"unlaunched", "no qt", "frame", "failed"}]
=============================================================================
