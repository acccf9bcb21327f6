------------------------------- MODULE LspDeps -------------------------------
(***************************************************************************)
(* The dependency map zeen-lsp keeps for a project: what "zora deps-map"   *)
(* answered, beside the modification times of Zora.toml and Zora.lock.     *)
(* A save of a manifest is a number; it is the content and the time.       *)
(***************************************************************************)
EXTENDS Naturals

CONSTANT MaxManifest   \* bound: the last save of the manifests

ASSUME LspDepsAssumption == MaxManifest \in Nat

Manifests == 0 .. MaxManifest
NotCached == [packages |-> MaxManifest + 1, mtime |-> MaxManifest + 1]

VARIABLES manifest,   \* the save on disk
          deps,       \* the CachedDeps of the project, or NotCached
          raced       \* history: packages_for_cache was under way at the last save

depsVars == <<manifest, deps, raced>>

DepsTypeOK ==
  /\ manifest \in Manifests
  /\ deps \in [packages : Manifests, mtime : Manifests] \cup {NotCached}
  /\ raced \in BOOLEAN

DepsInit == manifest = 0 /\ deps = NotCached /\ raced = FALSE

\* Another program writes Zora.toml or Zora.lock.
Save(running) ==
  /\ manifest < MaxManifest
  /\ manifest' = manifest + 1
  /\ raced' = running
  /\ UNCHANGED deps

\* packages_for_cache, both times unchanged: the cached packages are returned.
CacheHit == deps # NotCached /\ deps.mtime = manifest

\* packages_for_cache after run_deps_map: the times are read, the entry inserted.
Store(packages) ==
  /\ deps' = [packages |-> packages, mtime |-> manifest]
  /\ UNCHANGED <<manifest, raced>>

\* did_change_watched_files: deps.remove(&root).
Forget == deps' = NotCached /\ UNCHANGED <<manifest, raced>>

\* Packages an entry hands out on a hit are those of the manifests on disk,
\* unless a dependency map was being computed when they were last saved: the
\* times are read after zora ran.
HitsAreFresh == CacheHit /\ ~raced => deps.packages = manifest
=============================================================================
