--------------------------- MODULE RegistryCache ---------------------------
(***************************************************************************)
(* The provider catalogue of the wizard: src/provider_registry.rs and the   *)
(* part of DemoWizardArgs::run that asks for it.  A catalogue is a number,  *)
(* which is also its digest; commands come one after the other, and any of  *)
(* their writes may fail, or be the last thing a process does.              *)
(***************************************************************************)
EXTENDS Integers, Sequences, FiniteSets

CONSTANTS RegistryRefs,   \* the references to a remote registry there may be
          slug,           \* slug[r]: the file name a reference is cached under
          Serves,         \* Serves[r]: the catalogues a registry may come to serve
          LocalCatalog,   \* what a local file holds
          WizardArgs,     \* the command lines
          MaxCommands, MaxCuts

Absent == 0
Cut == -1                 \* a file that was truncated, and perhaps written in part
LocalRef == "local"       \* a reference that is a path, or file://
Catalogs == UNION {Serves[r] : r \in RegistryRefs}

ASSUME CacheAssumption == Catalogs \subseteq Nat \ {Absent} /\ MaxCuts \in Nat

VARIABLES cache,     \* cache[d]: .greentic/cache/provider-registry of the bundle, and of the working directory
          registry,  \* registry[r]: what the registry serves now
          args,      \* the command line of the command that runs
          look, pass, \* where it is; the first look (for the questions) or the second (for the plan)
          located,   \* the file it was given by resolve_catalog_path
          writes,    \* the cache files it has still to write, or had when a write failed
          served,    \* what the registry answered in this look
          catalog,   \* the catalogue it read last
          kept,      \* the references a command has planned with in the bundle as it is
          commands, cuts

cacheVars == <<cache, registry, args, look, pass, located, writes, served, catalog, kept, commands, cuts>>

EmptyCache ==
    [made |-> FALSE, byRef |-> [s \in {slug[r] : r \in RegistryRefs \union {LocalRef}} |-> Absent],
     byDigest |-> [n \in Catalogs |-> Absent], index |-> [r \in RegistryRefs |-> Absent], indexCut |-> FALSE]

CacheInit(start) ==
    /\ cache = [d \in {"here", "bundle"} |-> EmptyCache]
    /\ registry \in [RegistryRefs -> Catalogs] /\ \A r \in RegistryRefs : registry[r] \in Serves[r]
    /\ args = start /\ look = "idle" /\ pass = 1 /\ located = <<>> /\ writes = <<>>
    /\ served = Absent /\ catalog = Absent /\ kept = {} /\ commands = 0 /\ cuts = 0

-----------------------------------------------------------------------------
(* Paths: the file the user named, the cached copy of a reference, that of a digest. *)
GivenPath == <<"given">>
cache_path_for_ref(r) == <<"ref", slug[r]>>
cache_path_for_digest(n) == <<"digest", n>>

(* What is in the file; a path the user names may lead nowhere. *)
Content(c, p) ==
    CASE p[1] = "given" -> IF args.there THEN LocalCatalog ELSE Absent
      [] p[1] = "ref" -> c.byRef[p[2]]
      [] p[1] = "digest" -> c.byDigest[p[2]]

WithContent(c, p, n) ==
    [c EXCEPT !.made = TRUE, !.byRef = IF p[1] = "ref" THEN [@ EXCEPT ![p[2]] = n] ELSE @,
              !.byDigest = IF p[1] = "digest" THEN [@ EXCEPT ![p[2]] = n] ELSE @]

WithIndex(c, r, n) == [c EXCEPT !.made = TRUE, !.index[r] = n, !.indexCut = (n = Cut)]

(* The working directory stands in for the bundle until the answers name one. *)
Dir == IF pass = 1 /\ ~args.named THEN "here" ELSE "bundle"
Here == cache[Dir]

(* The first of the paths at which there is a file. *)
NoPath == <<>>
Existing(c, ps) ==
    LET there == {i \in DOMAIN ps : Content(c, ps[i]) # Absent}
    IN IF there = {} THEN NoPath ELSE ps[CHOOSE i \in there : \A j \in there : i <= j]

resolve_cached_by_digest(c, r) == IF c.index[r] = Absent THEN <<>> ELSE <<cache_path_for_digest(c.index[r])>>

(* The copy of the reference is preferred to that of the digest the index has for it. *)
Fallback(c, r) == Existing(c, <<cache_path_for_ref(r)>> \o resolve_cached_by_digest(c, r))

resolve_existing_cache_for_digest(c, r, n) == Existing(c, <<cache_path_for_digest(n), cache_path_for_ref(r)>>)

(* Mutant: the index is written before the files it names. *)
Bug_CacheWrites == <<"index", "digest", "ref">>

(* cache_remote_registry_file writes in this order. *)
CacheWrites == <<"digest", "ref", "index">>

-----------------------------------------------------------------------------
StartWizard(a) ==
    /\ look = "idle" /\ commands < MaxCommands
    /\ args' = a /\ look' = "resolve" /\ pass' = 1 /\ commands' = commands + 1
    /\ located' = <<>> /\ writes' = <<>> /\ served' = Absent /\ catalog' = Absent
    /\ UNCHANGED <<cache, registry, kept, cuts>>

Found(p) == located' = p /\ look' = "load" /\ served' = Absent /\ writes' = <<>>
NotFound == located' = located /\ look' = "failed" /\ served' = Absent /\ writes' = <<>>

(* A file, or a local reference; only the reference is looked for here. *)
ResolveGiven ==
    /\ look = "resolve" /\ (args.given \/ args.ref = LocalRef)
    /\ IF args.given \/ args.there THEN Found(GivenPath) ELSE NotFound
    /\ UNCHANGED <<cache, registry, args, pass, catalog, kept, commands, cuts>>

Remote == look = "resolve" /\ ~args.given /\ args.ref \in RegistryRefs
WantsFetch == ~args.offline /\ (args.refresh \/ Fallback(Here, args.ref) = NoPath)

(* An index that cannot be parsed fails every look, a refresh too. *)
ResolveBadIndex ==
    /\ Remote /\ Here.indexCut /\ NotFound
    /\ UNCHANGED <<cache, registry, args, pass, catalog, kept, commands, cuts>>

(* The cached copy, for want of a registry or because no refresh was asked for. *)
ResolveCached ==
    /\ Remote /\ ~Here.indexCut
    /\ LET known == Fallback(Here, args.ref) IN IF known # NoPath THEN Found(known) ELSE NotFound
    /\ UNCHANGED <<cache, registry, args, pass, catalog, kept, commands, cuts>>

(* fetch_remote_registry_to_cache: the digest the index has is not written again. *)
Fetch ==
    /\ Remote /\ ~Here.indexCut /\ WantsFetch
    /\ LET n == registry[args.ref]
           same == IF Here.index[args.ref] = n THEN resolve_existing_cache_for_digest(Here, args.ref, n) ELSE NoPath
       IN  /\ served' = n
           /\ located' = IF same # NoPath THEN same ELSE cache_path_for_ref(args.ref)
           /\ IF same # NoPath THEN look' = "load" /\ writes' = <<>> ELSE look' = "write" /\ writes' = CacheWrites
    /\ UNCHANGED <<cache, registry, args, pass, catalog, kept, commands, cuts>>

WithFile(c, f, n) ==
    CASE f = "digest" -> WithContent(c, cache_path_for_digest(served), n)
      [] f = "ref" -> WithContent(c, cache_path_for_ref(args.ref), n)
      [] f = "index" -> WithIndex(c, args.ref, n)

(* cache_remote_registry_file; the index is read and written back in one step, for commands do not overlap. *)
cache_remote_registry_file ==
    /\ look = "write"
    /\ cache' = [cache EXCEPT ![Dir] = WithFile(@, Head(writes), served)]
    /\ writes' = Tail(writes)
    /\ look' = IF Len(writes) = 1 THEN "load" ELSE look
    /\ UNCHANGED <<registry, args, pass, located, served, catalog, kept, commands, cuts>>

(* What a write that does not come to its end leaves: no change, the directory
   that was made for the file, or the file truncated. *)
Remains(c, f) == {c, [c EXCEPT !.made = TRUE], WithFile(c, f, Cut)}

(* The process ends while it writes. *)
CutShort ==
    /\ look = "write" /\ cuts < MaxCuts
    /\ \E c \in Remains(Here, Head(writes)) : cache' = [cache EXCEPT ![Dir] = c]
    /\ look' = "idle" /\ cuts' = cuts + 1
    /\ UNCHANGED <<registry, args, pass, located, writes, served, catalog, kept, commands>>

(***************************************************************************)
(* A write fails.  A refresh goes on with a cached copy: that of the        *)
(* reference if there is one by now, which may be the one just written, or  *)
(* that of the digest the index had for it before.  Without a refresh       *)
(* nothing was cached, and the command fails.                               *)
(***************************************************************************)
CacheFails ==
    /\ look = "write" /\ cuts < MaxCuts
    /\ \E c \in Remains(Here, Head(writes)) :
         LET known == Existing(c, <<cache_path_for_ref(args.ref)>> \o resolve_cached_by_digest(Here, args.ref))
         IN  /\ cache' = [cache EXCEPT ![Dir] = c]
             /\ IF args.refresh /\ known # NoPath THEN look' = "load" /\ located' = known
                ELSE look' = "failed" /\ located' = located
    /\ cuts' = cuts + 1
    /\ UNCHANGED <<registry, args, pass, writes, served, catalog, kept, commands>>

(* load_catalog_from_file: what was cut short is no JSON; as YAML it may be an empty list. *)
load_catalog_from_file ==
    /\ look = "load"
    /\ LET n == Content(Here, located) IN
       \/ /\ n # Absent /\ catalog' = n
          /\ IF pass = 1 THEN pass' = 2 /\ look' = "resolve" ELSE pass' = pass /\ look' = "keep"
       \/ n \in {Absent, Cut} /\ look' = "failed" /\ UNCHANGED <<pass, catalog>>
    /\ UNCHANGED <<cache, registry, args, located, writes, served, kept, commands, cuts>>

(* cache_registry_file: fs::copy truncates the target before it reads, so a file
   that is copied onto itself is empty. *)
cache_registry_file(c, source) ==
    WithContent(c, cache_path_for_ref(args.ref),
                IF source = cache_path_for_ref(args.ref) THEN Cut ELSE Content(c, source))

Source == IF args.ref = LocalRef THEN GivenPath ELSE located

(* There is a bundle by now, and the file that was read is still there. *)
Keeps == (args.mode # "create" \/ Here.made) /\ Content(Here, Source) # Absent

(* What was read is copied to where the reference is cached. *)
KeepCatalog ==
    /\ look = "keep" /\ look' = "planned"
    /\ IF Keeps
       THEN cache' = [cache EXCEPT !["bundle"] = cache_registry_file(@, Source)] /\ kept' = kept \union {args.ref}
       ELSE UNCHANGED <<cache, kept>>
    /\ UNCHANGED <<registry, args, pass, located, writes, served, catalog, commands, cuts>>

(* The copy fails, which is ignored, or the process ends in it. *)
KeepFails ==
    /\ look = "keep" /\ Keeps /\ cuts < MaxCuts
    /\ \E c \in Remains(cache["bundle"], "ref") : cache' = [cache EXCEPT !["bundle"] = c]
    /\ look' \in {"planned", "idle"} /\ cuts' = cuts + 1
    /\ UNCHANGED <<registry, args, pass, located, writes, served, catalog, kept, commands>>

(* The plan is printed, refused or carried out; a create removes what is there first. *)
LeaveAlone ==
    /\ look \in {"planned", "failed"} /\ look' = "idle"
    /\ UNCHANGED <<cache, registry, args, pass, located, writes, served, catalog, kept, commands, cuts>>

Overwrite ==
    /\ look = "planned" /\ args.mode = "create" /\ look' = "idle"
    /\ cache' = [cache EXCEPT !["bundle"] = [EmptyCache EXCEPT !.made = TRUE]] /\ kept' = {}
    /\ UNCHANGED <<registry, args, pass, located, writes, served, catalog, commands, cuts>>

(* The registry publishes another catalogue, or an earlier one again. *)
Publish(r, n) ==
    /\ registry' = [registry EXCEPT ![r] = n]
    /\ UNCHANGED <<cache, args, look, pass, located, writes, served, catalog, kept, commands, cuts>>

CacheNext ==
    \/ \E a \in WizardArgs : StartWizard(a)
    \/ ResolveGiven \/ ResolveBadIndex \/ ResolveCached \/ Fetch
    \/ cache_remote_registry_file \/ CutShort \/ CacheFails \/ load_catalog_from_file
    \/ KeepCatalog \/ KeepFails \/ LeaveAlone \/ Overwrite
    \/ \E r \in RegistryRefs : \E n \in Serves[r] : Publish(r, n)

CacheSpec == CacheInit(args) /\ [][CacheNext]_cacheVars

-----------------------------------------------------------------------------
(* A catalogue that is served under two references, which share the file of its digest. *)
Shared(n) == \E q, r \in RegistryRefs : q # r /\ n \in Serves[q] \intersect Serves[r]

(***************************************************************************)
(* A command that reached the registry plans with the catalogue the         *)
(* registry answered, however often a write of the cache was cut short      *)
(* before: the index names a digest only when the digest's file is whole.   *)
(* This holds if both copies were written, even if the index could not be;  *)
(* a refresh that fails to write a copy goes on with what was cached.  Only *)
(* a file that two references share may be cut short for the one while the  *)
(* index names it for the other.                                            *)
(***************************************************************************)
RefreshedIsCurrent ==
    look \in {"keep", "planned"} /\ served # Absent /\ Len(writes) <= 1 /\ (cuts = 0 \/ ~Shared(served))
    => catalog = served

(* An offline command in a bundle where a command has planned with the same
   reference is served a catalogue, if no write was ever cut short. *)
CachedCatalogServes ==
    args.offline /\ args.named /\ ~args.given /\ args.ref \in kept \ {LocalRef} /\ cuts = 0
    => look # "failed" /\ (look = "planned" => catalog > 0)

=============================================================================
