--------------------------- MODULE CatalogRefresh ---------------------------
(***************************************************************************)
(* The catalog cache of one tool: Refresher.Refresh by several operations. *)
(* Each loads the cache, perhaps asks upstream in two rounds (documents,   *)
(* then checksums) and saves what it built.  Meanwhile time passes and     *)
(* upstream publishes.  No lock is taken.                                  *)
(***************************************************************************)
EXTENDS Naturals

CONSTANTS
  Ops,
  Exact,       \* operations that resolve an exact version; the others list or want the latest
  Forced,      \* operations with --refresh
  Defs,        \* digests of the tool's definition
  NoDef,       \* an operation that names no definition, as a diagnosis does
  DefOf,       \* the definition an operation works with
  NoCatalog,
  Ttl,         \* cache_ttl of the source; 0 for a static source, which never expires
  Faults,      \* may file operations and requests fail?
  MaxClock,    \* bound on time
  MaxContent   \* bound on what upstream publishes

ASSUME CatalogAssumption ==
  /\ Exact \cup Forced \subseteq Ops
  /\ NoDef \notin Defs
  /\ DefOf \in [Ops -> Defs \cup {NoDef}]
  /\ {Ttl, MaxClock, MaxContent} \subseteq Nat
  /\ Faults \in BOOLEAN
  /\ NoCatalog \notin [content : Nat, def : Defs \cup {NoDef}, fetched : Nat]

VARIABLES
  pc,        \* where each operation is
  loaded,    \* what LoadCache gave it: a catalog of its definition, or none
  stale,     \* and whether that had expired
  got,       \* the upstream content it collected
  built,     \* the catalog it built
  outcome,   \* what Refresh returned; of two errors with one code, the message
  answer,    \* and with which catalog
  cache,     \* the cache file
  clock, upstream

vars == <<pc, loaded, stale, got, built, outcome, answer, cache, clock, upstream>>

Catalogs == [content : Nat, def : Defs \cup {NoDef}, fetched : Nat]
Running == {"collect", "build", "save"}

Init ==
  /\ pc = [o \in Ops |-> "idle"]
  /\ loaded = [o \in Ops |-> NoCatalog]
  /\ stale = [o \in Ops |-> FALSE]
  /\ got = [o \in Ops |-> 0]
  /\ built = [o \in Ops |-> NoCatalog]
  /\ outcome = [o \in Ops |-> "none"]
  /\ answer = [o \in Ops |-> NoCatalog]
  /\ cache = NoCatalog
  /\ clock = 0
  /\ upstream = 1

-----------------------------------------------------------------------------
Goes(o, from, to) == pc[o] = from /\ pc' = [pc EXCEPT ![o] = to]

Returns(o, from, code, catalog) ==
  /\ Goes(o, from, "done")
  /\ outcome' = [outcome EXCEPT ![o] = code]
  /\ answer' = [answer EXCEPT ![o] = catalog]

\* freshnessOf
Expired(c) == Ttl > 0 /\ clock >= c.fetched + Ttl

\* Bug: any catalog of the tool will do.
UsableAnyDefinition(o, c) == c # NoCatalog

\* matchesRequest on a file that can be read; who names no definition takes any.
Usable(o, c) == c # NoCatalog /\ (DefOf[o] = NoDef \/ c.def = DefOf[o])

\* LoadCache; a file that cannot be read or is of another definition is no cache.
Load(o) ==
  /\ \E c \in {cache} \cup IF Faults THEN {NoCatalog} ELSE {} :
       LET found == IF Usable(o, c) THEN c ELSE NoCatalog
           old == found # NoCatalog /\ Expired(found)
       IN /\ loaded' = [loaded EXCEPT ![o] = found]
          /\ stale' = [stale EXCEPT ![o] = old]
          /\ IF found # NoCatalog /\ ~old /\ o \notin Forced
             THEN Returns(o, "idle", "cached", found)
             ELSE Goes(o, "idle", "collect") /\ UNCHANGED <<outcome, answer>>
  /\ UNCHANGED <<got, built, cache, clock, upstream>>

\* Bug: every operation falls back on an expired catalog.
FallsBackAny(o, from) ==
  IF stale[o]
  THEN Returns(o, from, "stale", loaded[o])
  ELSE Returns(o, from, "E_CATALOG_MISSING", NoCatalog)

\* Bug: no operation falls back.
FallsBackNever(o, from) == Returns(o, from, "E_CATALOG_MISSING", NoCatalog)

\* Offline: an exact resolution may use the expired catalog.
FallsBack(o, from) ==
  IF stale[o] /\ o \in Exact
  THEN Returns(o, from, "stale", loaded[o])
  ELSE Returns(o, from, "E_CATALOG_MISSING", NoCatalog)

\* A request fails; only being offline leads to the expired catalog.
Fails(o, from) ==
  /\ Faults
  /\ FallsBack(o, from) \/ Returns(o, from, "E_NETWORK", NoCatalog)
  /\ UNCHANGED <<loaded, stale, got, built, cache, clock, upstream>>

\* collectItems: the version documents.
Collect(o) ==
  \/ /\ Goes(o, "collect", "build")
     /\ got' = [got EXCEPT ![o] = upstream]
     /\ UNCHANGED <<loaded, stale, built, outcome, answer, cache, clock, upstream>>
  \/ Fails(o, "collect")

\* BuildCatalog: the time is read after the documents came, before the checksums.
Build(o) ==
  \/ /\ Goes(o, "build", "save")
     /\ built' = [built EXCEPT ![o] =
          [content |-> got[o], def |-> DefOf[o], fetched |-> clock]]
     /\ UNCHANGED <<loaded, stale, got, outcome, answer, cache, clock, upstream>>
  \/ Fails(o, "build")

\* SaveCache: a catalog without a definition, or one that breaks a rule of the file or
\* its size, cannot be encoded; the file is replaced as a whole or not at all.
Save(o) ==
  /\ \/ /\ DefOf[o] # NoDef
        /\ \/ Returns(o, "save", "refreshed", built[o]) /\ cache' = built[o]
           \/ Faults /\ Returns(o, "save", "E_FILESYSTEM", NoCatalog) /\ UNCHANGED cache
     \/ /\ DefOf[o] = NoDef \/ Faults
        /\ Returns(o, "save", "catalog.invalid", NoCatalog)
        /\ UNCHANGED cache
  /\ UNCHANGED <<loaded, stale, got, built, clock, upstream>>

\* What an operation holds is gone.
Forgets(o) ==
  /\ pc' = [pc EXCEPT ![o] = "idle"]
  /\ outcome' = [outcome EXCEPT ![o] = "none"]
  /\ answer' = [answer EXCEPT ![o] = NoCatalog]
  /\ loaded' = [loaded EXCEPT ![o] = NoCatalog]
  /\ stale' = [stale EXCEPT ![o] = FALSE]
  /\ got' = [got EXCEPT ![o] = 0]
  /\ built' = [built EXCEPT ![o] = NoCatalog]
  /\ UNCHANGED <<cache, clock, upstream>>

\* The next invocation starts in the place of one that has returned.
Again(o) == pc[o] = "done" /\ Forgets(o)

\* The process ends on the way.
Crash(o) == pc[o] \in Running /\ Faults /\ Forgets(o)

\* Time passes; upstream may have published something new by then.
Tick ==
  /\ clock < MaxClock
  /\ clock' = clock + 1
  /\ upstream' \in {upstream} \cup {c \in {upstream + 1} : c <= MaxContent}
  /\ UNCHANGED <<pc, loaded, stale, got, built, outcome, answer, cache>>

Step(o) == Load(o) \/ Collect(o) \/ Build(o) \/ Save(o) \/ Again(o) \/ Crash(o)

Next == (\E o \in Ops : Step(o)) \/ Tick

Spec == Init /\ [][Next]_vars

-----------------------------------------------------------------------------
\* Operations with different definitions overwrite each other's file, yet none
\* that names its own is answered with a catalog of another (matchesRequest).
AnswerMatchesDefinition ==
  \A o \in Ops : answer[o] # NoCatalog /\ DefOf[o] # NoDef => answer[o].def = DefOf[o]

\* An operation that lists or wants the latest version is answered with what it has
\* just built, or with a catalog that has not expired at that moment (refresh.go:154).
LatestIsCurrent ==
  [][\A o \in Ops \ Exact :
       answer'[o] \notin {answer[o], NoCatalog, built[o]} /\ Ttl > 0
         => clock < answer'[o].fetched + Ttl]_vars

\* Being offline is an error for an exact resolution only when there was no catalog
\* of its definition to use (refresh.go:111-114), or when --refresh asked for one.
OfflineExactServed ==
  \A o \in Exact \ Forced : outcome[o] = "E_CATALOG_MISSING" => loaded[o] = NoCatalog

-----------------------------------------------------------------------------
(* The inductive invariant behind the properties *)

Codes == {"none", "cached", "stale", "refreshed", "E_CATALOG_MISSING", "E_NETWORK",
          "E_FILESYSTEM", "catalog.invalid"}

\* Each variable has its type.
TypeOK ==
  /\ pc \in [Ops -> {"idle", "done"} \cup Running]
  /\ loaded \in [Ops -> Catalogs \cup {NoCatalog}] /\ built \in [Ops -> Catalogs \cup {NoCatalog}]
  /\ answer \in [Ops -> Catalogs \cup {NoCatalog}] /\ outcome \in [Ops -> Codes]
  /\ stale \in [Ops -> BOOLEAN] /\ got \in [Ops -> Nat]
  /\ cache \in Catalogs \cup {NoCatalog} /\ clock \in Nat /\ upstream \in Nat

\* What an operation holds or is answered with is of its own definition, if it names one.
HeldIsOwn ==
  \A o \in Ops : \A c \in {loaded[o], built[o], answer[o]} :
    c # NoCatalog /\ DefOf[o] # NoDef => c.def = DefOf[o]

\* Only a catalog that was found to have expired is held while upstream is asked,
\* unless --refresh asked for it, and what is saved was built.
HeldIsStale ==
  \A o \in Ops :
    /\ pc[o] \in Running /\ o \notin Forced => loaded[o] = NoCatalog \/ stale[o]
    /\ pc[o] = "save" => built[o] # NoCatalog
    /\ pc[o] # "done" => outcome[o] = "none" /\ answer[o] = NoCatalog

IInv == TypeOK /\ HeldIsOwn /\ HeldIsStale /\ OfflineExactServed
=============================================================================
