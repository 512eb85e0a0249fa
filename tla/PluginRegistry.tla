--------------------------- MODULE PluginRegistry ---------------------------
(* The plugin catalog and the compile cache it shares with the requests.

   The registry keeps, behind one lock, the catalog (plugins in an order, each
   enabled or not) and a cache of compiled components keyed by digest, evicted
   least recently used first by weight; a component the catalog refers to is
   pinned.  Two things happen outside the lock: an import compiles, and a
   request builds its snapshot step by step from a resolution it froze before.
   The request's source of a missing component is the registry itself when it
   is self-hosted, an object store when it is not.                            *)
EXTENDS Naturals, Sequences, FiniteSets, Functions, SequencesExt

CONSTANTS
  Plugins,       \* plugin ids the administration may import, each at most once
  Components,    \* component digests
  WeightOf,      \* guest memory limit of a compiled component
  CacheMax,      \* cache_max_weight
  Builders,      \* requests that build a snapshot
  MaxCatalog     \* bound on catalog changes after the imports

\* digests are no sentinels
CacheAssumption ==
  CacheMax \in Nat \ {0} /\ WeightOf \in [Components -> Nat \ {0}] /\ "none" \notin Components

VARIABLES
  plugin,     \* the catalog entry of each id
  order,      \* the catalog's order
  cached,     \* capabilities of each compiled component, "none" when it is not cached
  lru,        \* the cached components, least recently used first
  weight,     \* cache_weight
  importing,  \* imports between their lookup and their insertion
  builder,    \* the requests
  changes     \* catalog changes so far

catalogVars == <<plugin, order, cached, lru, weight, importing, builder, changes>>

\* The elements of a sequence that are in T, in its order (Vec::retain).
Retained(s, T) ==
  LET kept[i \in 0 .. Len(s)] ==
        IF i = 0 THEN <<>>
        ELSE IF s[i] \in T THEN Append(kept[i - 1], s[i]) ELSE kept[i - 1]
  IN kept[Len(s)]

Caps == {"safe", "unsafe"}   \* prefix_safe_for_read
Steps == [component : Components, caps : Caps]
NoPlugin == [here |-> FALSE, component |-> "none", caps |-> "none", enabled |-> FALSE]
Idle == [component |-> "none", caps |-> "none"]
Over == [component |-> "none", caps |-> "over"]   \* ids are random and not used twice
NoBuilder == [phase |-> "idle", hosted |-> FALSE, steps |-> <<>>, done |-> 0]

RegistryInit ==
  /\ plugin = [p \in Plugins |-> NoPlugin]
  /\ order = <<>>
  /\ cached = [c \in Components |-> "none"]
  /\ lru = <<>>
  /\ weight = 0
  /\ importing = [p \in Plugins |-> Idle]
  /\ builder = [b \in Builders |-> NoBuilder]
  /\ changes = 0

-----------------------------------------------------------------------------
(* The cache.  A cache is a record of the three fields one locked section changes. *)

Cache == [of |-> cached, order |-> lru, weight |-> weight]
SetCache(c) == cached' = c.of /\ lru' = c.order /\ weight' = c.weight

Touched(cache, c) ==
  [cache EXCEPT !.order = Append(Retained(@, Components \ {c}), c)]

Inserted(cache, c, caps) ==
  IF cache.of[c] = "none"
  THEN [cache EXCEPT !.of[c] = caps, !.weight = @ + WeightOf[c]]
  ELSE cache

\* Mutant: a disabled plugin pins nothing.
ReferencedEnabled(catalog) ==
  {catalog[p].component : p \in {q \in Plugins : catalog[q].here /\ catalog[q].enabled}}

Referenced(catalog) == {catalog[p].component : p \in {q \in Plugins : catalog[q].here}}

Without(cache, c) ==
  [of |-> [cache.of EXCEPT ![c] = "none"],
   order |-> Retained(cache.order, Components \ {c}),
   weight |-> cache.weight - WeightOf[c]]

\* One round of the eviction: the least recently used entry the catalog does not
\* pin goes, if the weight does not fit and there is one.
EvictOne(cache, catalog) ==
  LET victims == Retained(cache.order, Components \ Referenced(catalog))
  IN IF cache.weight > CacheMax /\ victims # <<>> THEN Without(cache, victims[1]) ELSE cache

\* evict_unreferenced_engines: round after round, at most one for each entry.
EvictUnreferenced(cache, catalog) ==
  LET round[n \in 0 .. Len(cache.order)] ==
        IF n = 0 THEN cache ELSE EvictOne(round[n - 1], catalog)
  IN round[Len(cache.order)]

-----------------------------------------------------------------------------
(* Administration *)

\* cached_engine, and the compilation outside the lock when it misses.
LookupForImport(p, c, caps) ==
  /\ importing[p] = Idle
  /\ importing' = [importing EXCEPT
       ![p] = IF cached[c] \in {"none", caps} THEN [component |-> c, caps |-> caps] ELSE Over]
  /\ SetCache(IF cached[c] = "none" THEN Cache ELSE Touched(Cache, c))
  /\ UNCHANGED <<plugin, order, builder, changes>>

\* The insertion and the catalog entry that pins it are one locked section; an
\* entry that another request inserted meanwhile must have the same capabilities.
FinishImport(p) ==
  LET c == importing[p].component
      caps == importing[p].caps
      catalog == [plugin EXCEPT ![p] = [here |-> TRUE, component |-> c,
                                        caps |-> caps, enabled |-> TRUE]]
  IN /\ c \in Components
     /\ importing' = [importing EXCEPT ![p] = Over]
     /\ IF cached[c] \in {"none", caps}
        THEN /\ plugin' = catalog
             /\ order' = Append(order, p)
             /\ SetCache(EvictUnreferenced(Touched(Inserted(Cache, c, caps), c), catalog))
        ELSE UNCHANGED <<plugin, order, cached, lru, weight>>
     /\ UNCHANGED <<builder, changes>>

CatalogChange == changes < MaxCatalog /\ changes' = changes + 1

SetEnabled(p, enabled) ==
  /\ plugin[p].here /\ plugin[p].enabled # enabled
  /\ CatalogChange
  /\ plugin' = [plugin EXCEPT ![p].enabled = enabled]
  /\ UNCHANGED <<order, cached, lru, weight, importing, builder>>

RemovePlugin(p) ==
  LET catalog == [plugin EXCEPT ![p] = NoPlugin]
  IN /\ plugin[p].here
     /\ CatalogChange
     /\ plugin' = catalog
     /\ order' = Retained(order, Plugins \ {p})
     /\ SetCache(EvictUnreferenced(Cache, catalog))
     /\ UNCHANGED <<importing, builder>>

\* The plugins that are not named keep their relative order at the end.
Reorder(ids) ==
  LET known == Retained(ids, {p \in Plugins : plugin[p].here})
  IN /\ CatalogChange
     /\ order' = known \o Retained(order, Plugins \ ToSet(known))
     /\ UNCHANGED <<plugin, cached, lru, weight, importing, builder>>

-----------------------------------------------------------------------------
(* A request: resolve, then one engine after the other *)

EnabledSteps ==
  LET on == Retained(order, {p \in Plugins : plugin[p].here /\ plugin[p].enabled})
  IN [i \in 1 .. Len(on) |-> [component |-> plugin[on[i]].component, caps |-> plugin[on[i]].caps]]

Resolved(b, hosted, steps) ==
  /\ builder[b].phase = "idle"
  /\ builder' = [builder EXCEPT ![b] = [phase |-> "engines", hosted |-> hosted,
                                        steps |-> steps, done |-> 0]]
  /\ UNCHANGED <<plugin, order, cached, lru, weight, importing, changes>>

\* StaticPipelineResolver freezes the enabled catalog.
ResolveStatic(b) == Resolved(b, FALSE, EnabledSteps)

\* A hosted control plane sends the steps of the caller's own pipeline.
ResolveHosted(b, step) == Resolved(b, TRUE, <<step>>)

NextStep(b) == builder[b].steps[builder[b].done + 1]
Building(b) == builder[b].phase = "engines" /\ builder[b].done < Len(builder[b].steps)

StepDone(b) ==
  [builder EXCEPT ![b].done = @ + 1, ![b].phase = "engines"]
Refused(b, why) == [builder EXCEPT ![b].phase = why]

\* engine_for: the cache decides, or the source is asked.
EngineFromCache(b) ==
  LET s == NextStep(b)
  IN /\ Building(b)
     /\ cached[s.component] # "none"
     /\ SetCache(Touched(Cache, s.component))
     /\ builder' = IF cached[s.component] = s.caps THEN StepDone(b) ELSE Refused(b, "refused")
     /\ UNCHANGED <<plugin, order, importing, changes>>

EngineMissed(b) ==
  /\ Building(b)
  /\ cached[NextStep(b).component] = "none"
  /\ builder' = [builder EXCEPT ![b].phase = "missed"]
  /\ UNCHANGED <<plugin, order, cached, lru, weight, importing, changes>>

\* source.load: the self-hosted source is the cache, looked at a second time;
\* the bytes are compiled outside the lock.
LoadComponent(b) ==
  /\ builder[b].phase = "missed"
  /\ builder' = [builder EXCEPT ![b].phase =
       IF builder[b].hosted \/ cached[NextStep(b).component] # "none"
       THEN "compiled" ELSE "missing"]
  /\ UNCHANGED <<plugin, order, cached, lru, weight, importing, changes>>

\* A hosted component that cannot be fetched, is not what its digest says, or does not compile.
LoadFails(b) ==
  /\ builder[b].phase = "missed" /\ builder[b].hosted
  /\ builder' = Refused(b, "refused")
  /\ UNCHANGED <<plugin, order, cached, lru, weight, importing, changes>>

\* insert_engine: the first registration is authoritative, another one's
\* capabilities are refused; the new entry may itself be evicted at once.
InsertEngine(b) ==
  LET s == NextStep(b)
  IN /\ builder[b].phase = "compiled"
     /\ \/ /\ cached[s.component] = s.caps
           /\ SetCache(Touched(Cache, s.component))
           /\ builder' = StepDone(b)
        \/ /\ cached[s.component] = "none"
           /\ SetCache(EvictUnreferenced(Touched(Inserted(Cache, s.component, s.caps), s.component),
                                         plugin))
           /\ builder' = StepDone(b)
        \/ /\ cached[s.component] \notin {"none", s.caps}
           /\ builder' = Refused(b, "refused")
           /\ UNCHANGED <<cached, lru, weight>>
     /\ UNCHANGED <<plugin, order, importing, changes>>

SnapshotReady(b) ==
  /\ builder[b].phase = "engines" /\ builder[b].done = Len(builder[b].steps)
  /\ builder' = [builder EXCEPT ![b].phase = "ready"]
  /\ UNCHANGED <<plugin, order, cached, lru, weight, importing, changes>>

\* The response has been sent: the snapshot is dropped.
SnapshotDropped(b) ==
  /\ builder[b].phase \in {"ready", "refused", "missing"}
  /\ builder' = [builder EXCEPT ![b] = NoBuilder]
  /\ UNCHANGED <<plugin, order, cached, lru, weight, importing, changes>>

RegistryNext ==
  \/ \E p \in Plugins, c \in Components, caps \in Caps : LookupForImport(p, c, caps)
  \/ \E p \in Plugins : FinishImport(p) \/ RemovePlugin(p)
  \/ \E p \in Plugins, on \in BOOLEAN : SetEnabled(p, on)
  \/ \E p \in Plugins : Reorder(<<p>>)
  \/ \E b \in Builders : ResolveStatic(b)
  \/ \E b \in Builders, s \in Steps : ResolveHosted(b, s)
  \/ \E b \in Builders :
       \/ EngineFromCache(b) \/ EngineMissed(b) \/ LoadComponent(b) \/ LoadFails(b)
       \/ InsertEngine(b) \/ SnapshotReady(b) \/ SnapshotDropped(b)

RegistrySpec == RegistryInit /\ [][RegistryNext]_catalogVars

-----------------------------------------------------------------------------
(* The weighted cache keeps what it must and nothing it need not: a component
   of the catalog stays compiled, with the capabilities the catalog pinned,
   whatever imports, hosted requests and evictions do; the accounted weight is
   that of the cached engines; and it exceeds the budget only while everything
   that is cached is pinned. *)
CacheKeepsCatalog ==
  /\ \A p \in Plugins : plugin[p].here => cached[plugin[p].component] = plugin[p].caps
  /\ weight = SumFunctionOnSet(WeightOf, ToSet(lru))
  /\ ToSet(lru) = {c \in Components : cached[c] # "none"}
  /\ Len(lru) = Cardinality(ToSet(lru))
  /\ weight > CacheMax => ToSet(lru) \subseteq Referenced(plugin)

(* pipeline.rs and plugin_registry.rs: "The static resolver only references
   digests that startup administration imported, so fetches always hit the
   cache": no self-hosted request misses a component it resolved. *)
StaticFetchHits == \A b \in Builders : builder[b].phase # "missing"
=============================================================================
