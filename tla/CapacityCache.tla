--------------------------- MODULE CapacityCache ----------------------------
(***************************************************************************)
(* The cache of decisions in the client libraries (CapacityCache and the   *)
(* part of PluginManager it uses), and the buffer of entries for the       *)
(* monitor (MonitorCache).                                                 *)
(*                                                                         *)
(* A cache is a record: usage is m_keyUsage, the keys from the most to the *)
(* least recently used; value is m_keyValue; null says that the plugin map *)
(* holds an entry without a plugin.                                        *)
(***************************************************************************)
EXTENDS Naturals, Sequences, FiniteSets

CONSTANTS Capacity,        \* m_capacity
          PluginOf(_),     \* policy type -> the plugin in charge, "none" if there is none
          MonitorCapacity  \* MonitorCache::CACHE_CAPACITY

EmptyCache == [usage |-> <<>>, value |-> [k \in {} |-> 0], null |-> FALSE]

\* The plugins of the model: the NaiveInterpreter that every client registers,
\* one whose results hold for one session, and one whose results are not kept.
IsCacheable(plugin) == plugin # "once"
IsUsable(plugin, session, previous) == plugin = "session" => session = previous
ToResult(plugin, type) ==
    CASE plugin = "none" -> "ACCESS_DENIED"
      [] plugin = "naive" -> IF type = "ALLOW" THEN "ACCESS_ALLOWED" ELSE "ACCESS_DENIED"
      [] OTHER -> "ACCESS_ALLOWED"

\* findPlugin: PluginManager::getPlugin looks a type up with operator[], which
\* leaves an empty entry behind when there is no plugin.
AfterFind(cache, type) ==
    [cache EXCEPT !.null = @ \/ PluginOf(type) = "none"]

\* The keys but one, in order: a key is in the list at most once.
Others(usage, key) ==
    LET at == CHOOSE i \in DOMAIN usage : usage[i] = key
    IN  IF \E i \in DOMAIN usage : usage[i] = key
        THEN [i \in 1 .. Len(usage) - 1 |-> usage[IF i < at THEN i ELSE i + 1]]
        ELSE usage

Drop(cache, key) ==
    [cache EXCEPT !.usage = Others(@, key),
                  !.value = [k \in DOMAIN @ \ {key} |-> @[k]]]

\* Mutant: a result that is not usable stays in the cache.
GetMutant(cache, session, key) ==
    LET v == cache.value[key]
        plugin == PluginOf(v.result.type)
        found == AfterFind(cache, v.result.type)
    IN  IF key \notin DOMAIN cache.value THEN [ret |-> "CACHE_MISS", cache |-> cache]
        ELSE IF plugin = "none" THEN [ret |-> "ACCESS_DENIED", cache |-> found, result |-> v.result]
        ELSE IF IsUsable(plugin, session, v.session)
        THEN [ret |-> ToResult(plugin, v.result.type), result |-> v.result,
              cache |-> [found EXCEPT !.usage = <<key>> \o Others(@, key)]]
        ELSE [ret |-> "CACHE_MISS", cache |-> found]
\* CapacityCache::get.
Get(cache, session, key) ==
    LET v == cache.value[key]
        plugin == PluginOf(v.result.type)
        found == AfterFind(cache, v.result.type)
    IN  IF key \notin DOMAIN cache.value THEN [ret |-> "CACHE_MISS", cache |-> cache]
        ELSE IF plugin = "none" THEN [ret |-> "ACCESS_DENIED", cache |-> found, result |-> v.result]
        ELSE IF IsUsable(plugin, session, v.session)
        THEN [ret |-> ToResult(plugin, v.result.type), result |-> v.result,
              cache |-> [found EXCEPT !.usage = <<key>> \o Others(@, key)]]
        ELSE [ret |-> "CACHE_MISS", cache |-> Drop(found, key)]

\* evict: the least recently used key goes.
Evict(cache) == Drop(cache, cache.usage[Len(cache.usage)])

\* update looks the key up, evicts when the cache is full and then goes on with
\* what it found: when the key itself was evicted, that is an iterator to an
\* erased element.
UsesErased(cache, key, result) ==
    /\ PluginOf(result.type) # "none" /\ IsCacheable(PluginOf(result.type))
    /\ Capacity > 0 /\ Len(cache.usage) = Capacity
    /\ cache.usage[Len(cache.usage)] = key

\* CapacityCache::update.
Update(cache, session, key, result) ==
    LET plugin == PluginOf(result.type)
        found == AfterFind(cache, result.type)
        room == IF Cardinality(DOMAIN found.value) = Capacity THEN Evict(found) ELSE found
        kept == [room EXCEPT
                   !.usage = <<key>> \o Others(@, key),
                   !.value = [k \in DOMAIN @ \union {key} |->
                                 IF k = key THEN [result |-> result, session |-> session]
                                            ELSE @[k]]]
    IN  [ret   |-> ToResult(plugin, result.type),
         cache |-> IF plugin = "none" \/ Capacity = 0 THEN found
                   ELSE IF IsCacheable(plugin) THEN kept
                   ELSE Drop(found, key)]

\* clear: both containers are emptied, then every plugin is told to invalidate,
\* the missing one too.
ClearCrashes(cache) == cache.null
\* Mutant: nothing is cleared.
ClearMutant(cache) == cache
Clear(cache) == [cache EXCEPT !.usage = <<>>, !.value = [k \in {} |-> 0]]

\* MonitorCache: anything that is not "allowed" is recorded as a denial.
MonitorEntry(key, result) ==
    [key |-> key, result |-> IF result = "ACCESS_ALLOWED" THEN result ELSE "ACCESS_DENIED"]
ShouldFlush(entries, old) == entries # <<>> /\ (Len(entries) >= MonitorCapacity \/ old)

=============================================================================
