------------------------------- MODULE Routing -------------------------------
(* Which way a connection goes: the domain lists and the routing settings in *)
(* state.db (routing.py), the custom proxies (custom_proxies.py), the engine's *)
(* own channel (channel.py), and the memos read on the hot path in their      *)
(* stead: the compiled routes, the country policy of the pool and the         *)
(* resolved channel proxy.                                                    *)
(*                                                                            *)
(* The operator's handlers run to completion between two steps of a          *)
(* connection, so each is one action. A memo's age is not counted: wherever  *)
(* the code compares it with a TTL, it may or may not have expired.           *)
EXTENDS Integers, Sequences, FiniteSets

CONSTANTS
    Lists,        \* ids of domain lists
    Customs,      \* ids of custom proxies
    Addrs,        \* addresses of rated proxies
    None,
    Hosts,        \* host names, each the sequence of its labels
    PatternSets,  \* the sets of patterns a list may be given
    Routes,       \* the routes a list, the default or the channel may be given
    Policies,     \* country policies of the pool: [mode, codes]
    MaxEdits      \* bound: operator actions in a behaviour

ASSUME RoutingAssumption ==
    /\ MaxEdits \in Nat
    /\ IsFiniteSet(Lists) /\ IsFiniteSet(Addrs)
    /\ None \notin Lists \cup Customs \cup Addrs

\* A route as the settings hold it: "direct", "pool", "pool_selected",
\* "custom:<id>", "proxy:<addr>", or a word the router does not know.
Route == [kind: {"direct", "pool", "selected", "unknown"}, to: {None}]
             \cup [kind: {"custom"}, to: Customs] \cup [kind: {"proxy"}, to: Addrs]
Direct == [kind |-> "direct", to |-> None]
Pool == [kind |-> "pool", to |-> None]
\* The empty route: a list that carries it is never consulted.
NoRoute == [kind |-> "none", to |-> None]
ASSUME RoutesAssumption == Routes \subseteq Route

VARIABLES
    config,      \* routing_config: [enabled, default, fallback, policy, channel]
    lists,       \* domain_lists with their entries, None when there is no such row
    customs,     \* custom_proxies: "on", "off" or "absent"
    ratings,     \* ratings in memory: [status, fails, black], or None
    cache,       \* _route_cache
    policyCache, \* _pool_country_cache
    channel,     \* _channel_route
    channelCache,\* _channel_proxy_cache_route and _channel_proxy_cache
    backup,      \* a backup of the routing tables the operator keeps, or None
    behind,      \* the memos whose tables a restore has replaced since they were filled
    edits

tables == <<config, lists, backup>>
memos == <<cache, policyCache, behind>>
routingVars == <<config, lists, customs, ratings, cache, policyCache, channel,
                 channelCache, backup, behind, edits>>

Max0(S) == IF S = {} THEN -1 ELSE CHOOSE x \in S : \A y \in S : y <= x
Rows == {l \in Lists : lists[l] # None}

\* ---- domain lists, compiled and as they are written ----

\* A pattern is "exact:name", or name, .name or *.name (form "suffix").
Domains(host) == {SubSeq(host, i, Len(host)) : i \in 1 .. Len(host)}
\* _domain_matches: the pattern list read one by one.
DomainMatches(host, patterns) ==
    \E p \in patterns : \/ p.name = host
                        \/ p.form = "suffix" /\ p.name \in Domains(host)
\* What _route_cache_build makes of a list: two sets to look a host up in.
Compile(l) == [pri |-> lists[l].pri, row |-> lists[l].row, route |-> lists[l].route,
               exact |-> {p.name : p \in lists[l].patterns},
               suffixes |-> {p.name : p \in {q \in lists[l].patterns : q.form = "suffix"}}]
\* ORDER BY priority; rows of equal priority come in the order of their insertion.
Before(x, y) == x.pri < y.pri \/ (x.pri = y.pri /\ x.row < y.row)
FirstOf(S) == CHOOSE x \in S : \A y \in S : x = y \/ Before(x, y)
Consulted == {l \in Rows : lists[l].enabled /\ lists[l].route # NoRoute}

Built == [enabled |-> config.enabled, default |-> config.default,
          lists |-> IF config.enabled THEN {Compile(l) : l \in Consulted} ELSE {}]
Hits(memo, host) == {x \in memo.lists : host \in x.exact
                                          \/ Domains(host) \cap x.suffixes # {}}
\* _resolve_route on a compiled cache, with the runner's switches.
Resolve(memo, host, directMode, active) ==
    IF ~memo.enabled THEN
        IF directMode THEN Direct
        ELSE IF active # None THEN [kind |-> "proxy", to |-> active] ELSE Pool
    ELSE IF Hits(memo, host) = {} THEN memo.default
    ELSE FirstOf(Hits(memo, host)).route
\* routing_test: what the tables say, read afresh.
TestRoute(host, directMode, active) ==
    LET hits == {l \in Consulted : DomainMatches(host, lists[l].patterns)}
    IN IF ~config.enabled THEN Resolve([enabled |-> FALSE], host, directMode, active)
       ELSE IF hits = {} THEN config.default
       ELSE FirstOf({lists[l] : l \in hits}).route
\* _route_cache_get: the memo, rebuilt when it is missing or older than its TTL.
CacheReads == (IF cache = None THEN {} ELSE {cache}) \cup {Built}
PolicyReads == (IF policyCache = None THEN {} ELSE {policyCache}) \cup {config.policy}
PolicyAllows(code, policy) ==
    \/ policy.mode = "off"
    \/ policy.codes = {}
    \/ policy.mode = "only" /\ code \in policy.codes
    \/ policy.mode = "exclude" /\ code \notin policy.codes

\* ---- the channel of the engine's own connections ----

\* _channel_proxy: the proxy of a channel route, None when it cannot be used.
ChannelProxy(route) ==
    IF \/ route.kind = "proxy" /\ ratings[route.to] # None /\ ~ratings[route.to].black
       \/ route.kind = "custom" /\ customs[route.to] = "on"
    THEN route.to ELSE None
ChannelIsSet == channel \notin {NoRoute, Direct}
\* _channel_proxy_cached: resolved once for a route, until set_channel.
ChannelCached ==
    IF channelCache.route = channel THEN channelCache
    ELSE [route |-> channel, proxy |-> ChannelProxy(channel)]

\* ---- the operator's handlers ----

Edit == edits < MaxEdits /\ edits' = edits + 1
KeepRoutes == UNCHANGED <<cache, behind>> \* mutated
InvalidateRoutes == /\ cache' = None
                    /\ behind' = behind \ {"route"}
\* Everything a change of a routing table leaves alone.
KeepOthers == UNCHANGED <<customs, ratings, policyCache, channel, channelCache, backup>>

NextPri == 1 + Max0({lists[l].pri : l \in Rows})
NextRow == 1 + Max0({lists[l].row : l \in Rows})
CreateDomainList(l, route, enabled, patterns) ==
    /\ Edit
    /\ lists[l] = None
    /\ lists' = [lists EXCEPT ![l] = [pri |-> NextPri, row |-> NextRow, route |-> route,
                                      enabled |-> enabled, patterns |-> patterns]]
    /\ InvalidateRoutes
    /\ UNCHANGED config /\ KeepOthers
\* A request with a name sets route and switch, whatever else it leaves out;
\* one with domains replaces the entries.
UpdateDomainList(l, named, route, enabled, patterns) ==
    /\ Edit
    /\ lists[l] # None
    /\ lists' = [lists EXCEPT ![l].route = IF named THEN route ELSE @,
                              ![l].enabled = IF named THEN enabled ELSE @,
                              ![l].patterns = patterns]
    /\ InvalidateRoutes
    /\ UNCHANGED config /\ KeepOthers
DeleteDomainList(l) ==
    /\ Edit
    /\ lists[l] # None
    /\ lists' = [lists EXCEPT ![l] = None]
    /\ InvalidateRoutes
    /\ UNCHANGED config /\ KeepOthers
ToggleDomainList(l) ==
    /\ Edit
    /\ lists[l] # None
    /\ lists' = [lists EXCEPT ![l].enabled = ~@]
    /\ InvalidateRoutes
    /\ UNCHANGED config /\ KeepOthers
\* The ids given take the priorities 0, 1, ...; the other lists keep theirs.
ReorderDomainLists(order) ==
    /\ Edit
    /\ lists' = [l \in Lists |->
          IF lists[l] # None /\ \E i \in 1 .. Len(order) : order[i] = l
          THEN [lists[l] EXCEPT !.pri = (CHOOSE i \in 1 .. Len(order) : order[i] = l) - 1]
          ELSE lists[l]]
    /\ InvalidateRoutes
    /\ UNCHANGED config /\ KeepOthers
RoutingSwitch(on) ==
    /\ Edit
    /\ config' = [config EXCEPT !.enabled = on]
    /\ InvalidateRoutes
    /\ UNCHANGED lists /\ KeepOthers
RoutingSetDefault(route) ==
    /\ Edit
    /\ config' = [config EXCEPT !.default = route]
    /\ InvalidateRoutes
    /\ UNCHANGED lists /\ KeepOthers
\* The fallback switch has no memo: every failed connection reads the table.
RoutingSetFallback(on) ==
    /\ Edit
    /\ config' = [config EXCEPT !.fallback = on]
    /\ UNCHANGED <<lists, cache, behind>> /\ KeepOthers
\* The country policy is written through its memo.
SetPoolCountryPolicy(policy) ==
    /\ Edit
    /\ config' = [config EXCEPT !.policy = policy]
    /\ policyCache' = policy
    /\ behind' = behind \ {"policy"}
    /\ UNCHANGED <<lists, cache, customs, ratings, channel, channelCache, backup>>
\* create_custom_proxy, update_custom_proxy, toggle_custom_proxy and
\* delete_custom_proxy: no memo is told.
SetCustomProxy(c, new) ==
    /\ Edit
    /\ customs' = [customs EXCEPT ![c] = new]
    /\ new # customs[c]
    /\ (customs[c] = "absent") => (new = "on")
    /\ UNCHANGED <<config, lists, ratings, cache, policyCache, channel, channelCache, backup, behind>>
SetChannel(route) ==
    /\ Edit
    /\ channel' = IF route = Pool THEN NoRoute ELSE route
    /\ config' = [config EXCEPT !.channel = channel']
    /\ channelCache' = [route |-> NoRoute, proxy |-> None]
    /\ UNCHANGED <<lists, customs, ratings, cache, policyCache, backup, behind>>
\* create_backup and restore_backup of the group "routing": the restore replaces
\* the tables and reloads ratings and lists of addresses, but none of the memos.
Backup ==
    /\ Edit
    /\ backup' = [config |-> config, lists |-> lists]
    /\ UNCHANGED <<config, lists, customs, ratings, cache, policyCache, channel, channelCache, behind>>
Restore ==
    /\ Edit
    /\ backup # None
    /\ config' = backup.config
    /\ lists' = backup.lists
    /\ behind' = {"route", "policy"}
    /\ UNCHANGED <<customs, ratings, cache, policyCache, channel, channelCache, backup>>

EditRoutes ==
    \/ \E l \in Lists, rt \in Routes \cup {NoRoute}, on \in BOOLEAN, ps \in PatternSets :
          \/ CreateDomainList(l, rt, on, ps)
          \/ \E named \in BOOLEAN : UpdateDomainList(l, named, rt, on, ps)
    \/ \E l \in Lists : DeleteDomainList(l) \/ ToggleDomainList(l)
    \/ \E l, m \in Lists : ReorderDomainLists(IF l = m THEN <<l>> ELSE <<l, m>>)
    \/ \E on \in BOOLEAN : RoutingSwitch(on) \/ RoutingSetFallback(on)
    \/ \E rt \in Routes : RoutingSetDefault(rt)
    \/ \E p \in Policies : SetPoolCountryPolicy(p)
    \/ \E c \in Customs, new \in {"on", "off", "absent"} : SetCustomProxy(c, new)
    \/ \E rt \in Routes \cup {NoRoute} : SetChannel(rt)
    \/ Backup \/ Restore

\* What the tables and the memos are when the process has just loaded them.
RoutingInit(configs, listings) ==
    /\ config \in configs
    /\ lists \in listings
    /\ customs = [c \in Customs |-> "on"]
    /\ cache = None /\ policyCache = None
    /\ channel = config.channel
    /\ channelCache = [route |-> NoRoute, proxy |-> None]
    /\ backup = None /\ behind = {} /\ edits = 0

\* Every change of a list or of a setting is felt by the next connection: the
\* compiled routes answer for every host what routing_test reads from the
\* tables, and the country policy is the stored one, except behind a restored
\* backup, which the memos learn of only when their TTL runs out
\* (_route_cache_invalidate, set_pool_country_policy, restore_backup).
MemosAreCurrent ==
    /\ cache # None /\ "route" \notin behind =>
          \A h \in Hosts, direct \in BOOLEAN, a \in Addrs \cup {None} :
              Resolve(cache, h, direct, a) = TestRoute(h, direct, a)
    /\ policyCache # None /\ "policy" \notin behind => policyCache = config.policy

===============================================================================
