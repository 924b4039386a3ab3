------------------------------- MODULE Upstream -------------------------------
(* One client connection after another through the proxy runner: the request *)
(* is routed, the way it takes is tried, retried and given up, the pool is    *)
(* the fallback only where the operator allows it (proxy_routing.py), and the *)
(* client gets an answer in every case (proxy_runner.py, socks5_runner.py,    *)
(* transparent_runner.py). Meanwhile the operator edits the routes, selects   *)
(* proxies and blacklists them, and checks come in.                           *)
(*                                                                            *)
(* A step of a connection is what its coroutine does from one await to the    *)
(* next.                                                                      *)
EXTENDS Routing, SequencesExt

CONSTANTS
    Conns,       \* slots for client connections
    Code,        \* [Addrs -> exit country code]
    Tunnels,     \* the addresses that carry CONNECT (or speak SOCKS)
    Proven,      \* the addresses that once produced a usable speed
    GraceFails,  \* GRACE_FAILS
    PoolTries,   \* how many proxies of the pool one connection tries
    Retries,     \* _CONNECT_RETRIES
    Replays,     \* _FORWARD_RETRIES
    Forms,       \* the HTTP requests clients make: "tunnel", "get", "post"
    InitConfigs, InitLists, InitRatings  \* the settings, lists and ratings there may be
                                         \* at the start

ASSUME UpstreamAssumption ==
    /\ Tunnels \cup Proven \subseteq Addrs
    /\ GraceFails \in Nat /\ PoolTries \in Nat \ {0}
    /\ Retries \in Nat \ {0} /\ Replays \in Nat
    /\ Forms \subseteq {"tunnel", "get", "post"}

\* Settings, domain lists and ratings as the tables hold them; the row of a list
\* is its own.
Configs == [enabled: BOOLEAN, default: Route, fallback: BOOLEAN, policy: Policies,
            channel: Route \cup {NoRoute}]
ListRows == [pri: Nat, row: Nat, route: Route \cup {NoRoute}, enabled: BOOLEAN,
             patterns: PatternSets]
Listing(ls) ==
    /\ ls \in [Lists -> ListRows \cup {None}]
    /\ \A l, m \in Lists : ls[l] # None /\ ls[m] # None /\ ls[l].row = ls[m].row => l = m
Ratings == [Addrs -> [status: {"ok", "failed"}, fails: 0 .. GraceFails, black: BOOLEAN]
                         \cup {None}]
ASSUME InitAssumption ==
    /\ InitConfigs \subseteq Configs /\ InitRatings \subseteq Ratings
    /\ \A ls \in InitLists : Listing(ls)

VARIABLES
    active,      \* active_proxy_addr
    directMode,  \* direct_mode
    conn         \* the connections' coroutines

vars == <<routingVars, active, directMode, conn>>
selection == <<active, directMode>>

\* The way a connection is being made: to what, with how many attempts left
\* (this one included), which proxies of the pool are left to try, and whom to
\* blame ("active": whoever is selected by then).
Leg(mode, to) == [mode |-> mode, to |-> to, left |-> 1, rest |-> <<>>, blame |-> None]
NoLeg == Leg("none", None)
Crash == Leg("crash", None)
\* A connection: `plain` when it needs no CONNECT, `headed` when the answer's
\* head is read before anything goes to the client, `again` how often it may
\* still be replayed, `spare` whether a direct attempt is left to it; `may` is
\* what the tables have allowed it.
Idle == [pc |-> "idle", host |-> <<>>, plain |-> FALSE, headed |-> FALSE, again |-> 0,
         spare |-> "none", leg |-> NoLeg, may |-> {}]

\* ---- the pool ----

InGrace(a, rs) == a \in Proven /\ rs[a].fails < GraceFails
\* pool_eligible, the country policy and the need for CONNECT.
Eligible(a, plain, rs, policy) ==
    /\ rs[a] # None /\ ~rs[a].black
    /\ rs[a].status = "ok" \/ InGrace(a, rs)
    /\ PolicyAllows(Code[a], policy)
    /\ plain \/ a \in Tunnels
\* _build_pool: live proxies before those in grace; the order by score is open.
PoolOrders(plain, rs, policy) ==
    LET some == {a \in Addrs : Eligible(a, plain, rs, policy)}
        live == {a \in some : rs[a].status = "ok"}
        n == IF Cardinality(some) < PoolTries THEN Cardinality(some) ELSE PoolTries
    IN UNION {{SubSeq(x \o y, 1, n) : x \in SetToSeqs(live)} : y \in SetToSeqs(some \ live)}
PoolLegs(plain, rs, policy) ==
    {IF s = <<>> THEN NoLeg ELSE [Leg("pool", s[1]) EXCEPT !.rest = Tail(s)] :
        s \in PoolOrders(plain, rs, policy)}

\* ---- the ways a request may take; an outcome is the leg begun, the ratings
\* ---- after the blame, and the memos of the policy and of the channel

\* _record_traffic_fail: within the throttle's 5 seconds only the status changes.
Blamed(a) ==
    IF a = None \/ ratings[a] = None THEN {ratings}
    ELSE {[ratings EXCEPT ![a].status = "failed",
                          ![a].fails = IF @ < GraceFails THEN @ + n ELSE @] : n \in {0, 1}}
Outcome(leg, rs, policy, chan) ==
    [leg |-> leg, ratings |-> rs, policy |-> policy, chan |-> chan]
Plain(leg) == Outcome(leg, ratings, policyCache, channelCache)
ViaPool(plain, rs) ==
    UNION {{Outcome(leg, rs, p, channelCache) : leg \in PoolLegs(plain, rs, p)} : p \in PolicyReads}
GivenUpToPool(a, plain) == UNION {ViaPool(plain, rs) : rs \in Blamed(a)} \* mutated
\* Only the fallback switch lets a failed selection into the pool.
GivenUp(a, plain) ==
    UNION {IF config.fallback THEN ViaPool(plain, rs)
           ELSE {Outcome(NoLeg, rs, policyCache, channelCache)} : rs \in Blamed(a)}
DirectAtLast == IF ChannelCached.proxy = None THEN Plain(Leg("direct", None)) \* mutated
    ELSE Outcome(Leg("channel", ChannelCached.proxy), ratings, policyCache, ChannelCached)
\* _connect_direct: through the channel if there is one, and then only so.
DirectLeg ==
    IF ~ChannelIsSet THEN Plain(Leg("direct", None))
    ELSE Outcome(IF ChannelCached.proxy = None THEN NoLeg
                 ELSE Leg("channel", ChannelCached.proxy), ratings, policyCache, ChannelCached)
\* _connect_via_addr: a proxy that is gone or blacklisted fails at once.
ViaAddr(a, blame, plain) ==
    IF ratings[a] # None /\ ~ratings[a].black
    THEN {Plain([Leg("addr", a) EXCEPT !.left = Retries, !.blame = blame])}
    ELSE GivenUp(a, plain)
ViaSelected(blame, plain) ==
    IF active = None THEN ViaPool(plain, ratings) ELSE ViaAddr(active, blame, plain)
\* _connect_by_route of a route that is not an unusable custom proxy; one that
\* is the default recurses until the stack is exhausted.
TakenBy(route, plain) ==
    CASE route.kind = "direct" -> {DirectLeg}
      [] route.kind = "custom" ->
            {Plain(IF customs[route.to] = "on"
                   THEN [Leg("custom", route.to) EXCEPT !.left = Retries] ELSE Crash)}
      [] route.kind = "proxy" -> ViaAddr(route.to, route.to, plain)
      [] route.kind = "selected" -> ViaSelected(active, plain)
      [] route.kind = "pool" -> ViaPool(plain, ratings)
      [] OTHER -> IF directMode THEN {DirectLeg} ELSE ViaSelected("active", plain)
Effective(route) ==
    IF route.kind = "custom" /\ customs[route.to] # "on" THEN config.default ELSE route
Taken(route, plain) == TakenBy(Effective(route), plain)

\* ---- a connection ----

\* What the tables allow a request, for CarriedAsRouted: the route they hold
\* (the memo's behind a restore), and the pool where a failure may end there.
AsWay(route) ==
    CASE route.kind = "selected" ->
            IF active = None THEN Pool ELSE [kind |-> "proxy", to |-> active]
      [] route.kind = "unknown" ->
            IF directMode THEN Direct
            ELSE IF active = None THEN Pool ELSE [kind |-> "proxy", to |-> active]
      [] OTHER -> route
Allowed(host, memo) ==
    {AsWay(Effective(TestRoute(host, directMode, active)))}
        \cup (IF "route" \in behind
              THEN {AsWay(Effective(Resolve(memo, host, directMode, active)))} ELSE {})
        \cup (IF config.fallback THEN {Pool} ELSE {})
WayOf(leg) ==
    IF leg.mode \in {"direct", "channel"} THEN Direct
    ELSE IF leg.mode = "pool" THEN Pool
    ELSE [kind |-> IF leg.mode = "addr" THEN "proxy" ELSE leg.mode, to |-> leg.to]

Apply(o) == /\ ratings' = o.ratings
            /\ policyCache' = o.policy
            /\ channelCache' = o.chan
\* What a step leaves alone, and the memos it has read anew.
KeepTables ==
    /\ behind' = {m \in behind : IF m = "route" THEN cache' \notin {None, Built}
                                 ELSE policyCache' \notin {None, config.policy}}
    /\ UNCHANGED <<config, lists, customs, channel, backup, edits, selection>>
ProceedAnyway(c, r, o) == \* mutated
    /\ conn' = [conn EXCEPT ![c] =
          IF o.leg.mode \notin {"none", "crash"} THEN [r EXCEPT !.pc = "try", !.leg = o.leg]
          ELSE IF r.headed THEN [r EXCEPT !.pc = "pause", !.leg = NoLeg]
          ELSE Idle]
    /\ Apply(o)
\* The coroutine goes on with the leg of an outcome. Without one, a forwarded
\* request without a body is replayed, an intercepted connection is made
\* directly if the interception's settings allow it (_fallback_direct), and any
\* other is refused.
Proceed(c, r, o) ==
    \/ /\ o.leg.mode \notin {"none", "crash"}
       /\ conn' = [conn EXCEPT ![c] = [r EXCEPT !.pc = "try", !.leg = o.leg]]
       /\ Apply(o)
    \/ /\ o.leg.mode = "none" /\ r.again > 0
       /\ conn' = [conn EXCEPT ![c] = [r EXCEPT !.pc = "pause", !.again = @ - 1, !.leg = NoLeg]]
       /\ Apply(o)
    \/ /\ o.leg.mode = "none" /\ r.spare = "left"
       /\ LET d == DirectLeg IN
          /\ conn' = [conn EXCEPT ![c] =
                IF d.leg.mode = "none" THEN Idle
                ELSE [r EXCEPT !.pc = "try", !.leg = d.leg, !.spare = "used"]]
          /\ Apply([o EXCEPT !.chan = d.chan])
    \/ /\ o.leg.mode = "crash" \/ (o.leg.mode = "none" /\ r.again = 0)
       /\ conn' = [conn EXCEPT ![c] = Idle]
       /\ Apply(o)
\* _connect_upstream, up to its first await.
Connect(c, r) ==
    \E memo \in CacheReads :
        /\ cache' = memo
        /\ \E o \in Taken(Resolve(memo, r.host, directMode, active), r.plain) :
              Proceed(c, [r EXCEPT !.may = @ \cup Allowed(r.host, memo)], o)

\* The request has been read: _connect_upstream is called. HTTP is tunnelled
\* (CONNECT) or forwarded; only what has no body is ever replayed.
HttpRequest(c, host, form) ==
    /\ conn[c].pc = "idle"
    /\ Connect(c, [Idle EXCEPT !.host = host, !.plain = form # "tunnel", !.headed = form # "tunnel",
                               !.again = IF form = "get" THEN Replays ELSE 0])
    /\ KeepTables
Socks5Request(c, host) ==
    /\ conn[c].pc = "idle"
    /\ Connect(c, [Idle EXCEPT !.host = host])
    /\ KeepTables
\* A redirected connection; `plain` when the peek at a destination in auto mode
\* found HTTP.
Intercepted(c, host, plain) ==
    /\ conn[c].pc = "idle"
    /\ Connect(c, [Idle EXCEPT !.host = host, !.plain = plain, !.spare = "left"])
    /\ KeepTables
\* The pause before the replay is over: the route is resolved again.
Replay(c) ==
    /\ conn[c].pc = "pause"
    /\ Connect(c, conn[c])
    /\ KeepTables
AttemptFails(c, how) ==
    /\ conn[c].pc = "try"
    /\ LET leg == conn[c].leg
           blame == IF leg.blame = "active" THEN active ELSE leg.blame IN
       \E o \in IF leg.left > 1 /\ how = "dead" THEN {Plain([leg EXCEPT !.left = @ - 1])}
                ELSE IF leg.mode = "addr" THEN GivenUp(blame, conn[c].plain)
                ELSE IF leg.rest # <<>>
                     THEN {Plain([leg EXCEPT !.to = Head(leg.rest), !.rest = Tail(leg.rest)])}
                ELSE {Plain(NoLeg)} :
          Proceed(c, conn[c], o)
    /\ UNCHANGED cache /\ KeepTables
\* The tunnel stands: the client is told and the relay begins; a forwarded
\* request is sent and its answer awaited.
Connected(c) ==
    /\ conn[c].pc = "try"
    /\ conn' = [conn EXCEPT ![c].pc = IF conn[c].headed THEN "sent" ELSE "relay"]
    /\ UNCHANGED <<routingVars, selection>>
HeadArrives(c) ==
    /\ conn[c].pc = "sent"
    /\ conn' = [conn EXCEPT ![c].pc = "relay"]
    /\ UNCHANGED <<routingVars, selection>>
\* The upstream dies before its head is complete, or the client before it is written.
HeadFails(c) ==
    /\ conn[c].pc = "sent"
    /\ Proceed(c, conn[c], Plain(NoLeg))
    /\ UNCHANGED cache /\ KeepTables
RelayEnds(c) ==
    /\ conn[c].pc = "relay"
    /\ conn' = [conn EXCEPT ![c] = Idle]
    /\ UNCHANGED <<routingVars, selection>>

\* ---- the operator and the checks ----

\* select: an address without a rating gets one as if it had just been checked.
Select(a) ==
    /\ Edit
    /\ active' = a
    /\ ratings' = IF a # None /\ ratings[a] = None
                  THEN [ratings EXCEPT ![a] = [status |-> "ok", fails |-> 0, black |-> FALSE]]
                  ELSE ratings
    /\ UNCHANGED <<config, lists, customs, cache, policyCache, channel, channelCache, backup,
                   behind, directMode, conn>>
\* The button "next": a proxy of the pool other than the selected one.
SelectNext(a) ==
    /\ ratings[a] # None /\ ~ratings[a].black
    /\ ratings[a].status = "ok" \/ InGrace(a, ratings)
    /\ a # active
    /\ Select(a)
DirectSwitch(on) ==
    /\ Edit
    /\ directMode' = on
    /\ active' = IF on THEN None ELSE active
    /\ UNCHANGED <<config, lists, customs, ratings, cache, policyCache, channel, channelCache,
                   backup, behind, conn>>
\* blacklist_add and blacklist_remove, of an address with a rating.
Blacklist(a, black) ==
    /\ Edit
    /\ ratings[a] # None
    /\ ratings' = [ratings EXCEPT ![a].black = black]
    /\ UNCHANGED <<config, lists, customs, cache, policyCache, channel, channelCache, backup,
                   behind, selection, conn>>
\* _update_rating with the result of a check.
CheckResult(a, ok) ==
    /\ Edit
    /\ ratings[a] # None
    /\ ratings' = [ratings EXCEPT
          ![a].status = IF ok THEN "ok" ELSE "failed",
          ![a].fails = IF ok THEN 0 ELSE IF @ < GraceFails THEN @ + 1 ELSE @]
    /\ UNCHANGED <<config, lists, customs, cache, policyCache, channel, channelCache, backup,
                   behind, selection, conn>>
\* A connection of the engine itself, or the status of the channel, resolves it.
EngineConnects ==
    /\ ChannelIsSet
    /\ channelCache' = ChannelCached
    /\ UNCHANGED <<config, lists, customs, ratings, cache, policyCache, channel, backup,
                   behind, edits, selection, conn>>
\* A change of the routes; whoever is under way may now find the fallback open.
EditTables ==
    /\ EditRoutes
    /\ conn' = [c \in Conns |->
          IF conn[c].pc # "idle" /\ config'.fallback
          THEN [conn[c] EXCEPT !.may = @ \cup {Pool}] ELSE conn[c]]
    /\ UNCHANGED selection

Init ==
    /\ ratings \in InitRatings
    /\ active \in {None} \cup {a \in Addrs : ratings[a] # None}
    /\ directMode = FALSE
    /\ conn = [c \in Conns |-> Idle]
    /\ RoutingInit(InitConfigs, InitLists)

\* How an attempt may fail: the proxy is dead or breaks off the handshake, which
\* is tried again, or it refuses the target.
Failures == {"dead", "refused"}
Step(c) ==
    \/ Replay(c)
    \/ \E how \in Failures : AttemptFails(c, how)
    \/ Connected(c) \/ HeadArrives(c) \/ HeadFails(c)
Next ==
    \/ \E c \in Conns :
          \/ \E h \in Hosts :
                \/ \E form \in Forms : HttpRequest(c, h, form)
                \/ Socks5Request(c, h)
                \/ \E plain \in BOOLEAN : Intercepted(c, h, plain)
          \/ Step(c) \/ RelayEnds(c)
    \/ \E a \in Addrs \cup {None} : Select(a)
    \/ \E a \in Addrs : \/ SelectNext(a)
                        \/ \E b \in BOOLEAN : Blacklist(a, b) \/ CheckResult(a, b)
    \/ \E on \in BOOLEAN : DirectSwitch(on)
    \/ EngineConnects
    \/ EditTables

\* Every await of a connection has a timeout (5 s to the proxy, 15 to 30 s for
\* the handshake and the response head), and every pause ends.
Fairness == \A c \in Conns : WF_vars(Step(c))
Spec == Init /\ [][Next]_vars /\ Fairness

-------------------------------------------------------------------------------
TypeOK ==
    /\ config \in Configs /\ Listing(lists)
    /\ customs \in [Customs -> {"on", "off", "absent"}]
    /\ ratings \in Ratings
    /\ policyCache \in Policies \cup {None}
    /\ channel \in Route \cup {NoRoute} /\ channelCache.proxy \in Addrs \cup Customs \cup {None}
    /\ behind \subseteq {"route", "policy"} /\ edits \in 0 .. MaxEdits
    /\ active \in Addrs \cup {None} /\ directMode \in BOOLEAN
    /\ \A c \in Conns :
          /\ conn[c].pc \in {"idle", "try", "sent", "pause", "relay"}
          /\ conn[c].leg.mode \in {"none", "direct", "channel", "custom", "addr", "pool"}
          /\ conn[c].leg.left \in 1 .. Retries /\ conn[c].again \in 0 .. Replays
          /\ conn[c].leg.rest \in Seq(Addrs) /\ conn[c].may \subseteq Route

\* Traffic goes only where the tables, as they stood when it was routed, let it:
\* through retries, replays, failed proxies, the selection and the memos, no
\* connection ends in the pool or goes out directly unless its route or the
\* fallback switch says so ("strict" mode, routing_set_fallback). The direct
\* attempt for a refused interception has a switch of its own.
CarriedAsRouted ==
    \A c \in Conns :
        conn[c].pc \in {"try", "sent", "relay"} /\ conn[c].spare # "used" =>
            WayOf(conn[c].leg) \in conn[c].may

\* While a channel is set, no connection of a client is opened past it: not one
\* made directly, however it came to be (_connect_direct), by a channel changed
\* before it began.
NeverPastChannel ==
    [][\A c \in Conns :
          conn'[c].leg.mode = "direct" /\ conn'[c].leg # conn[c].leg => ~ChannelIsSet]_vars

\* A channel whose proxy is disabled, deleted or blacklisted raises an error
\* instead of carrying anything (_outbound_connect).
ChannelFailsClosed ==
    [][\A c \in Conns :
          conn'[c].leg.mode = "channel" /\ conn'[c].leg # conn[c].leg =>
              conn'[c].leg.to = ChannelProxy(channel)]_vars

\* Every client gets its answer, a tunnel or a refusal: dead proxies, replays
\* and the fallbacks end, whatever the operator changes meanwhile.
AnswersEveryRequest ==
    \A c \in Conns : conn[c].pc \in {"try", "sent", "pause"} ~> conn[c].pc \in {"idle", "relay"}
===============================================================================
