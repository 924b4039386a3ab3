---------------------------- MODULE UpstreamProofs ----------------------------
(* Theorems about Upstream, for any lists, routes, proxies and connections.  *)
(* First the lookup: the compiled routes of a memo name the list that the    *)
(* tables name (Match).  Then the memos, which a change of the tables leaves *)
(* empty or behind (Current).  Last the connections: a way that is taken is   *)
(* one the tables allow (TakenAllowed), and stays so until it is given up.    *)
EXTENDS Upstream, FiniteSetTheorems, SequenceTheorems, WellFoundedInduction, TLAPS

-----------------------------------------------------------------------------
(* Numbers.                                                                *)

\* A set of numbers that is not empty has a least one.
LEMMA Least ==
    ASSUME NEW S \in SUBSET Nat, S # {}
    PROVE  \E x \in S : \A y \in S : x <= y
<1>1. PICK x \in S : \A y \in S : ~(<<y, x>> \in OpToRel(<, Nat))
  BY NatLessThanWellFounded, WFMin
<1>2. \A y \in S : ~(y < x)
  BY <1>1 DEF OpToRel
<1>. QED
  BY <1>2

\* A finite one has a greatest one.
LEMMA Greatest ==
    ASSUME NEW S \in SUBSET Nat, IsFiniteSet(S), S # {}
    PROVE  \E x \in S : \A y \in S : y <= x
<1>. DEFINE HasMax(T) == \E x \in T : \A y \in T : y <= x
            Bad == {n \in Nat : \E T \in SUBSET Nat :
                        IsFiniteSet(T) /\ Cardinality(T) = n /\ T # {} /\ ~HasMax(T)}
<1>1. Bad = {}
  <2>. SUFFICES ASSUME Bad # {} PROVE FALSE
    OBVIOUS
  <2>1. PICK n \in Bad : \A m \in Bad : n <= m
    BY Least
  <2>2. PICK T \in SUBSET Nat : IsFiniteSet(T) /\ Cardinality(T) = n /\ T # {} /\ ~HasMax(T)
    BY <2>1
  <2>3. PICK x \in T : TRUE
    BY <2>2
  <2>4. IsFiniteSet(T \ {x}) /\ Cardinality(T \ {x}) = n - 1
    BY <2>2, <2>3, FS_RemoveElement
  <2>5. n - 1 \in Nat
    BY <2>4, FS_CardinalityType
  <2>6. CASE T \ {x} = {}
    BY <2>2, <2>3, <2>6
  <2>7. CASE T \ {x} # {}
    <3>1. n - 1 \notin Bad
      BY <2>1, <2>5
    <3>2. HasMax(T \ {x})
      BY <2>2, <2>4, <2>5, <2>7, <3>1
    <3>3. PICK y \in T \ {x} : \A z \in T \ {x} : z <= y
      BY <3>2
    <3>4. x \in Nat /\ y \in Nat
      BY <2>2, <2>3, <3>3
    <3>5. \A z \in T : z <= IF x <= y THEN y ELSE x
      BY <2>2, <3>3, <3>4
    <3>. QED
      BY <2>2, <2>3, <3>3, <3>5
  <2>. QED
    BY <2>6, <2>7
<1>2. Cardinality(S) \in Nat
  BY FS_CardinalityType
<1>. QED
  BY <1>1, <1>2

\* The next priority, and the next row, is above all there are.
LEMMA AboveAll ==
    ASSUME NEW S \in SUBSET Nat, IsFiniteSet(S)
    PROVE  1 + Max0(S) \in Nat /\ \A x \in S : x < 1 + Max0(S)
<1>1. CASE S = {}
  BY <1>1 DEF Max0
<1>2. CASE S # {}
  <2>1. \E x \in S : \A y \in S : y <= x
    BY <1>2, Greatest
  <2>2. Max0(S) \in S /\ \A y \in S : y <= Max0(S)
    BY <1>2, <2>1 DEF Max0
  <2>3. PICK m \in Nat : m = Max0(S) /\ \A y \in S : y <= m
    BY <2>2
  <2>. QED
    BY <2>3
<1>. QED
  BY <1>1, <1>2

-----------------------------------------------------------------------------
(* The first list that matches.                                            *)

\* Lists that can be put in an order.
Ordered(S) ==
    /\ \A x \in S : x.pri \in Nat /\ x.row \in Nat
    /\ \A x, y \in S : x.row = y.row => x = y

LEMMA First ==
    ASSUME NEW S, S # {}, Ordered(S)
    PROVE  FirstOf(S) \in S /\ \A y \in S : FirstOf(S) = y \/ Before(FirstOf(S), y)
<1>1. PICK p \in {x.pri : x \in S} : \A q \in {x.pri : x \in S} : p <= q
  <2>1. {x.pri : x \in S} \in SUBSET Nat /\ {x.pri : x \in S} # {}
    BY DEF Ordered
  <2>. QED
    BY <2>1, Least
<1>. DEFINE P == {x \in S : x.pri = p}
<1>2. PICK r \in {x.row : x \in P} : \A q \in {x.row : x \in P} : r <= q
  <2>1. {x.row : x \in P} \in SUBSET Nat /\ {x.row : x \in P} # {}
    BY <1>1 DEF Ordered
  <2>. QED
    BY <2>1, Least
<1>3. PICK x \in P : x.row = r
  BY <1>2
<1>4. ASSUME NEW y \in S PROVE x = y \/ Before(x, y)
  <2>1. x.pri <= y.pri /\ x.pri \in Nat /\ y.pri \in Nat /\ x.row \in Nat /\ y.row \in Nat
    BY <1>1, <1>3 DEF Ordered
  <2>2. CASE y.pri = x.pri
    <3>1. y \in P
      BY <1>3, <2>2
    <3>2. x.row <= y.row
      BY <1>2, <1>3, <3>1
    <3>3. x.row = y.row => x = y
      BY <1>3 DEF Ordered
    <3>. QED
      BY <2>1, <2>2, <3>2, <3>3 DEF Before
  <2>3. CASE y.pri # x.pri
    BY <2>1, <2>3 DEF Before
  <2>. QED
    BY <2>2, <2>3
<1>. QED
  BY <1>3, <1>4 DEF FirstOf

-----------------------------------------------------------------------------
(* The lookup.                                                             *)

\* The memo and the tables name the same lists for a host.
LEMMA Match ==
    ASSUME Listing(lists), NEW host, NEW directMode0, NEW active0
    PROVE  Resolve(Built, host, directMode0, active0) = TestRoute(host, directMode0, active0)
<1>. DEFINE hits == {l \in Consulted : DomainMatches(host, lists[l].patterns)}
            compiled == Hits(Built, host)
            plain == {lists[l] : l \in hits}
<1>1. CASE ~config.enabled
  BY <1>1 DEF Resolve, TestRoute, Built
<1>2. CASE config.enabled
  <2>1. \A l \in Lists : (\/ host \in Compile(l).exact
                          \/ Domains(host) \cap Compile(l).suffixes # {})
                         <=> DomainMatches(host, lists[l].patterns)
    BY DEF Compile, DomainMatches
  <2>2. Built.lists = {Compile(l) : l \in Consulted}
    BY <1>2 DEF Built
  <2>3. compiled = {Compile(l) : l \in hits}
    BY <2>1, <2>2 DEF Hits, Consulted, Rows
  <2>4. CASE hits = {}
    <3>1. Resolve(Built, host, directMode0, active0) = config.default
      BY <1>2, <2>3, <2>4 DEF Resolve, Built
    <3>2. TestRoute(host, directMode0, active0) = config.default
      BY <1>2, <2>4 DEF TestRoute
    <3>. QED
      BY <3>1, <3>2
  <2>5. CASE hits # {}
    <3>1. \A l \in hits : l \in Lists /\ lists[l] \in ListRows
      BY DEF Consulted, Rows, Listing
    <3>2. \A l \in hits : /\ Compile(l).pri = lists[l].pri /\ Compile(l).row = lists[l].row
                          /\ Compile(l).route = lists[l].route
      BY DEF Compile
    <3>3. \A l, m \in hits : lists[l].row = lists[m].row => l = m
      BY DEF Consulted, Rows, Listing
    <3>4. Ordered(plain)
      BY <3>1, <3>3 DEF Ordered, ListRows
    <3>5. Ordered(compiled)
      BY <2>3, <3>1, <3>2, <3>3 DEF Ordered, ListRows
    <3>6. PICK l \in hits : FirstOf(plain) = lists[l]
                            /\ \A y \in plain : FirstOf(plain) = y \/ Before(FirstOf(plain), y)
      <4>1. plain # {}
        BY <2>5
      <4>2. /\ FirstOf(plain) \in plain
            /\ \A y \in plain : FirstOf(plain) = y \/ Before(FirstOf(plain), y)
        BY <3>4, <4>1, First
      <4>. QED
        BY <4>2
    <3>7. PICK m \in hits :
            /\ FirstOf(compiled) = Compile(m)
            /\ \A y \in compiled : FirstOf(compiled) = y \/ Before(FirstOf(compiled), y)
      <4>1. compiled # {}
        BY <2>3, <2>5
      <4>2. /\ FirstOf(compiled) \in compiled
            /\ \A y \in compiled : FirstOf(compiled) = y \/ Before(FirstOf(compiled), y)
        BY <3>5, <4>1, First
      <4>. QED
        BY <2>3, <4>2
    <3>8. l = m
      <4>. SUFFICES ASSUME l # m PROVE FALSE
        OBVIOUS
      <4>1. lists[l].row # lists[m].row
        BY <3>3
      <4>2. Before(lists[l], lists[m])
        BY <3>6, <4>1
      <4>3. Before(Compile(m), Compile(l))
        BY <2>3, <3>2, <3>7, <4>1
      <4>4. /\ lists[l].pri \in Nat /\ lists[l].row \in Nat
            /\ lists[m].pri \in Nat /\ lists[m].row \in Nat
        BY <3>1 DEF ListRows
      <4>. QED
        BY <3>2, <4>2, <4>3, <4>4 DEF Before
    <3>9. Resolve(Built, host, directMode0, active0) = FirstOf(compiled).route
      <4>1. compiled # {}
        BY <2>3, <2>5
      <4>. QED
        BY <1>2, <4>1 DEF Resolve, Built
    <3>10. TestRoute(host, directMode0, active0) = FirstOf(plain).route
      BY <1>2, <2>5 DEF TestRoute
    <3>. QED
      BY <3>2, <3>6, <3>7, <3>8, <3>9, <3>10
  <2>. QED
    BY <2>4, <2>5
<1>. QED
  BY <1>1, <1>2

\* The cases of a route.
LEMMA TakenCases ==
    ASSUME NEW route, NEW plain
    PROVE  /\ route.kind = "direct" => TakenBy(route, plain) = {DirectLeg}
           /\ route.kind = "proxy" => TakenBy(route, plain) = ViaAddr(route.to, route.to, plain)
           /\ route.kind = "selected" => TakenBy(route, plain) = ViaSelected(active, plain)
           /\ route.kind = "pool" => TakenBy(route, plain) = ViaPool(plain, ratings)
           /\ route.kind = "unknown" =>
                TakenBy(route, plain) =
                    IF directMode THEN {DirectLeg} ELSE ViaSelected("active", plain)
           /\ route.kind = "custom" =>
                TakenBy(route, plain) =
                    {Plain(IF customs[route.to] = "on"
                           THEN [Leg("custom", route.to) EXCEPT !.left = Retries] ELSE Crash)}
BY Zenon DEF TakenBy

LEMMA WayCases ==
    ASSUME NEW route
    PROVE  /\ route.kind \in {"direct", "custom", "proxy", "pool"} => AsWay(route) = route
           /\ route.kind = "selected" =>
                AsWay(route) = IF active = None THEN Pool ELSE [kind |-> "proxy", to |-> active]
           /\ route.kind = "unknown" =>
                AsWay(route) = IF directMode THEN Direct
                               ELSE IF active = None THEN Pool
                               ELSE [kind |-> "proxy", to |-> active]
BY Zenon DEF AsWay

-----------------------------------------------------------------------------
(* Types.                                                                  *)

Targets == Addrs \cup Customs \cup {None}
Legs == [mode: {"none", "crash", "direct", "channel", "custom", "addr", "pool"}, to: Targets,
         left: 1 .. Retries, rest: Seq(Addrs), blame: Addrs \cup {None, "active"}]
\* A leg of a connection: only the pool has more proxies to try, and what goes
\* to the destination itself is tried once.
Straight(leg) ==
    /\ leg.rest # <<>> => leg.mode = "pool"
    /\ leg.mode \in {"direct", "channel"} => leg.left = 1
Coroutines ==
    [pc: {"idle", "try", "sent", "pause", "relay"}, host: Hosts \cup {<<>>}, plain: BOOLEAN,
     headed: BOOLEAN, again: 0 .. Replays, spare: {"none", "left", "used"},
     leg: {leg \in Legs : leg.mode # "crash" /\ Straight(leg)}, may: SUBSET Route]
Chans == [route: Route \cup {NoRoute}, proxy: Targets]
Outcomes == [leg: Legs, ratings: Ratings, policy: Policies \cup {None}, chan: Chans]
MemoOK(memo) ==
    /\ memo.enabled \in BOOLEAN /\ memo.default \in Route /\ Ordered(memo.lists)
    /\ \A x \in memo.lists : x.route \in Route
TablesOK ==
    /\ config \in Configs /\ Listing(lists)
    /\ backup # None => backup.config \in Configs /\ Listing(backup.lists)
    /\ customs \in [Customs -> {"on", "off", "absent"}]
    /\ channel \in Route \cup {NoRoute}
    /\ edits \in 0 .. MaxEdits
MemosOK ==
    /\ cache # None => MemoOK(cache)
    /\ policyCache \in Policies \cup {None} /\ channelCache \in Chans
    /\ behind \subseteq {"route", "policy"}
ChoicesOK ==
    /\ ratings \in Ratings /\ active \in Addrs \cup {None} /\ directMode \in BOOLEAN
Typed == TablesOK /\ MemosOK /\ ChoicesOK /\ conn \in [Conns -> Coroutines]

\* What the compiled routes are made of.
LEMMA BuiltOK == TablesOK => MemoOK(Built)
<1>. SUFFICES ASSUME TablesOK PROVE MemoOK(Built)
  OBVIOUS
<1>1. config.enabled \in BOOLEAN /\ config.default \in Route
  BY DEF TablesOK, Configs
<1>2. \A l \in Consulted : l \in Lists /\ lists[l] \in ListRows /\ lists[l].route \in Route
  BY DEF Consulted, Rows, TablesOK, Listing, ListRows
<1>3. \A l \in Consulted : /\ Compile(l).pri = lists[l].pri /\ Compile(l).row = lists[l].row
                           /\ Compile(l).route = lists[l].route
  BY DEF Compile
<1>4. Ordered({Compile(l) : l \in Consulted})
  <2>1. \A l, m \in Consulted : lists[l].row = lists[m].row => l = m
    BY DEF Consulted, Rows, TablesOK, Listing
  <2>. QED
    BY <1>2, <1>3, <2>1 DEF Ordered, ListRows
<1>5. Ordered({})
  BY DEF Ordered
<1>. QED
  BY <1>1, <1>2, <1>3, <1>4, <1>5 DEF MemoOK, Built

\* Every lookup ends in a route.
LEMMA RouteFound ==
    ASSUME NEW memo, MemoOK(memo), NEW host, active \in Addrs \cup {None}
    PROVE  Resolve(memo, host, directMode, active) \in Route
<1>1. CASE ~memo.enabled
  BY <1>1 DEF Resolve, Route, Direct, Pool
<1>2. CASE memo.enabled /\ Hits(memo, host) = {}
  BY <1>2 DEF Resolve, MemoOK
<1>3. CASE memo.enabled /\ Hits(memo, host) # {}
  <2>1. Hits(memo, host) \subseteq memo.lists
    BY DEF Hits
  <2>2. Ordered(Hits(memo, host))
    BY <2>1 DEF MemoOK, Ordered
  <2>3. FirstOf(Hits(memo, host)) \in memo.lists
    BY <1>3, <2>1, <2>2, First
  <2>. QED
    BY <1>3, <2>3 DEF Resolve, MemoOK
<1>. QED
  BY <1>1, <1>2, <1>3 DEF MemoOK

LEMMA EffectiveRoute ==
    ASSUME TablesOK, NEW route \in Route
    PROVE  Effective(route) \in Route
BY DEF Effective, TablesOK, Configs

LEMMA WayIsRoute ==
    ASSUME NEW route \in Route, active \in Addrs \cup {None}
    PROVE  AsWay(route) \in Route
<1>1. route.kind \in {"direct", "custom", "proxy", "pool", "selected", "unknown"}
  BY DEF Route
<1>2. Pool \in Route /\ Direct \in Route
  BY DEF Pool, Direct, Route
<1>3. active # None => [kind |-> "proxy", to |-> active] \in Route
  BY DEF Route
<1>. QED
  BY <1>1, <1>2, <1>3, WayCases

-----------------------------------------------------------------------------
(* Outcomes.                                                               *)

\* An outcome is a leg begun as the channel allows, with memos that are read anew.
Fresh(o) ==
    /\ o \in Outcomes /\ o.policy \in {policyCache, config.policy}
    /\ Straight(o.leg) /\ (o.leg.mode = "direct" => ~ChannelIsSet)
\* Its way, if it has one, is one of these.
Way(o, ways) == o.leg.mode \in {"none", "crash"} \/ WayOf(o.leg) \in ways
Fallbacks == IF config.fallback THEN {Pool} ELSE {}

\* A new leg.
LEMMA NewLeg ==
    ASSUME NEW to \in Targets, NEW mode \in {"none", "crash", "direct", "channel", "custom", "addr", "pool"}
    PROVE  Leg(mode, to) \in Legs /\ Straight(Leg(mode, to)) /\ Leg(mode, to).mode = mode
<1>1. <<>> \in Seq(Addrs) /\ 1 \in 1 .. Retries
  BY UpstreamAssumption
<1>. QED
  BY <1>1 DEF Leg, Legs, Straight

LEMMA SequenceOf ==
    ASSUME NEW k \in Nat, NEW S \in SUBSET Addrs, NEW x \in [1 .. k -> S]
    PROVE  x \in Seq(Addrs) /\ Len(x) = k
OBVIOUS

LEMMA SubSequence ==
    ASSUME NEW s \in Seq(Addrs), NEW n \in Nat, n <= Len(s)
    PROVE  SubSeq(s, 1, n) \in Seq(Addrs)
<1>1. \A i \in 1 .. n : s[i] \in Addrs
  OBVIOUS
<1>. QED
  BY <1>1, SubSeqProperties

\* The proxies of the pool in any order.
LEMMA PoolSequence ==
    ASSUME NEW a, NEW rs, NEW policy, NEW s \in PoolOrders(a, rs, policy)
    PROVE  s \in Seq(Addrs)
<1>. DEFINE some == {b \in Addrs : Eligible(b, a, rs, policy)}
            live == {b \in some : rs[b].status = "ok"}
            n == IF Cardinality(some) < PoolTries THEN Cardinality(some) ELSE PoolTries
<1>1. IsFiniteSet(some)
  BY RoutingAssumption, FS_Subset
<1>2. IsFiniteSet(live) /\ IsFiniteSet(some \ live)
  BY <1>1, FS_Subset
<1>3. Cardinality(some \ live) = Cardinality(some) - Cardinality(live)
  <2>1. some \cap live = live
    OBVIOUS
  <2>. QED
    BY <1>1, <2>1, FS_Difference
<1>4. /\ Cardinality(some) \in Nat /\ Cardinality(live) \in Nat
      /\ Cardinality(some \ live) \in Nat
  BY <1>1, <1>2, FS_CardinalityType
<1>5. PICK x \in SetToSeqs(live), y \in SetToSeqs(some \ live) : s = SubSeq(x \o y, 1, n)
  <2>1. PoolOrders(a, rs, policy) =
            UNION {{SubSeq(x \o y, 1, n) : x \in SetToSeqs(live)} : y \in SetToSeqs(some \ live)}
    BY Zenon DEF PoolOrders
  <2>. HIDE DEF n, live, some
  <2>. QED
    BY <2>1
<1>6. x \in Seq(Addrs) /\ Len(x) = Cardinality(live)
  <2>1. x \in [1 .. Cardinality(live) -> live]
    BY DEF SetToSeqs
  <2>. QED
    BY <1>4, <2>1, SequenceOf
<1>7. y \in Seq(Addrs) /\ Len(y) = Cardinality(some \ live)
  <2>1. y \in [1 .. Cardinality(some \ live) -> some \ live]
    BY DEF SetToSeqs
  <2>. QED
    BY <1>4, <2>1, SequenceOf
<1>8. x \o y \in Seq(Addrs) /\ Len(x \o y) = Cardinality(some)
  BY <1>3, <1>4, <1>6, <1>7, ConcatProperties
<1>9. n \in Nat /\ n <= Cardinality(some)
  BY <1>4, UpstreamAssumption
<1>10. \A i \in 1 .. n : (x \o y)[i] \in Addrs
  BY <1>4, <1>8, <1>9
<1>. HIDE DEF n
<1>11. SubSeq(x \o y, 1, n) \in Seq(Addrs)
  BY <1>4, <1>8, <1>9, SubSequence
<1>. QED
  BY <1>5, <1>11

LEMMA ViaPoolFresh ==
    ASSUME Typed, NEW rs \in Ratings, NEW plain, NEW o \in ViaPool(plain, rs)
    PROVE  Fresh(o) /\ o.ratings = rs /\ Way(o, {Pool})
<1>. PICK p \in PolicyReads : \E leg \in PoolLegs(plain, rs, p) : o = Outcome(leg, rs, p, channelCache)
  BY DEF ViaPool
<1>1. PICK leg \in PoolLegs(plain, rs, p) : o = Outcome(leg, rs, p, channelCache)
  OBVIOUS
<1>2. p \in {policyCache, config.policy} /\ p \in Policies \cup {None}
  BY DEF PolicyReads, Typed, MemosOK, TablesOK, Configs
<1>3. leg \in Legs /\ Straight(leg) /\ leg.mode \in {"none", "pool"}
  <2>1. PICK s \in PoolOrders(plain, rs, p) :
            leg = IF s = <<>> THEN NoLeg ELSE [Leg("pool", s[1]) EXCEPT !.rest = Tail(s)]
    BY <1>1 DEF PoolLegs
  <2>2. CASE s = <<>>
    BY <2>1, <2>2, NewLeg DEF NoLeg, Targets
  <2>3. CASE s # <<>>
    <3>1. s \in Seq(Addrs)
      BY PoolSequence
    <3>2. s[1] \in Addrs /\ Tail(s) \in Seq(Addrs)
      BY <2>3, <3>1, HeadTailProperties
    <3>3. /\ Leg("pool", s[1]) \in Legs /\ Leg("pool", s[1]).mode = "pool"
      BY <3>2, NewLeg DEF Targets
    <3>. QED
      BY <2>1, <2>3, <3>2, <3>3 DEF Legs, Straight
  <2>. QED
    BY <2>2, <2>3
<1>4. leg.mode = "pool" => WayOf(leg) = Pool
  BY DEF WayOf
<1>5. channelCache \in Chans
  BY DEF Typed, MemosOK
<1>6. /\ o.leg = leg /\ o.ratings = rs /\ o.policy = p /\ o.chan = channelCache
      /\ o \in Outcomes
  BY <1>1, <1>2, <1>3, <1>5 DEF Outcome, Outcomes
<1>. QED
  BY <1>2, <1>3, <1>4, <1>6 DEF Fresh, Way

LEMMA PlainFresh ==
    ASSUME Typed, NEW leg \in Legs, Straight(leg), leg.mode = "direct" => ~ChannelIsSet
    PROVE  Fresh(Plain(leg)) /\ Plain(leg).leg = leg
<1>1. Plain(leg) \in Outcomes /\ Plain(leg).leg = leg /\ Plain(leg).policy = policyCache
  BY DEF Plain, Outcome, Outcomes, Typed, MemosOK, ChoicesOK
<1>. QED
  BY <1>1 DEF Fresh

LEMMA BlamedRatings ==
    ASSUME ChoicesOK, NEW a \in Addrs \cup {None}
    PROVE  Blamed(a) \subseteq Ratings
<1>. SUFFICES ASSUME NEW rs \in Blamed(a) PROVE rs \in Ratings
  OBVIOUS
<1>1. CASE a = None \/ ratings[a] = None
  BY <1>1 DEF Blamed, ChoicesOK
<1>2. CASE ~(a = None \/ ratings[a] = None)
  <2>1. a \in Addrs /\ ratings[a] \in [status: {"ok", "failed"}, fails: 0 .. GraceFails, black: BOOLEAN]
    BY <1>2 DEF ChoicesOK, Ratings
  <2>2. PICK n \in {0, 1} :
            rs = [ratings EXCEPT ![a].status = "failed",
                                 ![a].fails = IF @ < GraceFails THEN @ + n ELSE @]
    BY <1>2 DEF Blamed
  <2>3. (IF ratings[a].fails < GraceFails THEN ratings[a].fails + n ELSE ratings[a].fails)
            \in 0 .. GraceFails
    BY <2>1, UpstreamAssumption
  <2>. QED
    BY <2>1, <2>2, <2>3 DEF ChoicesOK, Ratings
<1>. QED
  BY <1>1, <1>2

LEMMA GivenUpFresh ==
    ASSUME Typed, NEW a \in Addrs \cup {None}, NEW plain, NEW o \in GivenUp(a, plain)
    PROVE  Fresh(o) /\ Way(o, Fallbacks)
<1>1. PICK rs \in Blamed(a) :
        o \in IF config.fallback THEN ViaPool(plain, rs)
              ELSE {Outcome(NoLeg, rs, policyCache, channelCache)}
  BY DEF GivenUp
<1>2. rs \in Ratings
  BY BlamedRatings DEF Typed
<1>3. CASE config.fallback
  BY <1>1, <1>2, <1>3, ViaPoolFresh DEF Fallbacks
<1>4. CASE ~config.fallback
  <2>1. NoLeg \in Legs /\ Straight(NoLeg) /\ NoLeg.mode = "none"
    BY NewLeg DEF NoLeg, Targets
  <2>2. o.leg = NoLeg /\ o.policy = policyCache /\ o \in Outcomes
    BY <1>1, <1>2, <1>4, <2>1 DEF Outcome, Outcomes, Typed, MemosOK
  <2>. QED
    BY <2>1, <2>2 DEF Fresh, Way
<1>. QED
  BY <1>3, <1>4

\* Directly, or through the channel that is set.
LEMMA DirectFresh ==
    ASSUME Typed
    PROVE  Fresh(DirectLeg) /\ Way(DirectLeg, {Direct}) /\ DirectLeg.leg.mode # "crash"
<1>1. ChannelProxy(channel) \in Targets
  BY DEF ChannelProxy, Targets, Typed, TablesOK, Route, NoRoute
<1>2. ChannelCached \in Chans
  BY <1>1 DEF ChannelCached, Chans, Typed, MemosOK, TablesOK
<1>3. CASE ~ChannelIsSet
  <2>1. /\ Leg("direct", None) \in Legs /\ Straight(Leg("direct", None))
        /\ Leg("direct", None).mode = "direct"
    BY NewLeg DEF Targets
  <2>2. Fresh(Plain(Leg("direct", None))) /\ Plain(Leg("direct", None)).leg = Leg("direct", None)
    BY <1>3, <2>1, PlainFresh
  <2>. QED
    BY <1>3, <2>1, <2>2 DEF DirectLeg, Way, WayOf
<1>4. CASE ChannelIsSet
  <2>. DEFINE leg == IF ChannelCached.proxy = None THEN NoLeg ELSE Leg("channel", ChannelCached.proxy)
  <2>1. ChannelCached.proxy \in Targets
    BY <1>2 DEF Chans
  <2>2. leg \in Legs /\ Straight(leg) /\ leg.mode \in {"none", "channel"}
    BY <2>1, NewLeg DEF NoLeg, Targets
  <2>3. DirectLeg = Outcome(leg, ratings, policyCache, ChannelCached)
    BY <1>4 DEF DirectLeg
  <2>. HIDE DEF leg
  <2>4. /\ DirectLeg.leg = leg /\ DirectLeg.policy = policyCache
        /\ DirectLeg \in Outcomes
    BY <1>2, <2>2, <2>3 DEF Outcome, Outcomes, Typed, MemosOK, ChoicesOK
  <2>. QED
    BY <2>2, <2>4 DEF Fresh, Way, WayOf
<1>. QED
  BY <1>3, <1>4

LEMMA ViaAddrFresh ==
    ASSUME Typed, NEW a \in Addrs, NEW blame \in Addrs \cup {None, "active"}, NEW plain,
           NEW o \in ViaAddr(a, blame, plain)
    PROVE  Fresh(o) /\ Way(o, {[kind |-> "proxy", to |-> a]} \cup Fallbacks)
<1>1. CASE ratings[a] # None /\ ~ratings[a].black
  <2>. DEFINE leg == [Leg("addr", a) EXCEPT !.left = Retries, !.blame = blame]
  <2>1. /\ Leg("addr", a) \in Legs /\ Straight(Leg("addr", a)) /\ Leg("addr", a).mode = "addr"
        /\ Leg("addr", a).to = a
    BY NewLeg DEF Targets, Leg
  <2>2. /\ leg \in Legs /\ Straight(leg) /\ leg.mode = "addr" /\ leg.to = a
    <3>1. Retries \in 1 .. Retries
      BY UpstreamAssumption
    <3>2. leg \in Legs
      BY <2>1, <3>1 DEF Legs
    <3>. QED
      BY <2>1, <3>2 DEF Legs, Straight
  <2>3. o = Plain(leg)
    BY <1>1 DEF ViaAddr
  <2>. HIDE DEF leg
  <2>4. Fresh(o) /\ o.leg = leg
    BY <2>2, <2>3, PlainFresh
  <2>. QED
    BY <2>2, <2>4 DEF Way, WayOf
<1>2. CASE ~(ratings[a] # None /\ ~ratings[a].black)
  <2>1. o \in GivenUp(a, plain)
    BY <1>2 DEF ViaAddr
  <2>2. Fresh(o) /\ Way(o, Fallbacks)
    BY <2>1, GivenUpFresh
  <2>. QED
    BY <2>2 DEF Way
<1>. QED
  BY <1>1, <1>2

LEMMA ViaSelectedFresh ==
    ASSUME Typed, NEW blame \in {active, "active"}, NEW plain, NEW o \in ViaSelected(blame, plain)
    PROVE  Fresh(o) /\ Way(o, {IF active = None THEN Pool ELSE [kind |-> "proxy", to |-> active]}
                                 \cup Fallbacks)
<1>1. CASE active = None
  <2>1. o \in ViaPool(plain, ratings)
    BY <1>1 DEF ViaSelected
  <2>2. Fresh(o) /\ Way(o, {Pool})
    BY <2>1, ViaPoolFresh DEF Typed, ChoicesOK
  <2>. QED
    BY <1>1, <2>2 DEF Way
<1>2. CASE active # None
  <2>1. active \in Addrs /\ o \in ViaAddr(active, blame, plain)
    BY <1>2 DEF ViaSelected, Typed, ChoicesOK
  <2>2. blame \in Addrs \cup {None, "active"}
    BY <2>1
  <2>3. Fresh(o) /\ Way(o, {[kind |-> "proxy", to |-> active]} \cup Fallbacks)
    BY <2>1, <2>2, ViaAddrFresh
  <2>. QED
    BY <1>2, <2>3
<1>. QED
  BY <1>1, <1>2

\* What is taken for a route is the way the tables allow, or what they fall back on.
LEMMA TakenAllowed ==
    ASSUME Typed, NEW route \in Route, NEW plain, NEW o \in Taken(route, plain)
    PROVE  Fresh(o) /\ Way(o, {AsWay(Effective(route))} \cup Fallbacks)
<1>. DEFINE taken == Effective(route)
<1>1. taken \in Route /\ o \in TakenBy(taken, plain)
  BY EffectiveRoute DEF Taken, Typed
<1>. HIDE DEF taken
<1>2. taken.kind \in {"direct", "custom", "proxy", "pool", "selected", "unknown"}
  BY <1>1 DEF Route
<1>3. CASE taken.kind = "direct"
  <2>1. TakenBy(taken, plain) = {DirectLeg}
    BY <1>3, TakenCases
  <2>2. AsWay(taken) = taken
    BY <1>3, WayCases
  <2>3. taken = Direct
    BY <1>1, <1>3 DEF Route, Direct
  <2>4. o = DirectLeg
    BY <1>1, <2>1
  <2>. QED
    BY <2>2, <2>3, <2>4, DirectFresh DEF Way, taken
<1>4. CASE taken.kind = "custom"
  <2>. DEFINE leg == IF customs[taken.to] = "on"
                     THEN [Leg("custom", taken.to) EXCEPT !.left = Retries] ELSE Crash
  <2>1. o = Plain(leg) /\ AsWay(taken) = taken
    BY <1>1, <1>4, TakenCases, WayCases
  <2>2. taken.to \in Customs /\ taken = [kind |-> "custom", to |-> taken.to]
    BY <1>1, <1>4 DEF Route
  <2>3. /\ Leg("custom", taken.to) \in Legs /\ Straight(Leg("custom", taken.to))
        /\ Leg("custom", taken.to).mode = "custom" /\ Leg("custom", taken.to).to = taken.to
    BY <2>2, NewLeg DEF Targets, Leg
  <2>4. Crash \in Legs /\ Straight(Crash) /\ Crash.mode = "crash"
    BY NewLeg DEF Crash, Targets
  <2>5. /\ leg \in Legs /\ Straight(leg)
        /\ leg.mode = "crash" \/ (leg.mode = "custom" /\ leg.to = taken.to)
    BY <2>3, <2>4, UpstreamAssumption DEF Legs, Straight
  <2>. HIDE DEF leg
  <2>6. Fresh(o) /\ o.leg = leg
    BY <2>1, <2>5, PlainFresh
  <2>7. leg.mode = "custom" => WayOf(leg) = taken
    BY <2>2, <2>5 DEF WayOf
  <2>. QED
    BY <2>1, <2>5, <2>6, <2>7 DEF Way, taken
<1>5. CASE taken.kind = "proxy"
  <2>1. o \in ViaAddr(taken.to, taken.to, plain) /\ AsWay(taken) = taken
    BY <1>1, <1>5, TakenCases, WayCases
  <2>2. taken.to \in Addrs /\ taken = [kind |-> "proxy", to |-> taken.to]
    BY <1>1, <1>5 DEF Route
  <2>3. Fresh(o) /\ Way(o, {[kind |-> "proxy", to |-> taken.to]} \cup Fallbacks)
    BY <2>1, <2>2, ViaAddrFresh
  <2>. QED
    BY <2>1, <2>2, <2>3 DEF taken
<1>6. CASE taken.kind = "pool"
  <2>1. o \in ViaPool(plain, ratings) /\ AsWay(taken) = taken /\ taken = Pool
    BY <1>1, <1>6, TakenCases, WayCases DEF Route, Pool
  <2>2. Fresh(o) /\ Way(o, {Pool})
    BY <2>1, ViaPoolFresh DEF Typed, ChoicesOK
  <2>. QED
    BY <2>1, <2>2 DEF Way, taken
<1>7. CASE taken.kind = "selected"
  <2>1. /\ o \in ViaSelected(active, plain)
        /\ AsWay(taken) = IF active = None THEN Pool ELSE [kind |-> "proxy", to |-> active]
    BY <1>1, <1>7, TakenCases, WayCases
  <2>. QED
    BY <2>1, ViaSelectedFresh DEF taken
<1>8. CASE taken.kind = "unknown"
  <2>1. /\ o \in IF directMode THEN {DirectLeg} ELSE ViaSelected("active", plain)
        /\ AsWay(taken) = IF directMode THEN Direct
                          ELSE IF active = None THEN Pool
                          ELSE [kind |-> "proxy", to |-> active]
    BY <1>1, <1>8, TakenCases, WayCases
  <2>2. CASE directMode
    BY <2>1, <2>2, DirectFresh DEF Way, taken
  <2>3. CASE ~directMode
    <3>1. o \in ViaSelected("active", plain)
      BY <2>1, <2>3
    <3>2. AsWay(taken) = IF active = None THEN Pool ELSE [kind |-> "proxy", to |-> active]
      BY <2>1, <2>3
    <3>. QED
      BY <3>1, <3>2, ViaSelectedFresh DEF taken
  <2>. QED
    BY <2>2, <2>3
<1>. QED
  BY <1>2, <1>3, <1>4, <1>5, <1>6, <1>7, <1>8

-----------------------------------------------------------------------------
(* The invariant.                                                          *)

\* What a coroutine carries goes where it may, and the open fallback is no
\* surprise to it.
Carried(r) ==
    r.pc \in {"try", "sent", "relay"} /\ r.spare # "used" => WayOf(r.leg) \in r.may
Open(r) == config.fallback /\ r.pc # "idle" => Pool \in r.may
\* A memo that no restore has put behind says what the tables say.
Current ==
    /\ cache # None /\ "route" \notin behind => cache = Built
    /\ policyCache # None /\ "policy" \notin behind => policyCache = config.policy
Sound == Typed /\ Current /\ \A c \in Conns : Carried(conn[c]) /\ Open(conn[c])

\* What a step leaves of the memos when the tables stay.
Read ==
    /\ cache' \in {cache, Built} /\ policyCache' \in {policyCache, config.policy}
    /\ channelCache' \in Chans /\ ratings' \in Ratings

\* ---- a step of a connection ----

\* A coroutine that may follow r.
Follows(r) == /\ r \in Coroutines /\ Carried(r) /\ Open(r)
              /\ (r.leg.mode = "direct" => ~ChannelIsSet)

LEMMA ProceedFollows ==
    ASSUME Typed, NEW c \in Conns, NEW r \in Coroutines, NEW o, Fresh(o),
           r.spare # "used" => Way(o, r.may),
           config.fallback => Pool \in r.may,
           Proceed(c, r, o)
    PROVE  /\ \E q : conn' = [conn EXCEPT ![c] = q] /\ Follows(q)
           /\ policyCache' \in {policyCache, config.policy}
           /\ channelCache' \in Chans /\ ratings' \in Ratings
<1>1. /\ o.leg \in Legs /\ Straight(o.leg) /\ (o.leg.mode = "direct" => ~ChannelIsSet)
      /\ o.ratings \in Ratings /\ o.chan \in Chans /\ o.policy \in {policyCache, config.policy}
  BY DEF Fresh, Outcomes
<1>2. NoLeg \in Legs /\ Straight(NoLeg) /\ NoLeg.mode = "none"
  BY NewLeg DEF NoLeg, Targets
<1>3. Follows(Idle)
  <2>1. 0 \in 0 .. Replays
    BY UpstreamAssumption
  <2>. QED
    BY <1>2, <2>1 DEF Follows, Idle, Coroutines, Carried, Open
<1>4. CASE o.leg.mode \notin {"none", "crash"}
           /\ conn' = [conn EXCEPT ![c] = [r EXCEPT !.pc = "try", !.leg = o.leg]]
           /\ Apply(o)
  <2>. DEFINE q == [r EXCEPT !.pc = "try", !.leg = o.leg]
  <2>1. q \in Coroutines
    BY <1>1, <1>4 DEF Coroutines
  <2>2. q.spare = r.spare /\ q.may = r.may /\ q.leg = o.leg
    BY DEF Coroutines
  <2>3. r.spare # "used" => WayOf(o.leg) \in r.may
    BY <1>4 DEF Way
  <2>4. Follows(q)
    BY <1>1, <2>1, <2>2, <2>3 DEF Follows, Carried, Open
  <2>. QED
    BY <1>1, <1>4, <2>4 DEF Apply
<1>5. CASE o.leg.mode = "none" /\ r.again > 0
           /\ conn' = [conn EXCEPT ![c] = [r EXCEPT !.pc = "pause", !.again = @ - 1, !.leg = NoLeg]]
           /\ Apply(o)
  <2>. DEFINE q == [r EXCEPT !.pc = "pause", !.again = @ - 1, !.leg = NoLeg]
  <2>1. r.again - 1 \in 0 .. Replays
    BY <1>5, UpstreamAssumption DEF Coroutines
  <2>2. q \in Coroutines
    BY <1>2, <2>1 DEF Coroutines
  <2>3. q.pc = "pause" /\ q.may = r.may /\ q.leg = NoLeg
    BY DEF Coroutines
  <2>4. Follows(q)
    BY <1>2, <2>2, <2>3 DEF Follows, Carried, Open
  <2>. QED
    BY <1>1, <1>5, <2>4 DEF Apply
<1>6. CASE /\ conn' = [conn EXCEPT ![c] =
                IF DirectLeg.leg.mode = "none" THEN Idle
                ELSE [r EXCEPT !.pc = "try", !.leg = DirectLeg.leg, !.spare = "used"]]
           /\ Apply([o EXCEPT !.chan = DirectLeg.chan])
  <2>1. /\ DirectLeg.leg \in Legs /\ Straight(DirectLeg.leg) /\ DirectLeg.leg.mode # "crash"
        /\ (DirectLeg.leg.mode = "direct" => ~ChannelIsSet) /\ DirectLeg.chan \in Chans
    BY DirectFresh DEF Fresh, Outcomes
  <2>. DEFINE q == [r EXCEPT !.pc = "try", !.leg = DirectLeg.leg, !.spare = "used"]
  <2>2. q \in Coroutines
    BY <2>1 DEF Coroutines
  <2>3. q.spare = "used" /\ q.may = r.may /\ q.leg = DirectLeg.leg
    BY DEF Coroutines
  <2>4. Follows(q)
    BY <2>1, <2>2, <2>3 DEF Follows, Carried, Open
  <2>5. \E x : conn' = [conn EXCEPT ![c] = x] /\ Follows(x)
    BY <1>3, <1>6, <2>4
  <2>6. ratings' = o.ratings /\ policyCache' = o.policy /\ channelCache' = DirectLeg.chan
    BY <1>6 DEF Apply, Fresh, Outcomes
  <2>. QED
    BY <1>1, <2>1, <2>5, <2>6
<1>7. CASE conn' = [conn EXCEPT ![c] = Idle] /\ Apply(o)
  BY <1>1, <1>3, <1>7 DEF Apply
<1>8. \/ /\ o.leg.mode \notin {"none", "crash"}
         /\ conn' = [conn EXCEPT ![c] = [r EXCEPT !.pc = "try", !.leg = o.leg]]
         /\ Apply(o)
      \/ /\ o.leg.mode = "none" /\ r.again > 0
         /\ conn' = [conn EXCEPT ![c] = [r EXCEPT !.pc = "pause", !.again = @ - 1, !.leg = NoLeg]]
         /\ Apply(o)
      \/ /\ conn' = [conn EXCEPT ![c] =
                IF DirectLeg.leg.mode = "none" THEN Idle
                ELSE [r EXCEPT !.pc = "try", !.leg = DirectLeg.leg, !.spare = "used"]]
         /\ Apply([o EXCEPT !.chan = DirectLeg.chan])
      \/ conn' = [conn EXCEPT ![c] = Idle] /\ Apply(o)
  BY Zenon DEF Proceed
<1>. QED
  BY <1>4, <1>5, <1>6, <1>7, <1>8, Zenon

\* A memo names a route that the tables allow.
LEMMA RouteAllowed ==
    ASSUME Typed, Current, NEW memo \in CacheReads, NEW host
    PROVE  /\ MemoOK(memo) /\ Allowed(host, memo) \subseteq Route
           /\ AsWay(Effective(Resolve(memo, host, directMode, active))) \in Allowed(host, memo)
           /\ Fallbacks \subseteq Allowed(host, memo)
<1>. DEFINE route == Resolve(memo, host, directMode, active)
            tested == TestRoute(host, directMode, active)
<1>1. MemoOK(memo) /\ MemoOK(Built)
  BY BuiltOK DEF CacheReads, Typed, MemosOK
<1>2. tested = Resolve(Built, host, directMode, active)
  BY Match DEF Typed, TablesOK
<1>3. route \in Route /\ tested \in Route
  BY <1>1, <1>2, RouteFound DEF Typed, ChoicesOK
<1>4. "route" \notin behind => memo = Built
  BY DEF CacheReads, Current
<1>5. "route" \notin behind => route = tested
  BY <1>2, <1>4
<1>. HIDE DEF route, tested
<1>6. AsWay(Effective(route)) \in Route /\ AsWay(Effective(tested)) \in Route
  BY <1>3, EffectiveRoute, WayIsRoute DEF Typed, ChoicesOK
<1>7. Pool \in Route
  BY DEF Pool, Route
<1>8. Allowed(host, memo) = {AsWay(Effective(tested))}
            \cup (IF "route" \in behind THEN {AsWay(Effective(route))} ELSE {})
            \cup Fallbacks
  BY DEF Allowed, Fallbacks, route, tested
<1>9. AsWay(Effective(route)) \in Allowed(host, memo)
  BY <1>5, <1>8
<1>10. Allowed(host, memo) \subseteq Route /\ Fallbacks \subseteq Allowed(host, memo)
  BY <1>6, <1>7, <1>8 DEF Fallbacks
<1>. QED
  BY <1>1, <1>9, <1>10 DEF route

\* So whatever a request is resolved to, it may.
LEMMA ConnectFollows ==
    ASSUME Typed, Current, NEW c \in Conns, NEW r \in Coroutines, Connect(c, r)
    PROVE  (\E q : conn' = [conn EXCEPT ![c] = q] /\ Follows(q)) /\ Read
<1>1. PICK memo \in CacheReads :
        /\ cache' = memo
        /\ \E o \in Taken(Resolve(memo, r.host, directMode, active), r.plain) :
              Proceed(c, [r EXCEPT !.may = @ \cup Allowed(r.host, memo)], o)
  BY DEF Connect
<1>. DEFINE route == Resolve(memo, r.host, directMode, active)
            s == [r EXCEPT !.may = @ \cup Allowed(r.host, memo)]
<1>2. PICK o \in Taken(route, r.plain) : Proceed(c, s, o)
  BY <1>1
<1>3. MemoOK(memo) /\ Allowed(r.host, memo) \subseteq Route
  BY RouteAllowed
<1>4. AsWay(Effective(route)) \in Allowed(r.host, memo) /\ Fallbacks \subseteq Allowed(r.host, memo)
  BY RouteAllowed
<1>5. route \in Route
  BY <1>3, RouteFound DEF Typed, ChoicesOK
<1>6. s \in Coroutines /\ s.may = r.may \cup Allowed(r.host, memo)
  BY <1>3 DEF Coroutines
<1>. HIDE DEF route, s
<1>7. Fresh(o) /\ Way(o, {AsWay(Effective(route))} \cup Fallbacks)
  BY <1>5, TakenAllowed
<1>8. Way(o, s.may)
  BY <1>4, <1>6, <1>7 DEF Way
<1>9. config.fallback => Pool \in s.may
  BY <1>4, <1>6 DEF Fallbacks
<1>10. /\ \E q : conn' = [conn EXCEPT ![c] = q] /\ Follows(q)
       /\ policyCache' \in {policyCache, config.policy}
       /\ channelCache' \in Chans /\ ratings' \in Ratings
  BY <1>2, <1>6, <1>7, <1>8, <1>9, ProceedFollows
<1>11. cache' \in {cache, Built}
  BY <1>1 DEF CacheReads
<1>. QED
  BY <1>10, <1>11 DEF Read

\* Tables that stay, and memos read anew, agree as before.
LEMMA TablesKept ==
    ASSUME Typed, Current, Read, KeepTables
    PROVE  (TablesOK /\ MemosOK /\ ChoicesOK /\ Current)'
<1>1. UNCHANGED <<config, lists, customs, channel, backup, edits, active, directMode>>
  BY DEF KeepTables, selection
<1>2. TablesOK'
  BY <1>1 DEF TablesOK, Typed
<1>3. Built' = Built
  BY <1>1 DEF Built, Compile, Consulted, Rows
<1>4. behind' = {m \in behind : IF m = "route" THEN cache' \notin {None, Built}
                                ELSE policyCache' \notin {None, config.policy}}
  BY DEF KeepTables
<1>5. cache' # None => MemoOK(cache')
  BY BuiltOK DEF Read, Typed, MemosOK
<1>6. policyCache' \in Policies \cup {None} /\ channelCache' \in Chans
  BY DEF Read, Typed, MemosOK, TablesOK, Configs
<1>7. MemosOK'
  <2>1. behind' \subseteq {"route", "policy"}
    BY <1>4 DEF Typed, MemosOK
  <2>2. (cache # None => MemoOK(cache))'
    BY <1>5 DEF MemoOK, Ordered
  <2>. QED
    BY <1>6, <2>1, <2>2 DEF MemosOK
<1>8. ChoicesOK'
  BY <1>1 DEF Read, ChoicesOK, Typed
<1>9. Current'
  <2>1. cache' # None /\ "route" \notin behind' => cache' = Built
    BY <1>4 DEF Read, Current
  <2>2. policyCache' # None /\ "policy" \notin behind' => policyCache' = config.policy
    BY <1>4 DEF Read, Current
  <2>. QED
    BY <1>1, <1>3, <2>1, <2>2 DEF Current
<1>. QED
  BY <1>2, <1>7, <1>8, <1>9

\* No leg is begun past the channel.
NotPast ==
    \A c \in Conns : conn'[c].leg.mode = "direct" /\ conn'[c].leg # conn[c].leg => ~ChannelIsSet

LEMMA FollowedSound ==
    ASSUME Sound, NEW c \in Conns, NEW q, Follows(q), conn' = [conn EXCEPT ![c] = q],
           Read, KeepTables
    PROVE  Sound' /\ NotPast
<1>1. (TablesOK /\ MemosOK /\ ChoicesOK /\ Current)'
  BY TablesKept DEF Sound
<1>2. conn \in [Conns -> Coroutines] /\ q \in Coroutines
  BY DEF Sound, Typed, Follows
<1>3. conn' \in [Conns -> Coroutines]
  BY <1>2
<1>4. \A d \in Conns : conn'[d] = IF d = c THEN q ELSE conn[d]
  BY <1>2
<1>5. config' = config
  BY DEF KeepTables
<1>6. \A d \in Conns : (Carried(conn[d]) /\ Open(conn[d]))'
  BY <1>4, <1>5 DEF Follows, Carried, Open, Sound, WayOf
<1>7. NotPast
  BY <1>4 DEF NotPast, Follows
<1>. QED
  BY <1>1, <1>3, <1>6, <1>7 DEF Sound, Typed

\* Requests, as they come in or are replayed.
LEMMA RequestSound ==
    ASSUME Sound, NEW c \in Conns,
           \/ \E h \in Hosts, form \in Forms : HttpRequest(c, h, form)
           \/ \E h \in Hosts : Socks5Request(c, h)
           \/ \E h \in Hosts, plain \in BOOLEAN : Intercepted(c, h, plain)
           \/ Replay(c)
    PROVE  Sound' /\ NotPast
<1>1. Idle \in Coroutines
  <2>1. NoLeg \in Legs /\ Straight(NoLeg) /\ NoLeg.mode = "none"
    BY NewLeg DEF NoLeg, Targets
  <2>2. 0 \in 0 .. Replays
    BY UpstreamAssumption
  <2>. QED
    BY <2>1, <2>2 DEF Idle, Coroutines
<1>2. PICK r \in Coroutines : Connect(c, r) /\ KeepTables
  <2>1. CASE \E h \in Hosts, form \in Forms : HttpRequest(c, h, form)
    <3>1. PICK h \in Hosts, form \in Forms : HttpRequest(c, h, form)
      BY <2>1
    <3>. DEFINE again == IF form = "get" THEN Replays ELSE 0
                r == [Idle EXCEPT !.host = h, !.plain = form # "tunnel",
                                  !.headed = form # "tunnel", !.again = again]
    <3>2. again \in 0 .. Replays
      BY UpstreamAssumption
    <3>3. Connect(c, r) /\ KeepTables
      BY <3>1 DEF HttpRequest
    <3>. HIDE DEF again
    <3>4. r \in Coroutines
      BY <1>1, <3>2 DEF Coroutines
    <3>. QED
      BY <3>3, <3>4
  <2>2. CASE \E h \in Hosts : Socks5Request(c, h)
    <3>1. PICK h \in Hosts : Socks5Request(c, h)
      BY <2>2
    <3>2. [Idle EXCEPT !.host = h] \in Coroutines
      BY <1>1 DEF Coroutines
    <3>. QED
      BY <3>1, <3>2 DEF Socks5Request
  <2>3. CASE \E h \in Hosts, plain \in BOOLEAN : Intercepted(c, h, plain)
    <3>1. PICK h \in Hosts, plain \in BOOLEAN : Intercepted(c, h, plain)
      BY <2>3
    <3>2. [Idle EXCEPT !.host = h, !.plain = plain, !.spare = "left"] \in Coroutines
      BY <1>1 DEF Coroutines
    <3>. QED
      BY <3>1, <3>2 DEF Intercepted
  <2>4. CASE Replay(c)
    BY <2>4 DEF Replay, Sound, Typed
  <2>. QED
    BY <2>1, <2>2, <2>3, <2>4
<1>3. (\E q : conn' = [conn EXCEPT ![c] = q] /\ Follows(q)) /\ Read
  BY <1>2, ConnectFollows DEF Sound
<1>. QED
  BY <1>2, <1>3, FollowedSound

\* Attempts that fail, and answers that break off.
LEMMA FailureSound ==
    ASSUME Sound, NEW c \in Conns, (\E how \in Failures : AttemptFails(c, how)) \/ HeadFails(c)
    PROVE  Sound' /\ NotPast
<1>. DEFINE r == conn[c]
            leg == r.leg
            blame == IF leg.blame = "active" THEN active ELSE leg.blame
<1>1. /\ r \in Coroutines /\ leg \in Legs /\ Straight(leg) /\ Typed /\ Carried(r) /\ Open(r)
  BY DEF Sound, Typed, Coroutines
<1>2. NoLeg \in Legs /\ Straight(NoLeg) /\ NoLeg.mode = "none"
  BY NewLeg DEF NoLeg, Targets
<1>3. Fresh(Plain(NoLeg)) /\ Way(Plain(NoLeg), r.may)
  <2>1. Fresh(Plain(NoLeg)) /\ Plain(NoLeg).leg = NoLeg
    BY <1>1, <1>2, PlainFresh
  <2>. QED
    BY <1>2, <2>1 DEF Way
<1>4. r.pc \in {"try", "sent"} /\ KeepTables /\ UNCHANGED cache
  BY DEF AttemptFails, HeadFails
<1>5. PICK o : Fresh(o) /\ (r.spare # "used" => Way(o, r.may)) /\ Proceed(c, r, o)
  <2>1. CASE HeadFails(c)
    BY <1>3, <2>1 DEF HeadFails
  <2>2. CASE \E how \in Failures : AttemptFails(c, how)
    <3>1. PICK how \in Failures : AttemptFails(c, how)
      BY <2>2
    <3>2. PICK o \in IF leg.left > 1 /\ how = "dead" THEN {Plain([leg EXCEPT !.left = @ - 1])}
                     ELSE IF leg.mode = "addr" THEN GivenUp(blame, r.plain)
                     ELSE IF leg.rest # <<>>
                          THEN {Plain([leg EXCEPT !.to = Head(leg.rest), !.rest = Tail(leg.rest)])}
                     ELSE {Plain(NoLeg)} :
              Proceed(c, r, o)
      BY <3>1 DEF AttemptFails
    <3>3. CASE leg.left > 1 /\ how = "dead"
      <4>. DEFINE next == [leg EXCEPT !.left = @ - 1]
      <4>1. leg.left - 1 \in 1 .. Retries
        BY <1>1, <3>3, UpstreamAssumption DEF Legs
      <4>2. /\ next \in Legs /\ Straight(next) /\ next.mode # "direct"
            /\ WayOf(next) = WayOf(leg)
        BY <1>1, <3>3, <4>1, UpstreamAssumption DEF Legs, Straight, WayOf
      <4>3. o = Plain(next)
        BY <3>2, <3>3
      <4>. HIDE DEF next
      <4>4. Fresh(o) /\ o.leg = next
        BY <1>1, <4>2, <4>3, PlainFresh
      <4>5. r.spare # "used" => WayOf(leg) \in r.may
        BY <1>1, <1>4 DEF Carried
      <4>. QED
        BY <3>2, <4>2, <4>4, <4>5 DEF Way
    <3>4. CASE ~(leg.left > 1 /\ how = "dead") /\ leg.mode = "addr"
      <4>1. o \in GivenUp(blame, r.plain)
        BY <3>2, <3>4
      <4>2. blame \in Addrs \cup {None}
        BY <1>1 DEF Legs, Typed, ChoicesOK
      <4>. HIDE DEF blame
      <4>3. Fresh(o) /\ Way(o, Fallbacks)
        BY <1>1, <4>1, <4>2, GivenUpFresh
      <4>4. Fallbacks \subseteq r.may
        BY <1>1, <1>4 DEF Fallbacks, Open
      <4>. QED
        BY <3>2, <4>3, <4>4 DEF Way
    <3>5. CASE ~(leg.left > 1 /\ how = "dead") /\ leg.mode # "addr" /\ leg.rest # <<>>
      <4>. DEFINE next == [leg EXCEPT !.to = Head(leg.rest), !.rest = Tail(leg.rest)]
      <4>1. leg.rest \in Seq(Addrs) /\ leg.mode = "pool"
        BY <1>1, <3>5 DEF Legs, Straight
      <4>2. Head(leg.rest) \in Targets /\ Tail(leg.rest) \in Seq(Addrs)
        BY <3>5, <4>1, HeadTailProperties DEF Targets
      <4>3. next \in Legs /\ next.mode = "pool"
        BY <1>1, <4>1, <4>2 DEF Legs
      <4>4. Straight(next) /\ WayOf(next) = WayOf(leg)
        BY <4>1, <4>3 DEF Straight, WayOf
      <4>5. o = Plain(next)
        BY <3>2, <3>5
      <4>. HIDE DEF next
      <4>6. Fresh(o) /\ o.leg = next
        BY <1>1, <4>3, <4>4, <4>5, PlainFresh
      <4>7. r.spare # "used" => WayOf(leg) \in r.may
        BY <1>1, <1>4 DEF Carried
      <4>. QED
        BY <3>2, <4>4, <4>6, <4>7 DEF Way
    <3>6. CASE ~(leg.left > 1 /\ how = "dead") /\ leg.mode # "addr" /\ leg.rest = <<>>
      BY <1>3, <3>2, <3>6
    <3>. QED
      BY <3>3, <3>4, <3>5, <3>6
  <2>. QED
    BY <2>1, <2>2
<1>. HIDE DEF r
<1>6. config.fallback => Pool \in r.may
  BY <1>1, <1>4 DEF Open
<1>7. /\ \E q : conn' = [conn EXCEPT ![c] = q] /\ Follows(q)
      /\ policyCache' \in {policyCache, config.policy}
      /\ channelCache' \in Chans /\ ratings' \in Ratings
  BY <1>1, <1>5, <1>6, ProceedFollows
<1>8. Read
  BY <1>4, <1>7 DEF Read
<1>. QED
  BY <1>4, <1>7, <1>8, FollowedSound

\* Answers: the leg stays what it was, or is over.
LEMMA AnswerSound ==
    ASSUME Sound, NEW c \in Conns, Connected(c) \/ HeadArrives(c) \/ RelayEnds(c)
    PROVE  Sound' /\ NotPast
<1>1. UNCHANGED <<routingVars, selection>>
  BY DEF Connected, HeadArrives, RelayEnds
<1>2. conn \in [Conns -> Coroutines]
  BY DEF Sound, Typed
<1>3. PICK q \in Coroutines :
        /\ conn' = [conn EXCEPT ![c] = q] /\ Carried(q) /\ Open(q)
        /\ q.leg.mode = "direct" => q.leg = conn[c].leg
  <2>1. CASE Connected(c) \/ HeadArrives(c)
    <3>. DEFINE pc == IF conn[c].pc = "try" /\ conn[c].headed THEN "sent" ELSE "relay"
    <3>1. conn' = [conn EXCEPT ![c].pc = pc] /\ conn[c].pc \in {"try", "sent"}
      BY <2>1 DEF Connected, HeadArrives
    <3>. HIDE DEF pc
    <3>2. pc \in {"sent", "relay"}
      BY DEF pc
    <3>3. conn[c] \in Coroutines /\ Carried(conn[c]) /\ Open(conn[c])
      BY <1>2 DEF Sound
    <3>. DEFINE q == [conn[c] EXCEPT !.pc = pc]
    <3>4. q \in Coroutines
      BY <3>2, <3>3 DEF Coroutines
    <3>5. /\ q.pc = pc /\ q.spare = conn[c].spare /\ q.leg = conn[c].leg
          /\ q.may = conn[c].may
      BY <3>3 DEF Coroutines
    <3>6. Carried(q) /\ Open(q)
      BY <3>1, <3>3, <3>5 DEF Carried, Open
    <3>. QED
      BY <1>2, <3>1, <3>4, <3>5, <3>6
  <2>2. CASE RelayEnds(c)
    <3>1. NoLeg \in Legs /\ Straight(NoLeg) /\ NoLeg.mode = "none"
      BY NewLeg DEF NoLeg, Targets
    <3>2. 0 \in 0 .. Replays
      BY UpstreamAssumption
    <3>3. Idle \in Coroutines /\ Carried(Idle) /\ Open(Idle) /\ Idle.leg.mode # "direct"
      BY <3>1, <3>2 DEF Idle, Coroutines, Carried, Open
    <3>. QED
      BY <2>2, <3>3 DEF RelayEnds
  <2>. QED
    BY <2>1, <2>2
<1>4. (TablesOK /\ MemosOK /\ ChoicesOK /\ Current)'
  <2>1. UNCHANGED <<config, lists, customs, channel, backup, edits, active, directMode, ratings,
                    cache, policyCache, channelCache, behind>>
    BY <1>1 DEF routingVars, selection
  <2>2. TablesOK' /\ MemosOK' /\ ChoicesOK'
    BY <2>1 DEF Sound, Typed, TablesOK, MemosOK, ChoicesOK, MemoOK, Ordered
  <2>3. Current'
    BY <2>1 DEF Sound, Current, Built, Compile, Consulted, Rows
  <2>. QED
    BY <2>2, <2>3
<1>5. \A d \in Conns : conn'[d] = IF d = c THEN q ELSE conn[d]
  BY <1>2, <1>3
<1>6. conn' \in [Conns -> Coroutines]
  BY <1>2, <1>3
<1>7. \A d \in Conns : (Carried(conn[d]) /\ Open(conn[d]))'
  BY <1>1, <1>3, <1>5 DEF routingVars, Carried, Open, Sound, WayOf
<1>8. NotPast
  BY <1>3, <1>5 DEF NotPast
<1>. QED
  BY <1>4, <1>6, <1>7, <1>8 DEF Sound, Typed

-----------------------------------------------------------------------------
(* The operator and the checks.                                            *)

\* What leaves tables, memos and connections alone.
LEMMA ChoiceSound ==
    ASSUME Sound, edits' \in 0 .. MaxEdits, ChoicesOK', channelCache' \in Chans,
           UNCHANGED <<config, lists, customs, channel, backup, cache, policyCache, behind, conn>>
    PROVE  Sound' /\ NotPast
<1>1. TablesOK' /\ MemosOK'
  BY DEF Sound, Typed, TablesOK, MemosOK, MemoOK, Ordered
<1>2. Current'
  BY DEF Sound, Current, Built, Compile, Consulted, Rows
<1>3. \A d \in Conns : (Carried(conn[d]) /\ Open(conn[d]))'
  BY DEF Carried, Open, Sound, WayOf
<1>. QED
  BY <1>1, <1>2, <1>3 DEF Sound, Typed, NotPast

LEMMA OperatorSound ==
    ASSUME Sound,
           \/ \E a \in Addrs \cup {None} : Select(a)
           \/ \E a \in Addrs : SelectNext(a)
           \/ \E a \in Addrs, b \in BOOLEAN : Blacklist(a, b) \/ CheckResult(a, b)
           \/ \E on \in BOOLEAN : DirectSwitch(on)
           \/ EngineConnects
    PROVE  Sound' /\ NotPast
<1>1. ChoicesOK /\ MemosOK /\ TablesOK /\ edits \in 0 .. MaxEdits /\ channelCache \in Chans
  BY DEF Sound, Typed, MemosOK, TablesOK
<1>2. Edit => edits' \in 0 .. MaxEdits
  BY <1>1, RoutingAssumption DEF Edit
<1>3. \A a \in Addrs : ratings[a] # None =>
          ratings[a] \in [status: {"ok", "failed"}, fails: 0 .. GraceFails, black: BOOLEAN]
  BY <1>1 DEF ChoicesOK, Ratings
<1>4. 0 \in 0 .. GraceFails
  BY UpstreamAssumption
<1>5. ASSUME NEW a \in Addrs \cup {None}, Select(a) PROVE Sound' /\ NotPast
  <2>1. ratings' \in Ratings
    BY <1>1, <1>4, <1>5 DEF Select, ChoicesOK, Ratings
  <2>2. ChoicesOK'
    BY <1>1, <1>5, <2>1 DEF Select, ChoicesOK
  <2>. QED
    BY <1>1, <1>2, <1>5, <2>2, ChoiceSound DEF Select
<1>6. ASSUME NEW a \in Addrs, NEW b \in BOOLEAN, Blacklist(a, b) PROVE Sound' /\ NotPast
  <2>1. ratings' \in Ratings
    BY <1>1, <1>3, <1>6 DEF Blacklist, ChoicesOK, Ratings
  <2>2. ChoicesOK'
    BY <1>1, <1>6, <2>1 DEF Blacklist, ChoicesOK, selection
  <2>. QED
    BY <1>1, <1>2, <1>6, <2>2, ChoiceSound DEF Blacklist
<1>7. ASSUME NEW a \in Addrs, NEW b \in BOOLEAN, CheckResult(a, b) PROVE Sound' /\ NotPast
  <2>. DEFINE fails == IF b THEN 0
                       ELSE IF ratings[a].fails < GraceFails THEN ratings[a].fails + 1
                       ELSE ratings[a].fails
  <2>1. ratings[a] # None
    BY <1>7 DEF CheckResult
  <2>2. fails \in 0 .. GraceFails
    BY <1>3, <1>4, <2>1, UpstreamAssumption
  <2>3. ratings' = [ratings EXCEPT ![a].status = IF b THEN "ok" ELSE "failed", ![a].fails = fails]
    BY <1>7 DEF CheckResult
  <2>. HIDE DEF fails
  <2>4. ratings' \in Ratings
    BY <1>1, <1>3, <2>1, <2>2, <2>3 DEF ChoicesOK, Ratings
  <2>5. ChoicesOK'
    BY <1>1, <1>7, <2>4 DEF CheckResult, ChoicesOK, selection
  <2>. QED
    BY <1>1, <1>2, <1>7, <2>5, ChoiceSound DEF CheckResult
<1>8. ASSUME NEW on \in BOOLEAN, DirectSwitch(on) PROVE Sound' /\ NotPast
  <2>1. ChoicesOK'
    BY <1>1, <1>8 DEF DirectSwitch, ChoicesOK
  <2>. QED
    BY <1>1, <1>2, <1>8, <2>1, ChoiceSound DEF DirectSwitch
<1>9. CASE EngineConnects
  <2>1. ChannelProxy(channel) \in Targets
    BY <1>1 DEF ChannelProxy, Targets, TablesOK, Route, NoRoute
  <2>2. ChannelCached \in Chans
    BY <1>1, <2>1 DEF ChannelCached, Chans, TablesOK
  <2>3. ChoicesOK'
    BY <1>1, <1>9 DEF EngineConnects, ChoicesOK, selection
  <2>. QED
    BY <1>1, <1>9, <2>2, <2>3, ChoiceSound DEF EngineConnects
<1>. QED
  BY <1>5, <1>6, <1>7, <1>8, <1>9 DEF SelectNext

\* ---- the tables ----

\* The numbers of finitely many lists are finitely many.
LEMMA FiniteNumbers ==
    ASSUME NEW f \in [Lists -> Nat], NEW S \in SUBSET Lists
    PROVE  {f[l] : l \in S} \in SUBSET Nat /\ IsFiniteSet({f[l] : l \in S})
<1>. DEFINE T == {f[l] : l \in S}
            g == [l \in S |-> f[l]]
<1>1. IsFiniteSet(S)
  BY RoutingAssumption, FS_Subset
<1>2. g \in Surjection(S, T)
  BY DEF Surjection
<1>. HIDE DEF g
<1>3. IsFiniteSet(T)
  BY <1>1, <1>2, FS_Surjection
<1>. QED
  BY <1>3

LEMMA NextNumbers ==
    ASSUME Listing(lists)
    PROVE  /\ NextPri \in Nat /\ NextRow \in Nat
           /\ \A l \in Lists : lists[l] # None => lists[l].row < NextRow
<1>1. \A l \in Rows : l \in Lists /\ lists[l].pri \in Nat /\ lists[l].row \in Nat
  BY DEF Rows, Listing, ListRows
<1>. DEFINE pri == [l \in Lists |-> IF l \in Rows THEN lists[l].pri ELSE 0]
            row == [l \in Lists |-> IF l \in Rows THEN lists[l].row ELSE 0]
<1>2. pri \in [Lists -> Nat] /\ row \in [Lists -> Nat] /\ Rows \in SUBSET Lists
  BY <1>1 DEF Rows
<1>3. /\ {lists[l].pri : l \in Rows} = {pri[l] : l \in Rows}
      /\ {lists[l].row : l \in Rows} = {row[l] : l \in Rows}
  BY <1>1
<1>. HIDE DEF pri, row
<1>4. /\ {lists[l].pri : l \in Rows} \in SUBSET Nat /\ IsFiniteSet({lists[l].pri : l \in Rows})
      /\ {lists[l].row : l \in Rows} \in SUBSET Nat /\ IsFiniteSet({lists[l].row : l \in Rows})
  BY <1>2, <1>3, FiniteNumbers
<1>5. NextPri \in Nat
  BY <1>4, AboveAll DEF NextPri
<1>6. NextRow \in Nat /\ \A x \in {lists[l].row : l \in Rows} : x < NextRow
  BY <1>4, AboveAll DEF NextRow
<1>. QED
  BY <1>5, <1>6 DEF Rows

\* A change of the routes that forgets the compiled ones.
LEMMA ForgottenSound ==
    ASSUME TablesOK, MemosOK, Current, config' \in Configs, Listing(lists'),
           config'.policy = config.policy, Edit, InvalidateRoutes, KeepOthers
    PROVE  (TablesOK /\ MemosOK /\ Current)'
<1>1. edits' \in 0 .. MaxEdits
  BY RoutingAssumption DEF Edit, TablesOK
<1>2. TablesOK'
  <2>1. (Listing(lists))'
    BY DEF Listing
  <2>. QED
    BY <1>1, <2>1 DEF TablesOK, KeepOthers, Listing
<1>3. MemosOK'
  BY DEF MemosOK, InvalidateRoutes, KeepOthers
<1>4. Current'
  BY DEF Current, InvalidateRoutes, KeepOthers
<1>. QED
  BY <1>2, <1>3, <1>4

LEMMA EditRoutesOK ==
    ASSUME TablesOK, MemosOK, Current, EditRoutes, RoutesAssumption
    PROVE  (TablesOK /\ MemosOK /\ Current)' /\ ratings' = ratings
<1>. DEFINE Goal == (TablesOK /\ MemosOK /\ Current)' /\ ratings' = ratings
<1>1. /\ config \in Configs /\ Listing(lists) /\ lists \in [Lists -> ListRows \cup {None}]
      /\ \A l, m \in Lists : lists[l] # None /\ lists[m] # None /\ lists[l].row = lists[m].row => l = m
      /\ Routes \subseteq Route
  BY DEF TablesOK, Listing, RoutesAssumption
<1>2. Edit => edits' \in 0 .. MaxEdits
  BY RoutingAssumption DEF Edit, TablesOK
<1>3. KeepOthers => ratings' = ratings
  BY DEF KeepOthers
<1>4. ASSUME NEW l \in Lists, NEW rt \in Routes \cup {NoRoute}, NEW on \in BOOLEAN, NEW ps \in PatternSets,
             CreateDomainList(l, rt, on, ps)
      PROVE  Goal
  <2>. DEFINE x == [pri |-> NextPri, row |-> NextRow, route |-> rt, enabled |-> on, patterns |-> ps]
  <2>1. x \in ListRows /\ x.row = NextRow
    BY <1>1, NextNumbers DEF ListRows
  <2>2. lists' = [lists EXCEPT ![l] = x] /\ lists[l] = None /\ config' = config
    BY <1>4 DEF CreateDomainList
  <2>3. \A m \in Lists : lists[m] # None => lists[m].row # NextRow
    <3>1. \A m \in Lists : lists[m] # None => lists[m].row \in Nat
      BY <1>1 DEF ListRows
    <3>. QED
      BY <1>1, <3>1, NextNumbers
  <2>. HIDE DEF x
  <2>4. Listing(lists')
    BY <1>1, <2>1, <2>2, <2>3 DEF Listing
  <2>. QED
    BY <1>1, <1>3, <1>4, <2>2, <2>4, ForgottenSound DEF CreateDomainList
<1>5. ASSUME NEW l \in Lists, NEW rt \in Routes \cup {NoRoute}, NEW on \in BOOLEAN, NEW ps \in PatternSets,
             NEW named \in BOOLEAN, UpdateDomainList(l, named, rt, on, ps)
      PROVE  Goal
  <2>. DEFINE x == [lists[l] EXCEPT !.route = IF named THEN rt ELSE lists[l].route,
                                    !.enabled = IF named THEN on ELSE lists[l].enabled,
                                    !.patterns = ps]
  <2>1. lists' = [lists EXCEPT ![l] = x] /\ lists[l] \in ListRows /\ config' = config
    <3>1. lists[l] # None /\ config' = config
      BY <1>5 DEF UpdateDomainList
    <3>2. lists' = [lists EXCEPT ![l] = x]
      BY <1>1, <1>5 DEF UpdateDomainList
    <3>. QED
      BY <1>1, <3>1, <3>2
  <2>2. x \in ListRows /\ x.row = lists[l].row
    BY <1>1, <2>1 DEF ListRows
  <2>. HIDE DEF x
  <2>3. lists[l] # None /\ lists' \in [Lists -> ListRows \cup {None}]
    <3>1. lists[l] # None
      BY <1>5 DEF UpdateDomainList
    <3>2. x \in ListRows \cup {None}
      BY <2>2
    <3>. QED
      BY <1>1, <2>1, <3>1, <3>2
  <2>4. \A m \in Lists : lists'[m] = IF m = l THEN x ELSE lists[m]
    BY <1>1, <2>1
  <2>5. Listing(lists')
    BY <1>1, <2>2, <2>3, <2>4 DEF Listing
  <2>. QED
    BY <1>1, <1>3, <1>5, <2>1, <2>5, ForgottenSound DEF UpdateDomainList
<1>6. ASSUME NEW l \in Lists, DeleteDomainList(l) PROVE Goal
  <2>1. lists' = [lists EXCEPT ![l] = None] /\ config' = config
    BY <1>6 DEF DeleteDomainList
  <2>2. Listing(lists')
    BY <1>1, <2>1 DEF Listing
  <2>. QED
    BY <1>1, <1>3, <1>6, <2>1, <2>2, ForgottenSound DEF DeleteDomainList
<1>7. ASSUME NEW l \in Lists, ToggleDomainList(l) PROVE Goal
  <2>. DEFINE x == [lists[l] EXCEPT !.enabled = ~lists[l].enabled]
  <2>1. lists' = [lists EXCEPT ![l] = x] /\ lists[l] \in ListRows /\ config' = config
    BY <1>1, <1>7 DEF ToggleDomainList
  <2>2. x \in ListRows /\ x.row = lists[l].row
    BY <2>1 DEF ListRows
  <2>. HIDE DEF x
  <2>3. Listing(lists')
    BY <1>1, <1>7, <2>1, <2>2 DEF Listing, ToggleDomainList
  <2>. QED
    BY <1>1, <1>3, <1>7, <2>1, <2>3, ForgottenSound DEF ToggleDomainList
<1>8. ASSUME NEW l \in Lists, NEW m \in Lists, ReorderDomainLists(IF l = m THEN <<l>> ELSE <<l, m>>)
      PROVE  Goal
  <2>. DEFINE order == IF l = m THEN <<l>> ELSE <<l, m>>
              place(k) == (CHOOSE i \in 1 .. Len(order) : order[i] = k) - 1
              listed(k) == lists[k] # None /\ \E i \in 1 .. Len(order) : order[i] = k
  <2>1. lists' = [k \in Lists |-> IF listed(k) THEN [lists[k] EXCEPT !.pri = place(k)] ELSE lists[k]]
        /\ config' = config
    BY <1>8 DEF ReorderDomainLists
  <2>2. \A k \in Lists : listed(k) => place(k) \in Nat /\ lists[k] \in ListRows
    BY <1>1
  <2>. HIDE DEF listed, place
  <2>3. \A k \in Lists : lists'[k] # None => lists[k] # None /\ lists'[k] \in ListRows
                                               /\ lists'[k].row = lists[k].row
    BY <1>1, <2>1, <2>2 DEF ListRows, listed
  <2>4. Listing(lists')
    <3>1. lists' \in [Lists -> ListRows \cup {None}]
      BY <2>1, <2>3
    <3>. QED
      BY <1>1, <2>3, <3>1 DEF Listing
  <2>. QED
    BY <1>1, <1>3, <1>8, <2>1, <2>4, ForgottenSound DEF ReorderDomainLists
<1>9. ASSUME NEW on \in BOOLEAN, RoutingSwitch(on) PROVE Goal
  <2>1. config' \in Configs /\ config'.policy = config.policy /\ lists' = lists
    BY <1>1, <1>9 DEF RoutingSwitch, Configs
  <2>. QED
    BY <1>1, <1>3, <1>9, <2>1, ForgottenSound DEF RoutingSwitch
<1>10. ASSUME NEW rt \in Routes, RoutingSetDefault(rt) PROVE Goal
  <2>1. config' \in Configs /\ config'.policy = config.policy /\ lists' = lists
    BY <1>1, <1>10 DEF RoutingSetDefault, Configs
  <2>. QED
    BY <1>1, <1>3, <1>10, <2>1, ForgottenSound DEF RoutingSetDefault
<1>11. ASSUME NEW on \in BOOLEAN, RoutingSetFallback(on) PROVE Goal
  <2>1. /\ config' \in Configs /\ config'.policy = config.policy /\ config'.enabled = config.enabled
        /\ config'.default = config.default
    BY <1>1, <1>11 DEF RoutingSetFallback, Configs
  <2>2. Built' = Built
    BY <1>11, <2>1 DEF RoutingSetFallback, Built, Compile, Consulted, Rows
  <2>3. TablesOK' /\ MemosOK'
    BY <1>1, <1>2, <1>11, <2>1 DEF RoutingSetFallback, KeepOthers, TablesOK, MemosOK, Listing, MemoOK, Ordered
  <2>4. Current'
    BY <1>11, <2>1, <2>2 DEF RoutingSetFallback, KeepOthers, Current
  <2>. QED
    BY <1>3, <1>11, <2>3, <2>4 DEF RoutingSetFallback
<1>12. ASSUME NEW p \in Policies, SetPoolCountryPolicy(p) PROVE Goal
  <2>1. /\ config' \in Configs /\ config'.policy = p /\ config'.enabled = config.enabled
        /\ config'.default = config.default
    BY <1>1, <1>12 DEF SetPoolCountryPolicy, Configs
  <2>2. Built' = Built
    BY <1>12, <2>1 DEF SetPoolCountryPolicy, Built, Compile, Consulted, Rows
  <2>3. TablesOK' /\ MemosOK'
    BY <1>1, <1>2, <1>12, <2>1 DEF SetPoolCountryPolicy, TablesOK, MemosOK, Listing, MemoOK, Ordered
  <2>4. Current'
    BY <1>12, <2>1, <2>2 DEF SetPoolCountryPolicy, Current
  <2>. QED
    BY <1>12, <2>3, <2>4 DEF SetPoolCountryPolicy
<1>13. ASSUME NEW c \in Customs, NEW new \in {"on", "off", "absent"}, SetCustomProxy(c, new) PROVE Goal
  <2>1. TablesOK' /\ MemosOK'
    BY <1>1, <1>2, <1>13 DEF SetCustomProxy, TablesOK, MemosOK, Listing, MemoOK, Ordered
  <2>2. Current'
    BY <1>13 DEF SetCustomProxy, Current, Built, Compile, Consulted, Rows
  <2>. QED
    BY <1>13, <2>1, <2>2 DEF SetCustomProxy
<1>14. ASSUME NEW rt \in Routes \cup {NoRoute}, SetChannel(rt) PROVE Goal
  <2>1. channel' \in Route \cup {NoRoute} /\ channelCache' \in Chans
    BY <1>1, <1>14 DEF SetChannel, Chans, Targets
  <2>2. /\ config' \in Configs /\ config'.policy = config.policy /\ config'.enabled = config.enabled
        /\ config'.default = config.default
    BY <1>1, <1>14, <2>1 DEF SetChannel, Configs
  <2>3. Built' = Built
    BY <1>14, <2>2 DEF SetChannel, Built, Compile, Consulted, Rows
  <2>4. TablesOK' /\ MemosOK'
    BY <1>1, <1>2, <1>14, <2>1, <2>2 DEF SetChannel, TablesOK, MemosOK, Listing, MemoOK, Ordered
  <2>5. Current'
    BY <1>14, <2>2, <2>3 DEF SetChannel, Current
  <2>. QED
    BY <1>14, <2>4, <2>5 DEF SetChannel
<1>15. ASSUME Backup PROVE Goal
  <2>1. backup' # None => backup'.config \in Configs /\ Listing(backup'.lists)
    BY <1>1, <1>15 DEF Backup
  <2>2. TablesOK' /\ MemosOK'
    BY <1>1, <1>2, <1>15, <2>1 DEF Backup, TablesOK, MemosOK, Listing, MemoOK, Ordered
  <2>3. Current'
    BY <1>15 DEF Backup, Current, Built, Compile, Consulted, Rows
  <2>. QED
    BY <1>15, <2>2, <2>3 DEF Backup
<1>16. ASSUME Restore PROVE Goal
  <2>1. config' \in Configs /\ Listing(lists')
    BY <1>16 DEF Restore, TablesOK
  <2>2. TablesOK' /\ MemosOK'
    BY <1>1, <1>2, <1>16, <2>1 DEF Restore, TablesOK, MemosOK, Listing, MemoOK, Ordered
  <2>3. Current'
    BY <1>16 DEF Restore, Current
  <2>. QED
    BY <1>16, <2>2, <2>3 DEF Restore
<1>. HIDE DEF Goal
<1>17. Goal
  BY <1>4, <1>5, <1>6, <1>7, <1>8, <1>9, <1>10, <1>11, <1>12, <1>13, <1>14, <1>15, <1>16
     DEF EditRoutes
<1>. QED
  BY <1>17 DEF Goal

LEMMA TablesSound ==
    ASSUME Sound, EditTables
    PROVE  Sound' /\ NotPast
<1>1. (TablesOK /\ MemosOK /\ Current)' /\ ratings' = ratings
  BY EditRoutesOK, RoutesAssumption DEF EditTables, Sound, Typed
<1>2. ChoicesOK'
  BY <1>1 DEF EditTables, selection, Sound, Typed, ChoicesOK
<1>3. conn \in [Conns -> Coroutines]
  BY DEF Sound, Typed
<1>4. Pool \in Route
  BY DEF Pool, Route
<1>5. ASSUME NEW c \in Conns
      PROVE  /\ conn'[c] \in Coroutines /\ conn'[c].leg = conn[c].leg
             /\ (Carried(conn[c]) /\ Open(conn[c]))'
  <2>. DEFINE q == [conn[c] EXCEPT !.may = @ \cup {Pool}]
  <2>1. conn'[c] = IF conn[c].pc # "idle" /\ config'.fallback THEN q ELSE conn[c]
    BY DEF EditTables
  <2>2. conn[c] \in Coroutines /\ Carried(conn[c])
    BY <1>3 DEF Sound
  <2>3. q \in Coroutines
    BY <1>4, <2>2 DEF Coroutines
  <2>4. /\ q.pc = conn[c].pc /\ q.leg = conn[c].leg /\ q.spare = conn[c].spare
        /\ q.may = conn[c].may \cup {Pool}
    BY <2>2 DEF Coroutines
  <2>. HIDE DEF q
  <2>5. conn'[c] \in Coroutines /\ conn'[c].leg = conn[c].leg
    BY <2>1, <2>2, <2>3, <2>4
  <2>6. (Carried(conn[c]))'
    BY <2>1, <2>2, <2>4 DEF Carried, WayOf
  <2>7. (Open(conn[c]))'
    BY <2>1, <2>4 DEF Open
  <2>. QED
    BY <2>5, <2>6, <2>7
<1>6. conn' \in [Conns -> Coroutines]
  <2>1. conn' = [c \in Conns |-> conn'[c]]
    BY DEF EditTables
  <2>. QED
    BY <1>5, <2>1
<1>7. NotPast
  BY <1>5 DEF NotPast
<1>. QED
  BY <1>1, <1>2, <1>5, <1>6, <1>7 DEF Sound, Typed

-----------------------------------------------------------------------------
(* The theorems.                                                           *)

LEMMA InitSound == Init => Sound
<1>. SUFFICES ASSUME Init PROVE Sound
  OBVIOUS
<1>1. TablesOK
  BY InitAssumption, RoutingAssumption DEF Init, RoutingInit, TablesOK, Configs
<1>2. MemosOK
  BY DEF Init, RoutingInit, MemosOK, Chans, Targets
<1>3. ChoicesOK
  BY InitAssumption DEF Init, ChoicesOK
<1>4. Idle \in Coroutines /\ Carried(Idle) /\ Open(Idle)
  <2>1. NoLeg \in Legs /\ Straight(NoLeg) /\ NoLeg.mode = "none"
    BY NewLeg DEF NoLeg, Targets
  <2>2. 0 \in 0 .. Replays
    BY UpstreamAssumption
  <2>. QED
    BY <2>1, <2>2 DEF Idle, Coroutines, Carried, Open
<1>5. conn \in [Conns -> Coroutines] /\ \A c \in Conns : conn[c] = Idle
  BY <1>4 DEF Init
<1>6. Current
  BY DEF Init, RoutingInit, Current
<1>. QED
  BY <1>1, <1>2, <1>3, <1>4, <1>5, <1>6 DEF Sound, Typed

LEMMA StutterSound == Sound /\ UNCHANGED vars => Sound' /\ NotPast
<1>. SUFFICES ASSUME Sound, UNCHANGED vars PROVE Sound' /\ NotPast
  OBVIOUS
<1>1. /\ edits' \in 0 .. MaxEdits /\ ChoicesOK' /\ channelCache' \in Chans
      /\ UNCHANGED <<config, lists, customs, channel, backup, cache, policyCache, behind, conn>>
  BY DEF vars, routingVars, Sound, Typed, TablesOK, ChoicesOK, MemosOK
<1>. QED
  BY <1>1, ChoiceSound

LEMMA NextSound == Sound /\ [Next]_vars => Sound' /\ NotPast
<1>. SUFFICES ASSUME Sound, [Next]_vars PROVE Sound' /\ NotPast
  OBVIOUS
<1>1. ASSUME NEW c \in Conns,
             \/ \E h \in Hosts :
                   \/ \E form \in Forms : HttpRequest(c, h, form)
                   \/ Socks5Request(c, h)
                   \/ \E plain \in BOOLEAN : Intercepted(c, h, plain)
             \/ Step(c) \/ RelayEnds(c)
      PROVE  Sound' /\ NotPast
  BY <1>1, RequestSound, FailureSound, AnswerSound DEF Step
<1>2. CASE EditTables
  BY <1>2, TablesSound
<1>3. CASE UNCHANGED vars
  BY <1>3, StutterSound
<1>. QED
  BY <1>1, <1>2, <1>3, OperatorSound DEF Next

\* The invariant holds of every behaviour.
THEOREM AlwaysSound == Spec => []Sound
<1>. QED
  BY InitSound, NextSound, PTL DEF Spec

\* Settings, lists, ratings, memos and coroutines keep their types, whatever is
\* edited, restored, retried and replayed.
THEOREM TypeCorrect == Spec => []TypeOK
<1>1. Sound => TypeOK
  BY DEF Sound, Typed, TablesOK, MemosOK, ChoicesOK, TypeOK, Coroutines, Legs, Chans, Targets
<1>. QED
  BY <1>1, AlwaysSound, PTL

\* Every change of a list or of a setting is felt by the next connection: the
\* compiled routes name for every host the route that routing_test reads from
\* the tables, with any lists and priorities, and the country policy is the
\* stored one, except behind a restored backup.
THEOREM ChangesAreFelt == Spec => []MemosAreCurrent
<1>1. Sound => MemosAreCurrent
  BY Match DEF Sound, Typed, TablesOK, Current, MemosAreCurrent
<1>. QED
  BY <1>1, AlwaysSound, PTL

\* Traffic goes only where the tables let it, through any number of retries,
\* replays, failed proxies and selections: never into the pool or out directly
\* unless the route or the fallback switch says so.
THEOREM TrafficAsRouted == Spec => []CarriedAsRouted
<1>1. Sound => CarriedAsRouted
  BY DEF Sound, Carried, CarriedAsRouted
<1>. QED
  BY <1>1, AlwaysSound, PTL

\* While a channel is set, no connection is opened past it.
THEOREM ChannelIsKept == Spec => NeverPastChannel
<1>1. Sound /\ [Next]_vars =>
        [\A c \in Conns : conn'[c].leg.mode = "direct" /\ conn'[c].leg # conn[c].leg
                              => ~ChannelIsSet]_vars
  BY NextSound DEF NotPast
<1>. QED
  BY <1>1, AlwaysSound, PTL DEF Spec, NeverPastChannel

===============================================================================
