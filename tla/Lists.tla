-------------------------------- MODULE Lists --------------------------------
(* The lists the program downloads: proxy sources (proxy_sources.py), IP    *)
(* blacklists (ip_blacklist_sources.py, ip_blacklist.py) and country        *)
(* blocklists of addresses and of domains (blocklists.py).  Each source has *)
(* rows in the database; proxy sources and IP lists are also kept in        *)
(* memory.  A download fetches all enabled sources of its kind at once, as  *)
(* tasks of the event loop, for the operator, for a hunt or for a scheduled *)
(* task; downloads overlap, are skipped (_gather_skip_aware), cancelled     *)
(* from outside, and meet edits of the sources and restarts.                *)
EXTENDS Integers, FiniteSets

CONSTANTS
    ProxySources, IpSources, IpBlocklists, DomainBlocklists, \* ids of sources
    DefaultSources,     \* those of constants.py
    Addrs, Domains,     \* what the texts of proxy and domain lists consist of
    Last,               \* the IP addresses are 0 .. Last
    Texts,              \* the texts an IP list may be, each a set of tokens
    Downloads,          \* calls of _download_... that may overlap
    MaxDownloads, MaxEdits, \* bounds: downloads begun, edits made
    None

Blocklists == IpBlocklists \cup DomainBlocklists
IpLists == IpSources \cup IpBlocklists
Sources == ProxySources \cup IpSources \cup Blocklists
Kinds == {"proxies", "ips", "blocklists"}
Callers == {"operator", "hunt", "task"}
Of(k) == CASE k = "proxies" -> ProxySources [] k = "ips" -> IpSources [] OTHER -> Blocklists
KindOf(s) == CHOOSE k \in Kinds : s \in Of(k)
Ips == 0 .. Last

ASSUME ListsAssumption ==
    /\ Last \in Nat /\ MaxDownloads \in Nat /\ MaxEdits \in Nat
    /\ ProxySources \cap (IpSources \cup Blocklists) = {}
    /\ IpSources \cap Blocklists = {} /\ IpBlocklists \cap DomainBlocklists = {}
    /\ None \notin Kinds \cup Callers

VARIABLES
    source,         \* the row of each source: "absent", "on" or "off"
    rows,           \* its entries in the database
    source_proxies, \* _source_proxies (and its inverse, _addr_sources)
    entries,        \* ip_blacklist_entries: pairs of a key and a source
    exact,          \* ip_blacklist_exact
    networks,       \* ip_blacklist_networks
    kind, caller,   \* what each download fetches, and for whom
    stage,          \* "free", "gather", or "cut" when its caller was cancelled
    pending,        \* its sources whose fetch task is alive
    reloads,        \* the downloads of blocklists with an IP list among them
    fetching,       \* the kinds whose _fetching_... flag is set
    skip_event,     \* _skip_event
    woken,          \* the downloads whose wait for it is over
    orphaned,       \* history: a download of proxy sources was cancelled, or has
                    \* stored rows after that, since the last load
    begun, edits    \* counters for the bounds

tableVars == <<source, rows>>
ipVars == <<entries, exact, networks>>
proxyVars == <<source_proxies, orphaned>>
memoryVars == <<proxyVars, ipVars>>
callVars == <<kind, caller, stage, pending, reloads, fetching>>
skipVars == <<skip_event, woken>>
boundVars == <<begun, edits>>
vars == <<tableVars, memoryVars, callVars, skipVars, boundVars>>

-----------------------------------------------------------------------------
(* Entries of an IP list.  A key is the text of an address or of a network *)
(* lo .. hi; slash tells "a.b.c.d/32" from "a.b.c.d".                      *)

Powers == {2 ^ i : i \in 0 .. Last}
Blocks == {b \in Ips \X Ips :
    \E n \in Powers : b[1] % n = 0 /\ b[2] = b[1] + n - 1}
Key(lo, hi, slash) == [lo |-> lo, hi |-> hi, slash |-> slash]
Keys == {k \in [lo : Ips, hi : Ips, slash : BOOLEAN] : <<k.lo, k.hi>> \in Blocks}
Single(k) == k.lo = k.hi
ASSUME TextsAssumption ==
    \A text \in Texts : \A token \in text :
        /\ token \in [range : BOOLEAN, lo : Ips, hi : Ips]
        /\ ~token.range => <<token.lo, token.hi>> \in Blocks
Covers(k, ip) == k.lo <= ip /\ ip <= k.hi

\* ipaddress.summarize_address_range: the largest blocks that fit.
Summarized(lo, hi) ==
    LET fits(b) == lo <= b[1] /\ b[2] <= hi
    IN {b \in Blocks : fits(b) /\ \A c \in Blocks :
            fits(c) /\ c[1] <= b[1] /\ b[2] <= c[2] => c = b}

\* _parse_ip_range and _parse_ip_network: a range leaves networks only, also
\* where they have one address.
Parsed(token) ==
    IF token.range THEN {Key(b[1], b[2], TRUE) : b \in Summarized(token.lo, token.hi)}
    ELSE {Key(token.lo, token.hi, token.lo # token.hi)}
ParsedText(text) == UNION {Parsed(token) : token \in text}

Hit(ip) == \* _is_ip_blacklisted: the sources reported for an address
    LET found == {k \in networks : Covers(k, ip)} \cup ({Key(ip, ip, FALSE)} \cap exact)
    IN {e[2] : e \in {f \in entries : f[1] \in found}}

-----------------------------------------------------------------------------
TypeOK ==
    /\ source \in [Sources -> {"absent", "on", "off"}]
    /\ rows \in [Sources -> SUBSET (Addrs \cup Keys \cup Domains)]
    /\ \A s \in ProxySources : rows[s] \subseteq Addrs
    /\ \A s \in IpLists : rows[s] \subseteq Keys
    /\ \A s \in DomainBlocklists : rows[s] \subseteq Domains
    /\ source_proxies \in [ProxySources -> SUBSET Addrs]
    /\ entries \subseteq Keys \X IpLists
    /\ exact \subseteq Keys /\ networks \subseteq Keys
    /\ kind \in [Downloads -> Kinds \cup {None}]
    /\ caller \in [Downloads -> Callers \cup {None}]
    /\ stage \in [Downloads -> {"free", "gather", "cut"}]
    /\ pending \in [Downloads -> SUBSET Sources]
    /\ \A d \in Downloads :
        /\ stage[d] = "free" <=> kind[d] = None
        /\ stage[d] = "free" => pending[d] = {}
        /\ stage[d] # "free" => pending[d] \subseteq Of(kind[d])
    /\ reloads \subseteq Downloads /\ fetching \subseteq Kinds /\ orphaned \in BOOLEAN
    /\ skip_event \in BOOLEAN /\ woken \subseteq Downloads
    /\ begun \in 0 .. MaxDownloads /\ edits \in 0 .. MaxEdits

Free(d) == kind' = [kind EXCEPT ![d] = None] /\ caller' = [caller EXCEPT ![d] = None]
           /\ reloads' = reloads \ {d}
\* The default sources have been seeded; the operator may have made some more,
\* and nothing has been downloaded yet.
Init ==
    /\ \E own \in SUBSET ((ProxySources \cup IpSources) \ DefaultSources) :
        source = [s \in Sources |-> IF s \in DefaultSources \cup own THEN "on" ELSE "absent"]
    /\ rows = [s \in Sources |-> {}]
    /\ source_proxies = [s \in ProxySources |-> {}]
    /\ entries = {} /\ exact = {} /\ networks = {}
    /\ kind = [d \in Downloads |-> None] /\ caller = [d \in Downloads |-> None]
    /\ stage = [d \in Downloads |-> "free"] /\ pending = [d \in Downloads |-> {}]
    /\ reloads = {} /\ fetching = {}
    /\ skip_event = FALSE /\ woken = {} /\ orphaned = FALSE
    /\ begun = 0 /\ edits = 0

-----------------------------------------------------------------------------
(* The database and the memory.                                            *)

AddRows(s, new) == rows' = [rows EXCEPT ![s] = @ \cup new]        \* mutated
StoreRows(s, new) == rows' = [rows EXCEPT ![s] = new]

\* _load_all_proxy_source_entries.
LoadProxies == source_proxies' = [s \in ProxySources |-> rows'[s]] /\ orphaned' = FALSE

\* _load_ip_blacklist_from_db(accumulate=False): here a key is a network only
\* if it has several addresses.
LoadIps ==
    /\ entries' = UNION {rows'[s] \X {s} : s \in IpLists}
    /\ exact' = {e[1] : e \in {f \in entries' : Single(f[1])}}
    /\ networks' = {e[1] : e \in {f \in entries' : ~Single(f[1])}}
ClearIndex == UNCHANGED entries /\ exact' = {} /\ networks' = {}    \* mutated
ClearIps == entries' = {} /\ exact' = {} /\ networks' = {}

\* _parse_ip_blacklist(accumulate=True, persist=True): a key the source has
\* in memory already changes nothing there.
ParseIps(s, text) ==
    LET keys == ParsedText(text)
        new == {k \in keys : <<k, s>> \notin entries}
    IN /\ entries' = entries \cup (new \X {s})
       /\ exact' = exact \cup {k \in new : ~k.slash}
       /\ networks' = networks \cup {k \in new : k.slash}
       /\ IF keys = {} THEN UNCHANGED rows ELSE StoreRows(s, keys)

-----------------------------------------------------------------------------
(* A download.                                                             *)

Alive(d) == stage[d] = "gather"
Runs(c) == \E d \in Downloads : Alive(d) /\ caller[d] = c

\* The handlers and the executors refuse while the flag is set, but nothing
\* looks at a flag for a hunt, or for a scheduled refresh of the sources.  A
\* manual hunt stops the tasks and keeps the scheduler from new ones.
OperatorMay(k) == k \notin fetching
TaskMay(k) ==
    /\ k \in {"ips", "blocklists"} => k \notin fetching
    /\ ~Runs("hunt") /\ \A d \in Downloads : ~(Alive(d) /\ caller[d] = "task" /\ kind[d] = k)
HuntMay == ~Runs("hunt") /\ ~Runs("task")
Admitted(k, c) ==
    CASE c = "operator" -> OperatorMay(k) [] c = "task" -> TaskMay(k) [] OTHER -> HuntMay
Flagged(k, c) == k = "blocklists" \/ c = "operator"

Enabled(k) == {s \in Of(k) : source[s] = "on"}
Begin(d, k, c) ==
    /\ stage[d] = "free" /\ begun < MaxDownloads /\ Admitted(k, c)
    /\ kind' = [kind EXCEPT ![d] = k] /\ caller' = [caller EXCEPT ![d] = c]
    /\ stage' = [stage EXCEPT ![d] = "gather"]
    /\ pending' = [pending EXCEPT ![d] = Enabled(k)]
    /\ fetching' = IF Flagged(k, c) THEN fetching \cup {k} ELSE fetching
    /\ woken' = IF skip_event THEN woken \cup {d} ELSE woken
    /\ begun' = begun + 1
    /\ UNCHANGED <<tableVars, proxyVars, skip_event, edits>>
BeginProxies(d, c) == Begin(d, "proxies", c) /\ UNCHANGED <<ipVars, reloads>>
\* The memory is emptied first.
BeginIps(d, c) == Begin(d, "ips", c) /\ ClearIps /\ UNCHANGED reloads
BeginBlocklists(d, c) ==
    /\ Begin(d, "blocklists", c) /\ UNCHANGED ipVars
    /\ reloads' = IF Enabled("blocklists") \cap IpBlocklists # {} THEN reloads \cup {d} ELSE reloads

\* A fetch task ends: _fetch_one_source, _fetch_one_ipbl, or fetch of
\* _download_blocklists.  It goes on after its caller was cancelled.
Ended(d, s) ==
    LET left == pending[d] \ {s} IN
    /\ pending' = [pending EXCEPT ![d] = left]
    /\ IF stage[d] = "cut" /\ left = {}
       THEN stage' = [stage EXCEPT ![d] = "free"] /\ Free(d)
       ELSE UNCHANGED <<stage, kind, caller, reloads>>

\* The text has come: it replaces the rows of the source, except that an IP
\* list or a domain list in which nothing is found leaves them as they are.
\* Rows, and the IP lists in memory, change at once.
ProxyText(d, s) ==
    /\ s \in pending[d] \cap ProxySources
    /\ \E found \in SUBSET Addrs : StoreRows(s, found)
    /\ orphaned' = (orphaned \/ stage[d] = "cut") /\ UNCHANGED <<source_proxies, ipVars>>
IpText(d, s) ==
    /\ s \in pending[d] \cap IpLists
    /\ \E text \in Texts : ParseIps(s, text)
    /\ UNCHANGED proxyVars
DomainText(d, s) ==
    /\ s \in pending[d] \cap DomainBlocklists
    /\ \E found \in SUBSET Domains : IF found = {} THEN UNCHANGED rows ELSE StoreRows(s, found)
    /\ UNCHANGED memoryVars
Received(d, s) ==
    /\ ProxyText(d, s) \/ IpText(d, s) \/ DomainText(d, s)
    /\ Ended(d, s)
    /\ UNCHANGED <<source, fetching, skipVars, boundVars>>

\* No bytes for too long, or curl fails: the error is recorded.
Failed(d, s) ==
    /\ s \in pending[d] /\ Ended(d, s)
    /\ UNCHANGED <<tableVars, memoryVars, fetching, skipVars, boundVars>>

Fetch(d) == \E s \in pending[d] : Received(d, s) \/ Failed(d, s)

\* What follows the wait: proxy sources are loaded again, and the IP lists
\* after blocklists.
ReleaseUnlessSkipped(d) ==                                          \* mutated
    fetching' = IF Flagged(kind[d], caller[d]) /\ d \notin woken
                THEN fetching \ {kind[d]} ELSE fetching
Release(d) ==
    fetching' = IF Flagged(kind[d], caller[d]) THEN fetching \ {kind[d]} ELSE fetching
Return(d) ==
    /\ stage' = [stage EXCEPT ![d] = "free"] /\ pending' = [pending EXCEPT ![d] = {}]
    /\ Free(d) /\ Release(d) /\ woken' = woken \ {d}
    /\ IF kind[d] = "proxies" THEN LoadProxies ELSE UNCHANGED proxyVars
    /\ IF d \in reloads THEN LoadIps ELSE UNCHANGED ipVars
    /\ UNCHANGED <<source, boundVars>>

Done(d) ==
    /\ Alive(d) /\ pending[d] = {}
    /\ rows' = rows /\ Return(d) /\ UNCHANGED skip_event

\* _gather_skip_aware after a skip: the tasks are cancelled.
CutShort(d) ==
    /\ Alive(d) /\ d \in woken
    /\ rows' = rows /\ Return(d) /\ skip_event' = FALSE

\* The hunt is stopped or the task cancelled: the fetch tasks stay.
Cancelled(d) ==
    /\ Alive(d) /\ caller[d] # "operator"
    /\ Release(d) /\ woken' = woken \ {d}
    /\ IF pending[d] = {}
       THEN stage' = [stage EXCEPT ![d] = "free"] /\ Free(d)
       ELSE /\ stage' = [stage EXCEPT ![d] = "cut"]
            /\ UNCHANGED <<kind, caller, reloads>>
    /\ orphaned' = (orphaned \/ kind[d] = "proxies")
    /\ UNCHANGED <<tableVars, source_proxies, ipVars, pending, skip_event, boundVars>>

\* skip_phase, in whatever phase the hunt is.
Skip ==
    /\ ~skip_event /\ skip_event' = TRUE
    /\ woken' = woken \cup {d \in Downloads : Alive(d)}
    /\ UNCHANGED <<tableVars, memoryVars, callVars, boundVars>>

Download(d) ==
    \/ \E c \in Callers : BeginProxies(d, c) \/ BeginIps(d, c) \/ BeginBlocklists(d, c)
    \/ Fetch(d) \/ Done(d) \/ CutShort(d) \/ Cancelled(d)

-----------------------------------------------------------------------------
(* The operator edits the sources.                                         *)

Edit == edits < MaxEdits /\ edits' = edits + 1
        /\ UNCHANGED <<callVars, skipVars, begun>>

\* INSERT of a source that does not exist; with OR IGNORE or without, an
\* existing one stays as it is.
Inserted(s) ==
    /\ Edit /\ source[s] = "absent"
    /\ \E e \in {"on", "off"} : source' = [source EXCEPT ![s] = e]
    /\ UNCHANGED <<rows, memoryVars>>

EmptiedOnDisk(s) == StoreRows(s, {}) /\ UNCHANGED memoryVars         \* mutated
\* The rows of s go and its kind is loaded again.
Emptied(s) ==
    /\ StoreRows(s, {})
    /\ IF s \in ProxySources THEN LoadProxies /\ UNCHANGED ipVars
       ELSE LoadIps /\ UNCHANGED proxyVars

Becomes(s, e) == Edit /\ source[s] # "absent" /\ source' = [source EXCEPT ![s] = e]
Keeps == UNCHANGED <<rows, memoryVars>>
Opposite(s) == IF source[s] = "on" THEN "off" ELSE "on"
EmptiedIfOff(s) == IF source'[s] = "off" THEN Emptied(s) ELSE Keeps

CreateProxySource(s) == s \in ProxySources /\ Inserted(s)
UpdateProxySource(s) ==
    s \in ProxySources /\ (\E e \in {"on", "off"} : Becomes(s, e)) /\ EmptiedIfOff(s)
ToggleProxySource(s) == s \in ProxySources /\ Becomes(s, Opposite(s)) /\ EmptiedIfOff(s)
DeleteProxySource(s) == s \in ProxySources /\ Becomes(s, "absent") /\ Emptied(s)

CreateIpSource(s) == s \in IpSources /\ Inserted(s)
UpdateIpSource(s) ==
    s \in IpSources /\ (\E e \in {"on", "off"} : Becomes(s, e)) /\ EmptiedIfOff(s)
ToggleIpSource(s) == s \in IpSources /\ Becomes(s, Opposite(s)) /\ EmptiedIfOff(s)
DeleteIpSource(s) == s \in IpSources /\ Becomes(s, "absent") /\ Emptied(s)

\* The entries of a blocklist that is switched off stay; those of a deleted
\* one go, but nothing is loaded again.
CreateBlocklist(s) == s \in Blocklists /\ Inserted(s)
UpdateBlocklist(s) ==
    s \in Blocklists /\ (\E e \in {"on", "off"} : Becomes(s, e)) /\ Keeps
ToggleBlocklist(s) == s \in Blocklists /\ Becomes(s, Opposite(s)) /\ Keeps
DeleteBlocklist(s) ==
    s \in Blocklists /\ Becomes(s, "absent") /\ StoreRows(s, {}) /\ UNCHANGED memoryVars

ProxyEdits(s) ==
    CreateProxySource(s) \/ UpdateProxySource(s) \/ ToggleProxySource(s) \/ DeleteProxySource(s)
IpEdits(s) == CreateIpSource(s) \/ UpdateIpSource(s) \/ ToggleIpSource(s) \/ DeleteIpSource(s)
BlocklistEdits(s) ==
    CreateBlocklist(s) \/ UpdateBlocklist(s) \/ ToggleBlocklist(s) \/ DeleteBlocklist(s)
Edits == \E s \in Sources : ProxyEdits(s) \/ IpEdits(s) \/ BlocklistEdits(s)

-----------------------------------------------------------------------------
(* The process ends anywhere and is started again.                         *)

\* _seed_default_... and _migrate_...: a default source that is missing comes
\* back.
MigratedProxies(s) ==
    IF s \in DefaultSources /\ source[s] = "absent" THEN "on" ELSE source[s]
MigratedIps(s) ==
    IF s \in DefaultSources /\ source[s] = "absent" THEN "on" ELSE source[s]
\* Every blocklist that is not a default one goes, and its rows with it.
MigratedBlocklists(s) ==
    CASE s \notin DefaultSources -> "absent"
      [] source[s] = "absent" -> "on"
      [] OTHER -> source[s]
KeptRows(s) ==
    IF s \in Blocklists \ DefaultSources /\ source[s] # "absent" THEN {} ELSE rows[s]
Migrated(s) ==
    CASE s \in ProxySources -> MigratedProxies(s)
      [] s \in IpSources -> MigratedIps(s)
      [] OTHER -> MigratedBlocklists(s)

Restart ==
    /\ source' = [s \in Sources |-> Migrated(s)]
    /\ rows' = [s \in Sources |-> KeptRows(s)]
    /\ LoadProxies /\ LoadIps
    /\ kind' = [d \in Downloads |-> None] /\ caller' = [d \in Downloads |-> None]
    /\ stage' = [d \in Downloads |-> "free"] /\ pending' = [d \in Downloads |-> {}]
    /\ reloads' = {} /\ fetching' = {}
    /\ skip_event' = FALSE /\ woken' = {}
    /\ UNCHANGED boundVars

Next == (\E d \in Downloads : Download(d)) \/ Skip \/ Edits \/ Restart
Spec == Init /\ [][Next]_vars

\* Every fetch ends: curl and stream_download give up a connection without
\* bytes, and a list is finite.  The event loop runs what is ready.
Fairness == \A d \in Downloads : WF_vars(Fetch(d)) /\ WF_vars(Done(d))
FairSpec == Spec /\ Fairness

-----------------------------------------------------------------------------
(* Properties.                                                             *)

\* The addresses of the sources in memory, which the pool of a hunt and the
\* statistics are made from, are those of the database whenever no download
\* of them is under way (its fetch tasks included), except after one whose
\* caller was cancelled: that one loads nothing.
SourcesAreStored ==
    ~orphaned /\ (\A d \in Downloads : kind[d] # "proxies")
        => \A s \in ProxySources : source_proxies[s] = rows[s]

\* No IP list is ever half in memory, whichever downloads, reloads and edits
\* overlap: it has all its rows there, or none of them.
InMemory(s) == {e[1] : e \in {f \in entries : f[2] = s}}
NeverHalfListed ==
    \A s \in IpLists : InMemory(s) # {} => rows[s] \subseteq InMemory(s)

\* An address is reported for exactly the sources that have an entry in
\* memory which covers it.  Not found is a network of a single address that a
\* reload has put among the addresses, as "a.b.c.d/32".
Findable(k) == k \in networks \/ ~(Single(k) /\ k.slash)
LookupExact ==
    \A ip \in Ips :
        Hit(ip) = {e[2] : e \in {f \in entries : Covers(f[1], ip) /\ Findable(f[1])}}

\* A flag that refuses the buttons and the scheduled tasks belongs to a download
\* that will release it: none is left behind by skips, cancellations, overlapping
\* downloads and restarts.
FlagHasDownload ==
    \A k \in fetching :
        \E d \in Downloads : Alive(d) /\ kind[d] = k /\ Flagged(k, caller[d])

\* A button that is refused because a fetch is under way works again later.
FlagsAreReleased == \A k \in Kinds : k \in fetching ~> k \notin fetching
=============================================================================
