------------------------------ MODULE ListsProofs ------------------------------
(* Theorems about Lists, for any sources, addresses, texts and downloads.    *)
(* Types; what the lists in memory have to do with their rows, which every   *)
(* step keeps (NeverHalfListed is inductive as it stands); the two lookup    *)
(* structures, which have every key of the entries between them (Indexed);   *)
(* and the proxy sources, which differ from their rows only while somebody   *)
(* will load them (Followed).                                                *)
EXTENDS Lists, TLAPS

-----------------------------------------------------------------------------
(* What is parsed, stored and removed.                                     *)

\* A text gives keys, and one without a slash is a single address.
LEMMA ParsedKeys ==
    ASSUME NEW text \in Texts
    PROVE  ParsedText(text) \subseteq Keys /\ \A k \in ParsedText(text) : ~k.slash => Single(k)
<1>1. ASSUME NEW token \in text, NEW k \in Parsed(token)
      PROVE  k \in Keys /\ (~k.slash => Single(k))
  <2>1. token \in [range : BOOLEAN, lo : Ips, hi : Ips] /\ (~token.range => <<token.lo, token.hi>> \in Blocks)
    BY TextsAssumption
  <2>2. CASE token.range
    <3>1. PICK b \in Summarized(token.lo, token.hi) : k = Key(b[1], b[2], TRUE)
      BY <2>2 DEF Parsed
    <3>2. b \in Blocks
      BY <3>1 DEF Summarized
    <3>. QED
      BY <3>1, <3>2 DEF Keys, Key, Blocks
  <2>3. CASE ~token.range
    <3>1. k = Key(token.lo, token.hi, token.lo # token.hi)
      BY <2>3 DEF Parsed
    <3>2. <<token.lo, token.hi>> \in Blocks /\ (token.lo # token.hi) \in BOOLEAN
      BY <2>1, <2>3
    <3>. QED
      BY <2>1, <3>1, <3>2 DEF Keys, Key, Single
  <2>. QED
    BY <2>2, <2>3
<1>. QED
  BY <1>1 DEF ParsedText

\* The three kinds of sources.
LEMMA OfKinds ==
    /\ Of("proxies") = ProxySources /\ Of("ips") = IpSources /\ Of("blocklists") = Blocklists
    /\ \A k \in Kinds : Of(k) \subseteq Sources
<1>1. Of("proxies") = ProxySources /\ Of("ips") = IpSources /\ Of("blocklists") = Blocklists
  BY DEF Of
<1>. QED
  BY <1>1 DEF Kinds, Sources, Blocklists

-----------------------------------------------------------------------------
(* The IP lists in memory.                                                 *)

\* Rows of each kind of source.
Stored ==
    /\ rows \in [Sources -> SUBSET (Addrs \cup Keys \cup Domains)]
    /\ \A s \in ProxySources : rows[s] \subseteq Addrs
    /\ \A s \in IpLists : rows[s] \subseteq Keys
    /\ \A s \in DomainBlocklists : rows[s] \subseteq Domains
\* A key among the addresses is one, and every key of the entries can be looked up.
Indexed ==
    /\ \A k \in exact : Single(k)
    /\ \A e \in entries : e[1] \in exact \cup networks
InRam ==
    /\ entries \subseteq Keys \X IpLists /\ exact \subseteq Keys /\ networks \subseteq Keys
    /\ NeverHalfListed /\ Indexed

\* Replacing the rows of a source keeps their kind.
LEMMA StoreKeeps ==
    ASSUME Stored, NEW s \in Sources, NEW new, StoreRows(s, new),
           s \in ProxySources => new \subseteq Addrs, s \in IpLists => new \subseteq Keys,
           s \in DomainBlocklists => new \subseteq Domains
    PROVE  Stored'
BY DEF Stored, StoreRows, Sources, Blocklists, IpLists

\* A list that is parsed is in memory with all its rows, whatever was there before.
LEMMA ParseKeeps ==
    ASSUME Stored, InRam, NEW s \in IpLists, NEW text \in Texts, ParseIps(s, text)
    PROVE  Stored' /\ InRam'
<1>. DEFINE keys == ParsedText(text)
            new == {k \in keys : <<k, s>> \notin entries}
<1>1. keys \subseteq Keys /\ \A k \in keys : ~k.slash => Single(k)
  BY ParsedKeys
<1>2. /\ entries' = entries \cup (new \X {s})
      /\ exact' = exact \cup {k \in new : ~k.slash}
      /\ networks' = networks \cup {k \in new : k.slash}
  BY DEF ParseIps
<1>3. rows' = IF keys = {} THEN rows ELSE [rows EXCEPT ![s] = keys]
  BY DEF ParseIps, StoreRows
<1>4. Stored'
  <2>1. CASE keys = {}
    BY <1>3, <2>1 DEF Stored
  <2>2. CASE keys # {}
    <3>1. s \in Sources /\ s \notin ProxySources /\ s \notin DomainBlocklists
      BY ListsAssumption DEF IpLists, Sources, Blocklists
    <3>2. StoreRows(s, keys)
      BY <1>3, <2>2 DEF StoreRows
    <3>. QED
      BY <1>1, <3>1, <3>2, StoreKeeps
  <2>. QED
    BY <2>1, <2>2
<1>5. entries' \subseteq Keys \X IpLists /\ exact' \subseteq Keys /\ networks' \subseteq Keys
  BY <1>1, <1>2 DEF InRam
<1>6. NeverHalfListed'
  <2>. SUFFICES ASSUME NEW r \in IpLists, InMemory(r)' # {}
                PROVE  rows'[r] \subseteq InMemory(r)'
    BY DEF NeverHalfListed
  <2>1. CASE r = s
    <3>1. keys \subseteq InMemory(s)'
      <4>. SUFFICES ASSUME NEW k \in keys PROVE k \in InMemory(s)'
        OBVIOUS
      <4>1. <<k, s>> \in entries'
        BY <1>2
      <4>. QED
        BY <4>1 DEF InMemory
    <3>2. CASE keys = {}
      <4>1. entries' = entries /\ rows' = rows
        BY <1>2, <1>3, <3>2
      <4>. QED
        BY <4>1 DEF InRam, NeverHalfListed, InMemory
    <3>3. CASE keys # {}
      BY <1>3, <2>1, <3>1, <3>3 DEF Stored, IpLists, Sources, Blocklists
    <3>. QED
      BY <3>2, <3>3
  <2>2. CASE r # s
    <3>1. InMemory(r)' = InMemory(r)
      BY <1>2, <2>2 DEF InMemory
    <3>2. rows'[r] = rows[r]
      BY <1>3, <2>2 DEF Stored
    <3>. QED
      BY <3>1, <3>2 DEF InRam, NeverHalfListed
  <2>. QED
    BY <2>1, <2>2
<1>7. Indexed'
  <2>1. \A k \in exact' : Single(k)
    BY <1>1, <1>2 DEF InRam, Indexed
  <2>2. ASSUME NEW e \in entries' PROVE e[1] \in exact' \cup networks'
    BY <1>2, <2>2 DEF InRam, Indexed
  <2>. QED
    BY <2>1, <2>2 DEF Indexed
<1>. QED
  BY <1>4, <1>5, <1>6, <1>7 DEF InRam

\* A reload brings all rows into memory.
LEMMA LoadKeeps ==
    ASSUME Stored', LoadIps
    PROVE  InRam'
<1>1. entries' = UNION {rows'[s] \X {s} : s \in IpLists}
  BY DEF LoadIps
<1>2. entries' \subseteq Keys \X IpLists
  <2>. SUFFICES ASSUME NEW s \in IpLists, NEW e \in rows'[s] \X {s} PROVE e \in Keys \X IpLists
    BY <1>1
  <2>. QED
    BY DEF Stored
<1>3. exact' \subseteq Keys /\ networks' \subseteq Keys
  BY <1>2 DEF LoadIps
<1>4. NeverHalfListed'
  <2>. SUFFICES ASSUME NEW s \in IpLists, NEW k \in rows'[s] PROVE k \in InMemory(s)'
    BY DEF NeverHalfListed
  <2>1. <<k, s>> \in entries'
    BY <1>1
  <2>. QED
    BY <2>1 DEF InMemory
<1>5. Indexed'
  BY DEF Indexed, LoadIps
<1>. QED
  BY <1>2, <1>3, <1>4, <1>5 DEF InRam

\* An empty memory lists nothing.
LEMMA ClearKeeps ==
    ASSUME ClearIps
    PROVE  InRam'
BY DEF ClearIps, InRam, NeverHalfListed, InMemory, Indexed

\* Memory that is left alone is right as long as no list gets other rows.
LEMMA SameKeeps ==
    ASSUME InRam, UNCHANGED ipVars, \A s \in IpLists : rows'[s] \in {rows[s], {}}
    PROVE  InRam'
BY DEF InRam, NeverHalfListed, InMemory, Indexed, ipVars

\* Rows and memory after the rows of s have gone.
LEMMA EmptiedKeeps ==
    ASSUME Stored, InRam, NEW s \in Sources, Emptied(s)
    PROVE  Stored' /\ InRam'
<1>1. Stored'
  BY StoreKeeps DEF Emptied
<1>2. CASE s \in ProxySources
  BY <1>1, <1>2, SameKeeps DEF Emptied, StoreRows, Stored, IpLists, Sources, Blocklists
<1>3. CASE s \notin ProxySources
  BY <1>1, <1>3, LoadKeeps DEF Emptied
<1>. QED
  BY <1>1, <1>2, <1>3

\* A download whose wait is over leaves the rows and reloads the lists, or not.
LEMMA ReturnKeeps ==
    ASSUME Stored, InRam, NEW d \in Downloads, rows' = rows, Return(d)
    PROVE  Stored' /\ InRam'
<1>1. Stored'
  BY DEF Stored
<1>2. CASE d \in reloads
  BY <1>1, <1>2, LoadKeeps DEF Return
<1>3. CASE d \notin reloads
  BY <1>1, <1>3, SameKeeps DEF Return
<1>. QED
  BY <1>1, <1>2, <1>3

\* Rows and memory are right again after every edit of a source.
LEMMA EditKeeps ==
    ASSUME Stored, InRam, NEW s \in Sources, ProxyEdits(s) \/ IpEdits(s) \/ BlocklistEdits(s)
    PROVE  Stored' /\ InRam'
<1>1. CASE rows' = rows /\ UNCHANGED ipVars
  BY <1>1, SameKeeps DEF Stored
<1>2. CASE Emptied(s)
  BY <1>2, EmptiedKeeps
<1>3. CASE StoreRows(s, {}) /\ UNCHANGED ipVars
  <2>1. Stored'
    BY <1>3, StoreKeeps
  <2>. QED
    BY <1>3, <2>1, SameKeeps DEF StoreRows, Stored, IpLists, Sources, Blocklists
<1>4. \/ rows' = rows /\ UNCHANGED ipVars
      \/ Emptied(s)
      \/ StoreRows(s, {}) /\ UNCHANGED ipVars
  <2> USE DEF Inserted, EmptiedIfOff, Keeps, memoryVars
  <2>1. CASE ProxyEdits(s)
    BY <2>1 DEF ProxyEdits, CreateProxySource, UpdateProxySource, ToggleProxySource,
       DeleteProxySource
  <2>2. CASE IpEdits(s)
    BY <2>2 DEF IpEdits, CreateIpSource, UpdateIpSource, ToggleIpSource, DeleteIpSource
  <2>3. CASE BlocklistEdits(s)
    BY <2>3 DEF BlocklistEdits, CreateBlocklist, UpdateBlocklist, ToggleBlocklist,
       DeleteBlocklist
  <2>. QED
    BY <2>1, <2>2, <2>3
<1>. QED
  BY <1>1, <1>2, <1>3, <1>4

\* Every step keeps the rows of their kind and the IP lists in memory right.
LEMMA MemoryStep ==
    ASSUME Stored, InRam, [Next]_vars
    PROVE  Stored' /\ InRam'
<1>1. CASE rows' = rows /\ UNCHANGED ipVars
  BY <1>1, SameKeeps DEF Stored
<1>2. ASSUME NEW d \in Downloads, NEW c \in Callers,
             BeginProxies(d, c) \/ BeginIps(d, c) \/ BeginBlocklists(d, c)
      PROVE  Stored' /\ InRam'
  <2>1. rows' = rows
    BY <1>2 DEF BeginProxies, BeginIps, BeginBlocklists, Begin, tableVars
  <2>2. UNCHANGED ipVars \/ ClearIps
    BY <1>2 DEF BeginProxies, BeginIps, BeginBlocklists
  <2>. QED
    BY <1>1, <2>1, <2>2, ClearKeeps DEF Stored
<1>3. ASSUME NEW d \in Downloads, NEW s \in pending[d], Received(d, s)
      PROVE  Stored' /\ InRam'
  <2>1. CASE ProxyText(d, s)
    <3>1. PICK found \in SUBSET Addrs : StoreRows(s, found)
      BY <2>1 DEF ProxyText
    <3>2. s \in ProxySources /\ UNCHANGED ipVars
      BY <2>1 DEF ProxyText
    <3>3. s \in Sources /\ s \notin IpLists /\ s \notin DomainBlocklists
      BY <3>2, ListsAssumption DEF Sources, IpLists, Blocklists
    <3>4. Stored'
      BY <3>1, <3>3, StoreKeeps
    <3>5. \A r \in IpLists : rows'[r] = rows[r]
      BY <3>1, <3>3 DEF StoreRows, Stored, IpLists, Sources, Blocklists
    <3>. QED
      BY <3>2, <3>4, <3>5, SameKeeps
  <2>2. CASE IpText(d, s)
    BY <2>2, ParseKeeps DEF IpText
  <2>3. CASE DomainText(d, s)
    <3>1. s \in DomainBlocklists /\ UNCHANGED ipVars
      BY <2>3 DEF DomainText, memoryVars
    <3>2. s \in Sources /\ s \notin IpLists /\ s \notin ProxySources
      BY <3>1, ListsAssumption DEF Sources, IpLists, Blocklists
    <3>3. CASE rows' = rows
      BY <1>1, <3>1, <3>3
    <3>4. ASSUME NEW found \in SUBSET Domains, StoreRows(s, found)
          PROVE  Stored' /\ InRam'
      <4>1. Stored'
        BY <3>1, <3>2, <3>4, StoreKeeps
      <4>2. \A r \in IpLists : rows'[r] = rows[r]
        BY <3>2, <3>4 DEF StoreRows, Stored, IpLists, Sources, Blocklists
      <4>. QED
        BY <3>1, <4>1, <4>2, SameKeeps
    <3>. QED
      BY <2>3, <3>3, <3>4 DEF DomainText
  <2>. QED
    BY <1>3, <2>1, <2>2, <2>3 DEF Received
<1>4. ASSUME NEW d \in Downloads, Done(d) \/ CutShort(d)
      PROVE  Stored' /\ InRam'
  BY <1>4, ReturnKeeps DEF Done, CutShort
<1>5. ASSUME NEW d \in Downloads,
             (\E s \in pending[d] : Failed(d, s)) \/ Cancelled(d) \/ Skip \/ UNCHANGED vars
      PROVE  rows' = rows /\ UNCHANGED ipVars
  BY <1>5 DEF Failed, Cancelled, Skip, vars, tableVars, memoryVars
<1>6. CASE Skip \/ UNCHANGED vars
  BY <1>1, <1>6 DEF Skip, vars, tableVars, memoryVars
<1>7. CASE Restart
  <2>1. rows' = [s \in Sources |-> KeptRows(s)]
    BY <1>7 DEF Restart
  <2>2. Stored'
    BY <2>1 DEF Stored, KeptRows, Sources, Blocklists, IpLists
  <2>. QED
    BY <1>7, <2>2, LoadKeeps DEF Restart
<1>8. CASE Edits
  BY <1>8, EditKeeps DEF Edits
<1>. QED
  BY <1>1, <1>2, <1>3, <1>4, <1>5, <1>6, <1>7, <1>8 DEF Next, Download, Fetch

\* What is found in memory that is right in this sense is what covers the address.
LEMMA Found ==
    ASSUME InRam
    PROVE  LookupExact
<1>. SUFFICES ASSUME NEW ip \in Ips, NEW f \in entries
              PROVE  f[1] \in {k \in networks : Covers(k, ip)} \cup ({Key(ip, ip, FALSE)} \cap exact)
                        <=> Covers(f[1], ip) /\ Findable(f[1])
  BY DEF LookupExact, Hit
<1>1. f[1] \in Keys /\ f[1] \in exact \cup networks /\ (f[1] \in exact => Single(f[1]))
  BY DEF InRam, Indexed
<1>2. f[1].lo \in Int /\ f[1].hi \in Int /\ ip \in Int
  BY <1>1, ListsAssumption DEF Keys, Ips
<1>3. CASE f[1] \in networks
  BY <1>1, <1>2, <1>3 DEF Covers, Findable, Key
<1>4. CASE f[1] \notin networks
  <2>1. f[1] \in exact /\ f[1].lo = f[1].hi
    BY <1>1, <1>4 DEF Single
  <2>2. Covers(f[1], ip) <=> f[1].lo = ip
    BY <1>2, <2>1 DEF Covers
  <2>3. Findable(f[1]) <=> f[1].slash = FALSE
    BY <1>1, <1>4, <2>1 DEF Findable, Single, Keys
  <2>4. f[1] = Key(ip, ip, FALSE) <=> f[1].lo = ip /\ f[1].hi = ip /\ f[1].slash = FALSE
    <3>1. f[1] \in [lo : Ips, hi : Ips, slash : BOOLEAN]
      BY <1>1 DEF Keys
    <3>2. f[1] = [lo |-> f[1].lo, hi |-> f[1].hi, slash |-> f[1].slash]
      BY <3>1
    <3>3. ASSUME f[1].lo = ip, f[1].hi = ip, f[1].slash = FALSE PROVE f[1] = Key(ip, ip, FALSE)
      BY <3>2, <3>3, Zenon DEF Key
    <3>4. ASSUME f[1] = Key(ip, ip, FALSE)
          PROVE  f[1].lo = ip /\ f[1].hi = ip /\ f[1].slash = FALSE
      BY <3>4 DEF Key
    <3>. QED
      BY <3>3, <3>4
  <2>. QED
    BY <1>4, <2>1, <2>2, <2>3, <2>4
<1>. QED
  BY <1>3, <1>4

-----------------------------------------------------------------------------
(* Proxy sources.                                                          *)

\* The calls, as far as the next invariant needs them: a download that has not
\* ended has a kind, and what it waits for is of that kind.
Calls ==
    /\ kind \in [Downloads -> Kinds \cup {None}]
    /\ stage \in [Downloads -> {"free", "gather", "cut"}]
    /\ pending \in [Downloads -> SUBSET Sources]
    /\ \A d \in Downloads :
        /\ stage[d] = "free" <=> kind[d] = None
        /\ stage[d] = "free" => pending[d] = {}
        /\ stage[d] # "free" => pending[d] \subseteq Of(kind[d])
\* Rows that are not in memory have a download that will load them, unless
\* the caller of one was cancelled.
Loads(d) == kind[d] = "proxies" /\ stage[d] = "gather"
Loaded == \A s \in ProxySources : source_proxies[s] = rows[s]
Followed ==
    /\ source_proxies \in [ProxySources -> SUBSET Addrs] /\ orphaned \in BOOLEAN
    /\ orphaned \/ Loaded \/ \E d \in Downloads : Loads(d)

\* A fetch task that ends leaves the calls in order.
LEMMA EndedKeeps ==
    ASSUME Calls, NEW d \in Downloads, NEW s \in pending[d], Ended(d, s)
    PROVE  Calls'
<1>. DEFINE left == pending[d] \ {s}
<1>1. pending' = [pending EXCEPT ![d] = left] /\ stage[d] # "free"
  BY DEF Ended, Calls
<1>2. CASE stage[d] = "cut" /\ left = {}
  <2>1. stage' = [stage EXCEPT ![d] = "free"] /\ kind' = [kind EXCEPT ![d] = None]
    BY <1>2 DEF Ended, Free
  <2>. QED
    BY <1>1, <1>2, <2>1 DEF Calls
<1>3. CASE ~(stage[d] = "cut" /\ left = {})
  <2>1. stage' = stage /\ kind' = kind
    BY <1>3 DEF Ended
  <2>2. \A e \in Downloads : pending'[e] \subseteq pending[e]
    BY <1>1 DEF Calls
  <2>3. pending' \in [Downloads -> SUBSET Sources]
    BY <1>1 DEF Calls
  <2>4. \A e \in Downloads : stage[e] = "free" => pending'[e] = {}
    BY <2>2 DEF Calls
  <2>. QED
    BY <2>1, <2>2, <2>3, <2>4 DEF Calls
<1>. QED
  BY <1>2, <1>3

\* A download that begins waits for sources of its kind.
LEMMA BeginKeeps ==
    ASSUME Calls, NEW d \in Downloads, NEW k \in Kinds, NEW c, Begin(d, k, c)
    PROVE  Calls' /\ stage[d] = "free"
<1>1. Enabled(k) \subseteq Of(k) /\ Of(k) \subseteq Sources /\ k # None
  BY OfKinds, ListsAssumption DEF Enabled
<1>2. /\ stage[d] = "free" /\ kind' = [kind EXCEPT ![d] = k]
      /\ stage' = [stage EXCEPT ![d] = "gather"]
      /\ pending' = [pending EXCEPT ![d] = Enabled(k)]
  BY DEF Begin
<1>. QED
  BY <1>1, <1>2 DEF Calls

\* A download that returns is free again.
LEMMA ReturnFrees ==
    ASSUME Calls, NEW d \in Downloads, Return(d)
    PROVE  Calls'
<1>1. /\ stage' = [stage EXCEPT ![d] = "free"] /\ pending' = [pending EXCEPT ![d] = {}]
      /\ kind' = [kind EXCEPT ![d] = None]
  BY DEF Return, Free
<1>. QED
  BY <1>1 DEF Calls

\* Every step keeps the calls in order.
LEMMA CallsStep ==
    ASSUME Calls, [Next]_vars
    PROVE  Calls'
<1>1. CASE UNCHANGED <<kind, stage, pending>>
  BY <1>1 DEF Calls
<1>2. ASSUME NEW d \in Downloads, NEW c \in Callers,
             BeginProxies(d, c) \/ BeginIps(d, c) \/ BeginBlocklists(d, c)
      PROVE  Calls'
  BY <1>2, BeginKeeps DEF BeginProxies, BeginIps, BeginBlocklists, Kinds
<1>3. ASSUME NEW d \in Downloads, NEW s \in pending[d], Received(d, s) \/ Failed(d, s)
      PROVE  Calls'
  BY <1>3, EndedKeeps DEF Received, Failed
<1>4. ASSUME NEW d \in Downloads, Done(d) \/ CutShort(d)
      PROVE  Calls'
  BY <1>4, ReturnFrees DEF Done, CutShort
<1>5. ASSUME NEW d \in Downloads, Cancelled(d)
      PROVE  Calls'
  <2>1. pending' = pending /\ stage[d] = "gather"
    BY <1>5 DEF Cancelled, Alive
  <2>2. CASE pending[d] = {}
    <3>1. stage' = [stage EXCEPT ![d] = "free"] /\ kind' = [kind EXCEPT ![d] = None]
      BY <1>5, <2>2 DEF Cancelled, Free
    <3>. QED
      BY <2>1, <2>2, <3>1 DEF Calls
  <2>3. CASE pending[d] # {}
    <3>1. stage' = [stage EXCEPT ![d] = "cut"] /\ kind' = kind
      BY <1>5, <2>3 DEF Cancelled
    <3>. QED
      BY <2>1, <3>1 DEF Calls
  <2>. QED
    BY <2>2, <2>3
<1>6. CASE Skip \/ UNCHANGED vars \/ Edits
  <2>1. CASE Skip \/ UNCHANGED vars
    BY <1>1, <2>1 DEF Skip, vars, callVars
  <2>2. CASE Edits
    <3>1. PICK s \in Sources : ProxyEdits(s) \/ IpEdits(s) \/ BlocklistEdits(s)
      BY <2>2 DEF Edits
    <3>2. Edit
      BY <3>1 DEF ProxyEdits, IpEdits, BlocklistEdits, CreateProxySource, UpdateProxySource,
         ToggleProxySource, DeleteProxySource, CreateIpSource, UpdateIpSource, ToggleIpSource,
         DeleteIpSource, CreateBlocklist, UpdateBlocklist, ToggleBlocklist, DeleteBlocklist,
         Inserted, Becomes
    <3>. QED
      BY <1>1, <3>2 DEF Edit, callVars
  <2>. QED
    BY <1>6, <2>1, <2>2
<1>7. CASE Restart
  <2>1. /\ kind' = [d \in Downloads |-> None] /\ stage' = [d \in Downloads |-> "free"]
        /\ pending' = [d \in Downloads |-> {}]
    BY <1>7 DEF Restart
  <2>. QED
    BY <2>1 DEF Calls
<1>. QED
  BY <1>2, <1>3, <1>4, <1>5, <1>6, <1>7 DEF Next, Download, Fetch

\* Every step keeps the memory of the proxy sources followed.
LEMMA FollowedStep ==
    ASSUME Stored, Calls, Followed, [Next]_vars, Stored'
    PROVE  Followed'
<1>1. CASE LoadProxies
  <2>1. source_proxies' \in [ProxySources -> SUBSET Addrs] /\ Loaded' /\ orphaned' = FALSE
    BY <1>1 DEF LoadProxies, Stored, Loaded
  <2>. QED
    BY <2>1 DEF Followed
<1>2. ASSUME UNCHANGED proxyVars, \A s \in ProxySources : rows'[s] = rows[s],
             \A d \in Downloads : Loads(d) => Loads(d)'
      PROVE  Followed'
  <2>1. Loaded => Loaded'
    BY <1>2 DEF Loaded, proxyVars
  <2>2. orphaned' = orphaned /\ source_proxies' = source_proxies
    BY <1>2 DEF proxyVars
  <2>. QED
    BY <1>2, <2>1, <2>2 DEF Followed
<1>3. ASSUME NEW d \in Downloads, NEW c \in Callers,
             BeginProxies(d, c) \/ BeginIps(d, c) \/ BeginBlocklists(d, c)
      PROVE  Followed'
  <2>1. PICK k \in Kinds : Begin(d, k, c)
    BY <1>3 DEF BeginProxies, BeginIps, BeginBlocklists, Kinds
  <2>2. rows' = rows /\ UNCHANGED proxyVars /\ stage[d] = "free"
    BY <2>1 DEF Begin, tableVars
  <2>3. \A e \in Downloads : Loads(e) => Loads(e)'
    BY <2>1, <2>2 DEF Begin, Loads, Calls
  <2>. QED
    BY <1>2, <2>2, <2>3
<1>4. ASSUME NEW d \in Downloads, NEW s \in pending[d], Ended(d, s)
      PROVE  \A e \in Downloads : Loads(e) => Loads(e)'
  BY <1>4 DEF Ended, Free, Loads, Calls
<1>5. ASSUME NEW d \in Downloads, NEW s \in pending[d], Received(d, s)
      PROVE  Followed'
  <2>1. Ended(d, s)
    BY <1>5 DEF Received
  <2>2. CASE ProxyText(d, s)
    <3>1. s \in ProxySources /\ source_proxies' = source_proxies
      BY <2>2 DEF ProxyText
    <3>2. stage[d] \in {"gather", "cut"} /\ pending[d] \subseteq Of(kind[d]) /\ kind[d] \in Kinds
      BY DEF Calls
    <3>3. kind[d] = "proxies"
      BY <3>1, <3>2, OfKinds, ListsAssumption DEF Kinds
    <3>4. CASE stage[d] = "gather"
      <4>1. Loads(d)'
        BY <1>4, <2>1, <3>3, <3>4 DEF Loads
      <4>2. orphaned' = (orphaned \/ stage[d] = "cut")
        BY <2>2 DEF ProxyText
      <4>3. orphaned' \in BOOLEAN
        BY <4>2 DEF Followed
      <4>. QED
        BY <3>1, <4>1, <4>3 DEF Followed
    <3>5. CASE stage[d] = "cut"
      <4>1. orphaned'
        BY <2>2, <3>5 DEF ProxyText
      <4>2. orphaned' \in BOOLEAN
        BY <2>2 DEF Followed, ProxyText
      <4>. QED
        BY <3>1, <4>1, <4>2 DEF Followed
    <3>. QED
      BY <3>2, <3>4, <3>5
  <2>3. CASE IpText(d, s) \/ DomainText(d, s)
    <3>1. UNCHANGED proxyVars /\ s \notin ProxySources
      BY <2>3, ListsAssumption DEF IpText, DomainText, memoryVars, IpLists, Blocklists
    <3>2. \A r \in ProxySources : rows'[r] = rows[r]
      BY <2>3, <3>1 DEF IpText, DomainText, ParseIps, StoreRows, Stored, Sources
    <3>. QED
      BY <1>2, <1>4, <2>1, <3>1, <3>2
  <2>. QED
    BY <1>5, <2>2, <2>3 DEF Received
<1>6. ASSUME NEW d \in Downloads, NEW s \in pending[d], Failed(d, s)
      PROVE  Followed'
  <2>1. Ended(d, s) /\ rows' = rows /\ UNCHANGED proxyVars
    BY <1>6 DEF Failed, tableVars, memoryVars
  <2>. QED
    BY <1>2, <1>4, <2>1
<1>7. ASSUME NEW d \in Downloads, rows' = rows, Return(d)
      PROVE  Followed'
  <2>1. CASE kind[d] = "proxies"
    BY <1>1, <1>7, <2>1 DEF Return
  <2>2. CASE kind[d] # "proxies"
    <3>1. UNCHANGED proxyVars
      BY <1>7, <2>2 DEF Return
    <3>2. \A e \in Downloads : Loads(e) => Loads(e)'
      BY <1>7, <2>2 DEF Return, Free, Loads, Calls
    <3>. QED
      BY <1>2, <1>7, <3>1, <3>2
  <2>. QED
    BY <2>1, <2>2
<1>8. ASSUME NEW d \in Downloads, Cancelled(d)
      PROVE  Followed'
  <2>1. source_proxies' = source_proxies /\ rows' = rows
    BY <1>8 DEF Cancelled, tableVars
  <2>2. orphaned' = (orphaned \/ kind[d] = "proxies")
    BY <1>8 DEF Cancelled
  <2>3. orphaned' \in BOOLEAN
    BY <2>2 DEF Followed
  <2>4. CASE kind[d] = "proxies"
    <3>1. orphaned'
      BY <2>2, <2>4
    <3>. QED
      BY <2>1, <2>3, <3>1 DEF Followed
  <2>5. CASE kind[d] # "proxies"
    <3>1. orphaned' = orphaned
      BY <2>2, <2>5 DEF Followed
    <3>2. \A e \in Downloads : Loads(e) => Loads(e)'
      BY <1>8, <2>5 DEF Cancelled, Free, Loads, Calls
    <3>. QED
      BY <1>2, <2>1, <3>1, <3>2 DEF proxyVars
  <2>. QED
    BY <2>4, <2>5
<1>9. CASE Skip \/ UNCHANGED vars
  <2>1. rows' = rows /\ UNCHANGED <<proxyVars, kind, stage>>
    BY <1>9 DEF Skip, vars, tableVars, memoryVars, callVars
  <2>. QED
    BY <1>2, <2>1 DEF Loads
<1>10. CASE Edits
  <2>1. PICK s \in Sources : ProxyEdits(s) \/ IpEdits(s) \/ BlocklistEdits(s)
    BY <1>10 DEF Edits
  <2>. USE DEF Inserted, Becomes, Emptied, EmptiedIfOff, Keeps, Edit
  <2>2. UNCHANGED <<kind, stage>>
    BY <2>1 DEF ProxyEdits, CreateProxySource, UpdateProxySource, ToggleProxySource,
       DeleteProxySource, IpEdits, CreateIpSource, UpdateIpSource, ToggleIpSource,
       DeleteIpSource, BlocklistEdits, CreateBlocklist, UpdateBlocklist, ToggleBlocklist,
       DeleteBlocklist, callVars
  <2>3. CASE ProxyEdits(s)
    <3>1. s \in ProxySources
      BY <2>3 DEF ProxyEdits, CreateProxySource, UpdateProxySource, ToggleProxySource,
         DeleteProxySource
    <3>2. Emptied(s) \/ UNCHANGED <<rows, memoryVars>>
      BY <2>3 DEF ProxyEdits, CreateProxySource, UpdateProxySource, ToggleProxySource,
         DeleteProxySource
    <3>3. LoadProxies \/ (rows' = rows /\ UNCHANGED proxyVars)
      BY <3>1, <3>2 DEF memoryVars
    <3>. QED
      BY <1>1, <1>2, <2>2, <3>3 DEF Loads
  <2>4. CASE IpEdits(s) \/ BlocklistEdits(s)
    <3>1. s \notin ProxySources /\ UNCHANGED proxyVars /\ (rows' = rows \/ StoreRows(s, {}))
      BY <2>4, ListsAssumption DEF IpEdits, CreateIpSource, UpdateIpSource, ToggleIpSource,
         DeleteIpSource, BlocklistEdits, CreateBlocklist, UpdateBlocklist, ToggleBlocklist,
         DeleteBlocklist, memoryVars
    <3>2. \A r \in ProxySources : rows'[r] = rows[r]
      BY <3>1 DEF StoreRows, Stored, Sources
    <3>. QED
      BY <1>2, <2>2, <3>1, <3>2 DEF Loads
  <2>. QED
    BY <2>1, <2>3, <2>4
<1>11. CASE Restart
  BY <1>1, <1>11 DEF Restart
<1>. QED
  BY <1>3, <1>5, <1>6, <1>7, <1>8, <1>9, <1>10, <1>11
  DEF Next, Download, Fetch, Done, CutShort

-----------------------------------------------------------------------------
(* The theorems.                                                           *)

\* A program that has just been installed has neither rows nor downloads.
LEMMA InitLists == Init => Stored /\ InRam /\ Calls /\ Followed
<1>. SUFFICES ASSUME Init PROVE Stored /\ InRam /\ Calls /\ Followed
  OBVIOUS
<1>1. Stored
  BY DEF Init, Stored, IpLists, Sources, Blocklists
<1>2. InRam
  BY DEF Init, InRam, Indexed, NeverHalfListed, InMemory
<1>3. Calls
  BY DEF Init, Calls
<1>4. Followed
  BY DEF Init, Followed, Loaded, Sources
<1>. QED
  BY <1>1, <1>2, <1>3, <1>4

\* What the theorems below follow from is kept by every step.
THEOREM MemoryIsRight == Spec => [](Stored /\ InRam)
<1>1. Init => Stored /\ InRam
  BY InitLists
<1>2. Stored /\ InRam /\ [Next]_vars => (Stored /\ InRam)'
  BY MemoryStep
<1>. QED
  BY <1>1, <1>2, PTL DEF Spec

\* An IP list has all its rows in memory or none (_parse_ip_blacklist and
\* _load_ip_blacklist_from_db, whatever downloads, reloads, edits and restarts
\* overlap).
THEOREM ListsAreWhole == Spec => []NeverHalfListed
<1>1. Stored /\ InRam => NeverHalfListed
  BY DEF InRam
<1>. QED
  BY <1>1, MemoryIsRight, PTL

\* _is_ip_blacklisted, which looks in two structures, reports exactly the
\* sources with an entry that covers the address.
THEOREM LookupIsExact == Spec => []LookupExact
<1>1. Stored /\ InRam => LookupExact
  BY Found
<1>. QED
  BY <1>1, MemoryIsRight, PTL

\* The proxies of the sources in memory are those of the database whenever
\* nothing is being downloaded (_load_all_proxy_source_entries follows every
\* change of the rows that a cancelled caller does not cut off).
THEOREM SourcesFollowRows == Spec => []SourcesAreStored
<1>. DEFINE Ind == Stored /\ InRam /\ Calls /\ Followed
<1>1. Init => Ind
  BY InitLists
<1>2. Ind /\ [Next]_vars => Ind'
  BY MemoryStep, CallsStep, FollowedStep
<1>3. Ind => SourcesAreStored
  BY DEF Followed, Loaded, Loads, SourcesAreStored
<1>. QED
  BY <1>1, <1>2, <1>3, PTL DEF Spec

-----------------------------------------------------------------------------
(* The fetch flags.                                                        *)

CallerType == caller \in [Downloads -> Callers \cup {None}]
IndFlag == Calls /\ CallerType /\ FlagHasDownload

\* A download that is alive and goes on as it was keeps its flag, so a step can
\* only harm the flags it sets, or those of the downloads it ends.
LEMMA FlagKept ==
    ASSUME IndFlag, NEW d \in Downloads,
           \A e \in Downloads \ {d} : /\ stage'[e] = stage[e] /\ kind'[e] = kind[e]
                                      /\ caller'[e] = caller[e],
           NEW k \in fetching, ~(kind[d] = k /\ Alive(d) /\ Flagged(k, caller[d]))
    PROVE  \E e \in Downloads : Alive(e)' /\ kind'[e] = k /\ Flagged(k, caller'[e])
<1>1. PICK e \in Downloads : Alive(e) /\ kind[e] = k /\ Flagged(k, caller[e])
  BY DEF IndFlag, FlagHasDownload
<1>2. e # d
  BY <1>1
<1>. QED
  BY <1>1, <1>2 DEF Alive

\* Whoever releases takes the flag of his kind away, if it was his.
LEMMA ReleaseFlags ==
    ASSUME IndFlag, NEW d \in Downloads, Alive(d), Release(d),
           \A e \in Downloads \ {d} : /\ stage'[e] = stage[e] /\ kind'[e] = kind[e]
                                      /\ caller'[e] = caller[e]
    PROVE  FlagHasDownload'
<1>. SUFFICES ASSUME NEW k \in fetching'
              PROVE  \E e \in Downloads : Alive(e)' /\ kind'[e] = k /\ Flagged(k, caller'[e])
  BY DEF FlagHasDownload, Flagged
<1>1. k \in fetching /\ ~(kind[d] = k /\ Alive(d) /\ Flagged(k, caller[d]))
  BY DEF Release
<1>. QED
  BY <1>1, FlagKept

\* A download that begins has its flag itself.
LEMMA BeginFlags ==
    ASSUME IndFlag, NEW d \in Downloads, NEW k \in Kinds, NEW c \in Callers, Begin(d, k, c)
    PROVE  CallerType' /\ FlagHasDownload'
<1>1. /\ stage[d] = "free" /\ kind' = [kind EXCEPT ![d] = k]
      /\ caller' = [caller EXCEPT ![d] = c] /\ stage' = [stage EXCEPT ![d] = "gather"]
      /\ fetching' = IF Flagged(k, c) THEN fetching \cup {k} ELSE fetching
  BY DEF Begin
<1>2. CallerType'
  BY <1>1 DEF IndFlag, CallerType
<1>3. \A e \in Downloads \ {d} : stage'[e] = stage[e] /\ kind'[e] = kind[e] /\ caller'[e] = caller[e]
  BY <1>1 DEF IndFlag, Calls, CallerType
<1>4. Alive(d)' /\ kind'[d] = k /\ caller'[d] = c
  BY <1>1 DEF IndFlag, Calls, CallerType, Alive
<1>5. ASSUME NEW j \in fetching'
      PROVE  \E e \in Downloads : Alive(e)' /\ kind'[e] = j /\ Flagged(j, caller'[e])
  <2>1. CASE j \in fetching
    <3>1. ~Alive(d)
      BY <1>1 DEF Alive
    <3>. QED
      BY <1>3, <2>1, <3>1, FlagKept
  <2>2. CASE j \notin fetching
    BY <1>1, <1>4, <2>2
  <2>. QED
    BY <2>1, <2>2
<1>. QED
  BY <1>2, <1>5 DEF FlagHasDownload, Flagged

\* A fetch task that ends ends nobody's download but one that was cut off.
LEMMA EndedFlags ==
    ASSUME IndFlag, NEW d \in Downloads, NEW s \in pending[d], Ended(d, s), fetching' = fetching
    PROVE  CallerType' /\ FlagHasDownload'
<1>1. CASE stage' = stage /\ kind' = kind /\ caller' = caller
  BY <1>1 DEF IndFlag, CallerType, FlagHasDownload, Alive, Flagged
<1>2. CASE stage[d] = "cut" /\ stage' = [stage EXCEPT ![d] = "free"] /\ Free(d)
  <2>1. kind' = [kind EXCEPT ![d] = None] /\ caller' = [caller EXCEPT ![d] = None]
    BY <1>2 DEF Free
  <2>2. \A e \in Downloads \ {d} : stage'[e] = stage[e] /\ kind'[e] = kind[e] /\ caller'[e] = caller[e]
    BY <1>2, <2>1 DEF IndFlag, Calls, CallerType
  <2>3. ~Alive(d)
    BY <1>2 DEF Alive
  <2>4. \A k \in fetching' : \E e \in Downloads : Alive(e)' /\ kind'[e] = k /\ Flagged(k, caller'[e])
    BY <2>2, <2>3, FlagKept
  <2>. QED
    BY <2>1, <2>4 DEF IndFlag, CallerType, FlagHasDownload, Flagged
<1>. QED
  BY <1>1, <1>2 DEF Ended

\* Every step leaves each flag with a download.
LEMMA FlagStep ==
    ASSUME IndFlag, [Next]_vars
    PROVE  CallerType' /\ FlagHasDownload'
<1>1. CASE UNCHANGED <<kind, caller, stage, fetching>>
  BY <1>1 DEF IndFlag, CallerType, FlagHasDownload, Alive, Flagged
<1>2. ASSUME NEW d \in Downloads, NEW c \in Callers,
             BeginProxies(d, c) \/ BeginIps(d, c) \/ BeginBlocklists(d, c)
      PROVE  CallerType' /\ FlagHasDownload'
  BY <1>2, BeginFlags DEF BeginProxies, BeginIps, BeginBlocklists, Kinds
<1>3. ASSUME NEW d \in Downloads, NEW s \in pending[d], Received(d, s) \/ Failed(d, s)
      PROVE  CallerType' /\ FlagHasDownload'
  BY <1>3, EndedFlags DEF Received, Failed
<1>4. ASSUME NEW d \in Downloads, Done(d) \/ CutShort(d)
      PROVE  CallerType' /\ FlagHasDownload'
  <2>1. /\ Alive(d) /\ Release(d) /\ stage' = [stage EXCEPT ![d] = "free"]
        /\ kind' = [kind EXCEPT ![d] = None] /\ caller' = [caller EXCEPT ![d] = None]
    BY <1>4 DEF Done, CutShort, Return, Free
  <2>2. \A e \in Downloads \ {d} : stage'[e] = stage[e] /\ kind'[e] = kind[e] /\ caller'[e] = caller[e]
    BY <2>1 DEF IndFlag, Calls, CallerType
  <2>. QED
    BY <2>1, <2>2, ReleaseFlags DEF IndFlag, CallerType
<1>5. ASSUME NEW d \in Downloads, Cancelled(d)
      PROVE  CallerType' /\ FlagHasDownload'
  <2>1. /\ Alive(d) /\ Release(d)
        /\ \/ /\ stage' = [stage EXCEPT ![d] = "free"]
              /\ kind' = [kind EXCEPT ![d] = None] /\ caller' = [caller EXCEPT ![d] = None]
           \/ stage' = [stage EXCEPT ![d] = "cut"] /\ kind' = kind /\ caller' = caller
    BY <1>5 DEF Cancelled, Free
  <2>2. \A e \in Downloads \ {d} : stage'[e] = stage[e] /\ kind'[e] = kind[e] /\ caller'[e] = caller[e]
    BY <2>1 DEF IndFlag, Calls, CallerType
  <2>3. CallerType'
    BY <2>1 DEF IndFlag, CallerType
  <2>. QED
    BY <2>1, <2>2, <2>3, ReleaseFlags
<1>6. CASE Skip \/ Edits \/ UNCHANGED vars
  <2>1. CASE Skip \/ UNCHANGED vars
    BY <1>1, <2>1 DEF Skip, vars, callVars
  <2>2. CASE Edits
    <3>1. PICK s \in Sources : ProxyEdits(s) \/ IpEdits(s) \/ BlocklistEdits(s)
      BY <2>2 DEF Edits
    <3>2. Edit
      BY <3>1 DEF ProxyEdits, IpEdits, BlocklistEdits, CreateProxySource, UpdateProxySource,
         ToggleProxySource, DeleteProxySource, CreateIpSource, UpdateIpSource, ToggleIpSource,
         DeleteIpSource, CreateBlocklist, UpdateBlocklist, ToggleBlocklist, DeleteBlocklist,
         Inserted, Becomes
    <3>. QED
      BY <1>1, <3>2 DEF Edit, callVars
  <2>. QED
    BY <1>6, <2>1, <2>2
<1>7. CASE Restart
  <2>1. caller' = [d \in Downloads |-> None] /\ fetching' = {}
    BY <1>7 DEF Restart
  <2>. QED
    BY <2>1 DEF CallerType, FlagHasDownload
<1>. QED
  BY <1>2, <1>3, <1>4, <1>5, <1>6, <1>7 DEF Next, Download, Fetch

\* FlagHasDownload: the flags that refuse a button while a fetch runs
\* (handlers/sources.py) are never left set, whichever downloads overlap and
\* however each of them ends.
THEOREM FlagsAreOwned == Spec => []FlagHasDownload
<1>1. Init => IndFlag
  BY InitLists DEF Init, IndFlag, CallerType, FlagHasDownload
<1>2. IndFlag /\ [Next]_vars => IndFlag'
  BY CallsStep, FlagStep DEF IndFlag
<1>3. IndFlag => FlagHasDownload
  BY DEF IndFlag
<1>. QED
  BY <1>1, <1>2, <1>3, PTL DEF Spec

===============================================================================
