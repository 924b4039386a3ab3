--------------------------------- MODULE Store ---------------------------------
(* The state database: what the event loop keeps in memory and marks as       *)
(* changed, what it hands to the background writer (db_writer.py) or commits  *)
(* itself, in which order a save replaces the tables, and what a process      *)
(* killed between two commits finds when it starts again                      *)
(* (state_persistence.py, state_working.py, blacklist.py, backup.py).         *)
(*                                                                            *)
(* The handlers here have no await, but each drain blocks the event loop      *)
(* while the writer's thread commits: what is left of a handler is `todo`.    *)
EXTENDS Naturals, FiniteSets, SequencesExt

CONSTANTS
    Addrs,       \* proxy addresses
    None,        \* no rating, no row
    Row,         \* a row of a table without ratings
    MaxEdits,    \* how many handlers run
    MaxFaults,   \* how many batches the database refuses
    MaxKills     \* how often the process is killed

ASSUME StoreAssumption ==
    MaxEdits \in Nat /\ MaxFaults \in Nat /\ MaxKills \in Nat

VARIABLES
    mem,         \* ratings
    marks,       \* the sets of addresses `blacklist` and `favorites`
    dirty,       \* _dirty_ratings
    todo,        \* the calls the running handler has still to make
    waiting,     \* it is inside drain()
    queue,       \* the writer's queue
    unfinished,  \* the queue's count of unfinished tasks
    disk,        \* the committed tables
    backup,      \* a backup the operator holds
    owed,        \* the addresses whose rows are excused until a full save has written them
    pool,        \* the rated addresses both the ratings and the working list held last
    edits, faults, kills

memory == <<mem, marks, dirty>>
handler == <<todo, waiting>>
writer == <<queue, unfinished>>
ghosts == <<owed, pool>>
bounds == <<edits, faults, kills>>
vars == <<memory, handler, writer, disk, backup, ghosts, bounds>>

\* "idle" is a rating that is neither dead nor in the pool: untested, or up but
\* without usable speed; "grace" a proven proxy that fails.
Rating(status) == [status |-> status, black |-> FALSE, fav |-> FALSE]
Ratings == [status : {"idle", "ok", "grace", "failed"}, black : BOOLEAN, fav : BOOLEAN]
PoolEligible(r) == r # None /\ ~r.black /\ r.status \in {"ok", "grace"}

ASSUME RowsAssumption == None # Row /\ None \notin Ratings

\* ---- tables and the statements that change them ----

Tables == {"ratings", "blacklist", "favorites", "working"}
Nothing == [a \in Addrs |-> None]
Rows(S) == [a \in Addrs |-> IF a \in S THEN Row ELSE None]
In(table) == {a \in Addrs : table[a] # None}
Statement(op, t, rows) == [op |-> op, table |-> t, rows |-> rows]
Clear(t) == Statement("delete", t, Nothing)

\* A plain INSERT fails on a row that is there, the others replace or keep it.
Fails(st, d) == st.op = "insert" /\ In(st.rows) \cap In(d[st.table]) # {}
Executed(st, d) ==
    [d EXCEPT ![st.table] =
        [a \in Addrs |-> IF st.op = "delete" THEN None
                         ELSE IF st.rows[a] # None THEN st.rows[a] ELSE @[a]]]
\* The tables after each statement of a batch.
Course(batch, d) ==
    LET at[i \in 0..Len(batch)] == IF i = 0 THEN d ELSE Executed(batch[i], at[i - 1])
    IN at
Refused(batch, d) == \E i \in 1..Len(batch) : Fails(batch[i], Course(batch, d)[i - 1])

\* _save_state, _save_dirty_ratings and _save_working_file.
BlacklistFirst == \* mutated
    <<Clear("blacklist"), Statement("insert", "blacklist", Rows(marks.blacklist)),
      Clear("ratings"), Statement("insert", "ratings", mem),
      Clear("favorites"), Statement("replace", "favorites", Rows(marks.favorites))>>
FullSave ==
    <<Clear("ratings"), Statement("insert", "ratings", mem),
      Clear("blacklist"), Statement("insert", "blacklist", Rows(marks.blacklist)),
      Clear("favorites"), Statement("replace", "favorites", Rows(marks.favorites))>>
DirtyRows(m, D) ==
    Statement("replace", "ratings", [a \in Addrs |-> IF a \in D THEN m[a] ELSE None])
WorkingSave ==
    <<Clear("working"),
      Statement("insert_or_ignore", "working", Rows({a \in Addrs : PoolEligible(mem[a])}))>>

Submit(sts) == /\ queue' = queue \o sts
               /\ unfinished' = unfinished + Len(sts)

\* ---- what a process reads when it starts ----

\* _load_ratings_from_db and the flags of the two tables of marks.
FromRatings(d) ==
    [a \in Addrs |->
        IF d["ratings"][a] = None THEN None
        ELSE [d["ratings"][a] EXCEPT !.black = @ \/ d["blacklist"][a] # None,
                                     !.fav = @ \/ d["favorites"][a] # None]]
WorkingForgotten(d) == FromRatings(d) \* mutated
\* _load_working_file: what only the working list knows comes back as good.
Loaded(d) ==
    [a \in Addrs |->
        IF FromRatings(d)[a] = None /\ d["working"][a] # None /\ d["blacklist"][a] = None
        THEN Rating("ok") ELSE FromRatings(d)[a]]
LoadedMarks(d) == [blacklist |-> In(d["blacklist"]), favorites |-> In(d["favorites"])]
\* Rows that a load leaves different from what it has put in memory.
Unlike(d) == {a \in Addrs : Loaded(d)[a] # d["ratings"][a]}

Load(d) == /\ mem' = Loaded(d)
           /\ marks' = LoadedMarks(d)

\* ---- the event loop: changes in memory, then the calls that save them ----

Begin(calls) ==
    /\ todo = <<>> /\ edits < MaxEdits
    /\ todo' = calls
    /\ edits' = edits + 1
    /\ UNCHANGED <<waiting, disk, backup, faults, kills>>

Verdicts(r) ==
    {"ok", "idle", "failed"} \cup (IF r # None /\ r.status \in {"ok", "grace"} THEN {"grace"} ELSE {})
CheckedUnmarked(a) == \* mutated
    /\ \E s \in Verdicts(mem[a]) :
        mem' = [mem EXCEPT ![a] = [(IF @ = None THEN Rating(s) ELSE @) EXCEPT !.status = s]]
    /\ UNCHANGED <<dirty, writer>>
    /\ Begin(<<>>)
    /\ UNCHANGED <<marks, ghosts>>
\* _update_rating: every 50th time the changed rows are handed to the writer.
Checked(a) ==
    /\ \E s \in Verdicts(mem[a]) :
        mem' = [mem EXCEPT ![a] = [(IF @ = None THEN Rating(s) ELSE @) EXCEPT !.status = s]]
    /\ \/ /\ dirty' = dirty \cup {a}
          /\ UNCHANGED writer
       \/ /\ dirty' = {}
          /\ Submit(<<DirtyRows(mem', dirty \cup {a})>>)
    /\ Begin(<<>>)
    /\ UNCHANGED <<marks, ghosts>>
\* _record_traffic_fail: the 200th time also rewrites the working list.
TrafficFails(a) ==
    /\ mem[a] # None
    /\ \E s \in Verdicts(mem[a]) \ {"ok", "idle"} : mem' = [mem EXCEPT ![a].status = s]
    /\ \/ /\ dirty' = dirty \cup {a}
          /\ Begin(<<>>)
          /\ UNCHANGED writer
       \/ /\ dirty' = {}
          /\ Submit(<<DirtyRows(mem', dirty \cup {a})>>)
          /\ Begin(<<"working">>)
    /\ UNCHANGED <<marks, ghosts>>
\* _execute_source_refresh: the addresses nobody has rated yet.
SourceRefresh ==
    /\ \E A \in SUBSET {a \in Addrs : mem[a] = None} \ {{}} :
        /\ mem' = [a \in Addrs |-> IF a \in A THEN Rating("idle") ELSE mem[a]]
        /\ dirty' = {}
        /\ Submit(<<DirtyRows(mem', dirty \cup A)>>)
    /\ Begin(<<>>)
    /\ UNCHANGED <<marks, ghosts>>
\* _handle_import: an address neither rated nor blacklisted is taken as good.
Import(a) ==
    /\ mem[a] = None /\ a \notin marks.blacklist
    /\ mem' = [mem EXCEPT ![a] = Rating("ok")]
    /\ Begin(<<"state", "working">>)
    /\ UNCHANGED <<marks, dirty, writer, ghosts>>
Dead(r) == r # None /\ r.status = "failed" /\ ~r.fav
\* _handle_clear_dead and _execute_clear_dead.
ClearDead ==
    /\ mem' = [a \in Addrs |-> IF Dead(mem[a]) THEN None ELSE mem[a]]
    /\ pool' = {a \in pool : ~Dead(mem[a])}
    /\ Begin(<<"state", "working">>)
    /\ UNCHANGED <<marks, dirty, writer, owed>>
\* blacklist_add and blacklist_remove.
Blacklist(a, on) ==
    /\ marks' = [marks EXCEPT !.blacklist = IF on THEN @ \cup {a} ELSE @ \ {a}]
    /\ mem' = IF mem[a] = None THEN mem ELSE [mem EXCEPT ![a].black = on]
    /\ Begin(<<"blacklist", "state", "working">>)
    /\ UNCHANGED <<dirty, writer, ghosts>>
\* favorite_add and favorite_remove.
Favorite(a, on) ==
    /\ marks' = [marks EXCEPT !.favorites = IF on THEN @ \cup {a} ELSE @ \ {a}]
    /\ mem' = IF mem[a] = None THEN mem ELSE [mem EXCEPT ![a].fav = on]
    /\ Begin(<<"favorites", "state">>)
    /\ UNCHANGED <<dirty, writer, ghosts>>
\* The end of a validation, a hunt or a health check; a service's switch; a
\* clean stop, after which the next process loads what it finds.
SaveAll ==
    /\ \E calls \in {<<"state">>, <<"state", "working">>, <<"state", "working", "exit">>} :
        Begin(calls)
    /\ UNCHANGED <<memory, writer, ghosts>>
CreateBackup ==
    /\ backup' = disk
    /\ todo = <<>> /\ edits < MaxEdits
    /\ edits' = edits + 1
    /\ UNCHANGED <<memory, handler, writer, disk, ghosts, faults, kills>>
\* restore_backup: the tables of the chosen groups are replaced at once, while
\* the writer may still hold older rows; all is loaded anew.
RestoreBackup ==
    /\ todo = <<>> /\ edits < MaxEdits
    /\ \E T \in {Tables, {"ratings", "working"}, {"blacklist"}} :
        disk' = [t \in Tables |-> IF t \in T THEN backup[t] ELSE disk[t]]
    /\ Load(disk')
    /\ owed' = owed \cup Unlike(disk') \cup UNION {In(queue[i].rows) : i \in 1..Len(queue)}
    /\ pool' = In(disk'["ratings"]) \cap In(disk'["working"])
    /\ edits' = edits + 1
    /\ UNCHANGED <<dirty, handler, writer, backup, faults, kills>>

\* ---- the calls ----

Next1(call) == todo # <<>> /\ Head(todo) = call /\ ~waiting

\* _save_blacklist, _save_favorites: committed by the event loop itself.
SaveMarks ==
    /\ \E t \in {"blacklist", "favorites"} :
        /\ Next1(t)
        /\ disk' = [disk EXCEPT ![t] = Rows(marks[t])]
    /\ todo' = Tail(todo)
    /\ UNCHANGED <<memory, waiting, writer, backup, ghosts, bounds>>
SaveState ==
    /\ Next1("state")
    /\ Submit(FullSave)
    /\ waiting' = TRUE
    /\ UNCHANGED <<memory, todo, disk, backup, ghosts, bounds>>
SaveWorkingFile ==
    /\ Next1("working")
    /\ Submit(WorkingSave)
    /\ waiting' = TRUE
    /\ UNCHANGED <<memory, todo, disk, backup, ghosts, bounds>>
\* An address's rows in the two tables, and what they should be.
Written(a) == <<disk["ratings"][a], disk["blacklist"][a]>>
Kept(a) == <<mem[a], Rows(marks.blacklist)[a]>>
\* drain returns; a full save believes that nothing is dirty any more.
Drained ==
    /\ waiting /\ unfinished = 0
    /\ waiting' = FALSE
    /\ todo' = Tail(todo)
    /\ dirty' = IF Head(todo) = "state" THEN {} ELSE dirty
    /\ pool' = IF Head(todo) = "working"
               THEN In(disk["working"]) \cap In(disk["ratings"]) \cap In(mem) ELSE pool
    /\ owed' = {a \in owed : Head(todo) = "state" => Written(a) # Kept(a)}
    /\ UNCHANGED <<mem, marks, writer, disk, backup, bounds>>

\* ---- the writer's thread: any number of the statements submitted so far, up
\* ---- to 128, in one commit; or all of them lost ----

TakenOff(k) == /\ queue' = SubSeq(queue, k + 1, Len(queue))
               /\ unfinished' = unfinished - k
WriterCommits ==
    \E k \in 1..Len(queue) :
        LET batch == SubSeq(queue, 1, k) IN
        /\ ~Refused(batch, disk)
        /\ disk' = Course(batch, disk)[k]
        /\ TakenOff(k)
        /\ UNCHANGED <<memory, handler, backup, ghosts, bounds>>
\* task_done is called for every item, of a lost batch too.
NotDone(k) == /\ queue' = SubSeq(queue, k + 1, Len(queue)) \* mutated
              /\ UNCHANGED unfinished
Lost(k) == TakenOff(k)
\* A batch is rolled back and gone: the database was locked too long or full, or
\* an INSERT hit a row that an earlier loss had left.
WriterFails ==
    \E k \in 1..Len(queue) :
        LET batch == SubSeq(queue, 1, k) IN
        /\ \/ Refused(batch, disk) /\ UNCHANGED faults
           \/ faults < MaxFaults /\ faults' = faults + 1
        /\ Lost(k)
        /\ owed' = Addrs
        /\ pool' = {}
        /\ UNCHANGED <<memory, handler, disk, backup, edits, kills>>

\* ---- the end of a process and the next one ----

Restarted ==
    /\ Load(disk)
    /\ dirty' = {} /\ todo' = <<>> /\ waiting' = FALSE
    /\ queue' = <<>> /\ unfinished' = 0
    /\ owed' = Unlike(disk)
    /\ pool' = pool \cap In(disk["ratings"]) \cap In(disk["working"])
    /\ UNCHANGED <<disk, backup, edits, faults>>
Killed == kills < MaxKills /\ kills' = kills + 1 /\ Restarted
Exits == Next1("exit") /\ Restarted /\ UNCHANGED kills

Handlers ==
    \/ \E a \in Addrs : Checked(a) \/ TrafficFails(a) \/ Import(a)
    \/ \E a \in Addrs, on \in BOOLEAN : Blacklist(a, on) \/ Favorite(a, on)
    \/ SourceRefresh \/ ClearDead \/ SaveAll \/ CreateBackup \/ RestoreBackup
Call == SaveMarks \/ SaveState \/ SaveWorkingFile \/ Drained
Writer == WriterCommits \/ WriterFails
Next == Handlers \/ Call \/ Writer \/ Killed \/ Exits

\* A first start, or one that finds some good proxies.
Saved(S) ==
    [t \in Tables |-> CASE t = "ratings" -> [a \in Addrs |-> IF a \in S THEN Rating("ok") ELSE None]
                        [] t = "working" -> Rows(S)
                        [] OTHER -> Nothing]
Init ==
    /\ \E S \in SUBSET Addrs : disk = Saved(S) /\ pool = S
    /\ backup = Saved({})
    /\ mem = Loaded(disk) /\ marks = LoadedMarks(disk)
    /\ dirty = {} /\ owed = {}
    /\ todo = <<>> /\ waiting = FALSE
    /\ queue = <<>> /\ unfinished = 0
    /\ edits = 0 /\ faults = 0 /\ kills = 0

\* The writer's thread and the event loop run; handlers, faults and kills need not.
Spec == Init /\ [][Next]_vars /\ WF_vars(Writer) /\ WF_vars(Call)

\* ---- properties ----

\* The variables have their types, and the writer's count is that of its queue.
TableRows == [Addrs -> Ratings \cup {Row, None}]
Operations == {"delete", "insert", "insert_or_ignore", "replace"}
TypeOK ==
    /\ mem \in [Addrs -> Ratings \cup {None}]
    /\ marks \in [blacklist : SUBSET Addrs, favorites : SUBSET Addrs]
    /\ dirty \subseteq Addrs /\ owed \subseteq Addrs /\ pool \subseteq Addrs
    /\ todo \in Seq(Tables \cup {"state", "exit"}) /\ waiting \in BOOLEAN
    /\ queue \in Seq([op : Operations, table : Tables, rows : TableRows])
    /\ unfinished = Len(queue)
    /\ disk \in [Tables -> TableRows] /\ backup \in [Tables -> TableRows]
    /\ edits \in 0..MaxEdits /\ faults \in 0..MaxFaults /\ kills \in 0..MaxKills

\* A rating whose row differs is dirty, in the writer's queue, or about to be
\* written by a full save (the bookkeeping of _dirty_ratings); excused are rows
\* that a lost batch, a restore or a load from the working list left behind.
Pending(a) ==
    \/ a \in dirty \cup owed
    \/ \E i \in 1..Len(queue) : queue[i].table = "ratings" /\ a \in In(queue[i].rows)
    \/ "state" \in {todo[i] : i \in 1..Len(todo)}
ChangesReachDisk == \A a \in Addrs : mem[a] = disk["ratings"][a] \/ Pending(a)

\* Whenever the process is killed, also between the DELETE and the INSERT of a
\* save, the proxies that both tables held, and that nobody has cleared since,
\* come back, unless they are banned.
KillKeepsPool ==
    \A a \in pool : Loaded(disk)[a] # None \/ disk["blacklist"][a] # None

\* Once blacklist_add has committed the ban of a rated proxy, no kill brings the
\* proxy back into the pool.
BanSurvivesKill ==
    (todo = <<>> \/ todo[1] # "blacklist") =>
        \A a \in marks.blacklist \ owed :
            mem[a] # None /\ mem[a].black => Loaded(disk)[a] = None \/ Loaded(disk)[a].black

\* A drain, which stops the event loop, ends, whatever happens to the batches.
DrainReturns == waiting ~> ~waiting
=============================================================================
