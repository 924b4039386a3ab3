------------------------------ MODULE StoreProofs ------------------------------
(***************************************************************************)
(* Theorems about Store, for any addresses and any number of handlers,     *)
(* lost batches and kills.  All of them speak of the committed tables now  *)
(* and after each statement the writer still holds, Ahead(i): a commit     *)
(* only moves along that course, so it preserves whatever is said of the   *)
(* whole of it or of its end.  The argument has three parts:               *)
(*   - the recursive function Course: its equation, and what it makes of   *)
(*     the parts of a queue, by least counterexample;                      *)
(*   - the invariant: types, what a queue holds between two saves          *)
(*     (OnlyRatings), what the end of the course owes to memory (Reach),   *)
(*     the pool (Keeps) and the banned (Bans), action by action;           *)
(*   - the four invariants of the runs.                                    *)
(***************************************************************************)
EXTENDS Store, TLAPS, SequenceTheorems, WellFoundedInduction

\* What the tables hold: a row of the ratings is a rating.
RatingRows == [Addrs -> Ratings \cup {None}]
Database == {d \in [Tables -> TableRows] : d["ratings"] \in RatingRows}
Statements ==
    {st \in [op : Operations, table : Tables, rows : TableRows] :
        st.table = "ratings" => st.rows \in RatingRows}
\* What is left of a handler.
Handling ==
    {<<>>, <<"working">>, <<"state">>, <<"state", "working">>, <<"state", "working", "exit">>,
     <<"working", "exit">>, <<"exit">>, <<"blacklist", "state", "working">>, <<"favorites", "state">>}

\* The tables once the writer has committed i more statements; all of them.
Ahead(i) == Course(queue, disk)[i]
Final == Ahead(Len(queue))

IndType ==
    /\ mem \in RatingRows
    /\ marks \in [blacklist : SUBSET Addrs, favorites : SUBSET Addrs]
    /\ dirty \subseteq Addrs /\ owed \subseteq Addrs /\ pool \subseteq Addrs
    /\ todo \in Handling /\ waiting \in BOOLEAN
    /\ waiting => todo # <<>> /\ Head(todo) \in {"state", "working"}
    /\ queue \in Seq(Statements) /\ unfinished = Len(queue)
    /\ disk \in Database /\ backup \in Database
    /\ edits \in 0..MaxEdits /\ faults \in 0..MaxFaults /\ kills \in 0..MaxKills

\* drain() is asked for the end of a full save, or of a save of the working list.
Saving(call) == waiting /\ Head(todo) = call
\* Outside a save the queue holds rows of changed ratings and nothing else.
Replaces(st) == st.table = "ratings" /\ st.op = "replace"
OnlyRatings ==
    \A i \in 1..Len(queue) :
        Replaces(queue[i]) \/ Saving("state") \/ (Saving("working") /\ queue[i].table = "working")

\* A full save is under way or is going to be asked for.
SaveAhead == todo # <<>> /\ (Head(todo) \in {"state", "blacklist", "favorites"})
\* An address whose rating the writer's last statement leaves as memory has it.
Reaches(a) == Final["ratings"][a] = mem[a]
Reach ==
    \A a \in Addrs \ owed :
        /\ Saving("state") => Reaches(a)
        /\ ~SaveAhead => Reaches(a) \/ (a \in dirty /\ mem[a] # None)

Keeps ==
    \A a \in pool :
        /\ mem[a] # None
        /\ \A i \in 0..Len(queue) : Ahead(i)["ratings"][a] # None \/ Ahead(i)["working"][a] # None
        /\ Final["ratings"][a] # None
        /\ Saving("working") \/ Final["working"][a] # None

Banned(d, a) ==
    \/ d["blacklist"][a] # None
    \/ d["ratings"][a] # None /\ d["ratings"][a].black
Committed == todo = <<>> \/ Head(todo) # "blacklist"
Bans ==
    Committed =>
        \A a \in marks.blacklist \ owed :
            /\ Final["blacklist"][a] # None
            /\ mem[a] # None /\ mem[a].black => \A i \in 0..Len(queue) : Banned(Ahead(i), a)

IndStore == IndType /\ OnlyRatings /\ Reach /\ Keeps /\ Bans

(***************************************************************************)
(* Course.  What holds of 0 and is passed on from each number below n to   *)
(* the next holds of all numbers up to n: the least counterexample.        *)
(***************************************************************************)

LEMMA UpTo ==
    ASSUME NEW n \in Nat, NEW K, 0 \in K,
           \A i \in 1..n : i - 1 \in K => i \in K
    PROVE  \A i \in 0..n : i \in K
<1> DEFINE B == {i \in 0..n : i \notin K}
<1>. SUFFICES ASSUME B # {} PROVE FALSE
  OBVIOUS
<1>1. \E i \in B : \A j \in B : ~ (<<j, i>> \in OpToRel(<, Nat))
  <2>1. B \subseteq Nat
    OBVIOUS
  <2>. QED
    BY <2>1, WFMin, NatLessThanWellFounded
<1>2. PICK i \in B : \A j \in B : ~ (<<j, i>> \in OpToRel(<, Nat))
  BY <1>1
<1>3. i \in 1..n /\ i - 1 \in 0..n /\ i - 1 \in Nat /\ i \in Nat /\ i - 1 < i
  <2>1. i \in 0..n /\ i # 0
    OBVIOUS
  <2>. QED
    BY <2>1
<1>4. <<i - 1, i>> \in OpToRel(<, Nat)
  BY <1>3 DEF OpToRel
<1>5. i - 1 \notin B
  BY <1>2, <1>4, Zenon
<1>. QED
  BY <1>2, <1>3, <1>5

\* The recursive definition of Course has a solution, so Course is one.
LEMMA CourseDef ==
    ASSUME NEW b, Len(b) \in Nat, NEW d
    PROVE  Course(b, d) =
             [i \in 0..Len(b) |-> IF i = 0 THEN d ELSE Executed(b[i], Course(b, d)[i - 1])]
<1> DEFINE n == Len(b)
           Solves(f, m) == f = [i \in 0..m |-> IF i = 0 THEN d ELSE Executed(b[i], f[i - 1])]
           K == {m \in 0..n : \E f : Solves(f, m)}
<1>1. 0 \in K
  <2>1. Solves([i \in 0..0 |-> d], 0)
    OBVIOUS
  <2>2. 0 \in 0..n
    OBVIOUS
  <2>. HIDE DEF Solves, n
  <2>. QED
    BY <2>1, <2>2
<1>2. ASSUME NEW m \in 1..n, m - 1 \in K
      PROVE  m \in K
  <2>1. PICK f : Solves(f, m - 1)
    BY <1>2
  <2> DEFINE g == [i \in 0..m |-> IF i = m THEN Executed(b[m], f[m - 1]) ELSE f[i]]
  <2>2. m \in Nat /\ m >= 1 /\ m - 1 \in Nat
    OBVIOUS
  <2>3. \A i \in 0..(m - 1) : g[i] = f[i]
    BY <2>2
  <2>4. \A i \in 0..m : g[i] = IF i = 0 THEN d ELSE Executed(b[i], g[i - 1])
    <3>. SUFFICES ASSUME NEW i \in 0..m
                  PROVE  g[i] = IF i = 0 THEN d ELSE Executed(b[i], g[i - 1])
      OBVIOUS
    <3>1. CASE i = m
      <4>1. g[i] = Executed(b[m], f[m - 1])
        BY <3>1
      <4>2. g[i - 1] = f[m - 1]
        BY <2>2, <2>3, <3>1
      <4>. QED
        BY <2>2, <3>1, <4>1, <4>2
    <3>2. CASE i # m
      <4>1. i \in 0..(m - 1)
        BY <2>2, <3>2
      <4>2. g[i] = f[i] /\ (i # 0 => g[i - 1] = f[i - 1])
        BY <2>2, <2>3, <4>1
      <4>3. f[i] = IF i = 0 THEN d ELSE Executed(b[i], f[i - 1])
        BY <2>1, <4>1
      <4>. QED
        BY <4>2, <4>3
    <3>. QED
      BY <3>1, <3>2
  <2>5. Solves(g, m)
    <3>1. g = [i \in 0..m |-> g[i]]
      OBVIOUS
    <3>. HIDE DEF g
    <3>. QED
      BY <2>4, <3>1
  <2>. HIDE DEF g, Solves
  <2>. QED
    BY <2>5
<1>3. n \in K
  <2>. HIDE DEF K, n
  <2>1. n \in Nat
    BY DEF n
  <2>. QED
    BY <1>1, <1>2, <2>1, UpTo
<1>4. \E f : Solves(f, n)
  BY <1>3
<1>5. Solves(CHOOSE f : Solves(f, n), n)
  <2>. HIDE DEF Solves
  <2>. QED
    BY <1>4
<1>6. Course(b, d) = CHOOSE f : Solves(f, n)
  BY DEF Course
<1>. QED
  BY <1>5, <1>6

\* It starts with the tables and executes one statement after the other.
LEMMA CourseSteps ==
    ASSUME NEW b, Len(b) \in Nat, NEW d
    PROVE  /\ Course(b, d)[0] = d
           /\ \A i \in 1..Len(b) : Course(b, d)[i] = Executed(b[i], Course(b, d)[i - 1])
<1> DEFINE c == Course(b, d)
<1>1. c = [i \in 0..Len(b) |-> IF i = 0 THEN d ELSE Executed(b[i], c[i - 1])]
  BY CourseDef
<1>. HIDE DEF c
<1>2. c[0] = d /\ \A i \in 1..Len(b) : c[i] = Executed(b[i], c[i - 1])
  BY <1>1
<1>. QED
  BY <1>2 DEF c

\* Tables that every statement keeps in a set stay in it.
LEMMA CourseStaysIn ==
    ASSUME NEW b, Len(b) \in Nat, NEW D, NEW d \in D,
           \A i \in 1..Len(b) : \A x \in D : Executed(b[i], x) \in D
    PROVE  \A i \in 0..Len(b) : Course(b, d)[i] \in D
<1> DEFINE n == Len(b)
           c == Course(b, d)
           K == {i \in 0..n : c[i] \in D}
<1>1. c[0] = d /\ \A i \in 1..n : c[i] = Executed(b[i], c[i - 1])
  BY CourseSteps
<1>. HIDE DEF c
<1>2. 0 \in K
  BY <1>1
<1>3. \A i \in 1..n : i - 1 \in K => i \in K
  BY <1>1
<1>4. \A i \in 0..n : i \in K
  <2>1. n \in Nat
    OBVIOUS
  <2>. HIDE DEF n, K
  <2>. QED
    BY <1>2, <1>3, <2>1, UpTo
<1>. QED
  BY <1>4 DEF c

\* What is submitted comes after what is there.
LEMMA CourseConcat ==
    ASSUME NEW S, NEW b \in Seq(S), NEW c \in Seq(S), NEW d
    PROVE  /\ Len(b \o c) = Len(b) + Len(c)
           /\ \A i \in 0..Len(b) : Course(b \o c, d)[i] = Course(b, d)[i]
           /\ \A j \in 1..Len(c) : Course(b \o c, d)[Len(b) + j]
                                     = Executed(c[j], Course(b \o c, d)[Len(b) + j - 1])
<1> DEFINE m == Len(b)
           k == Len(c)
           s == b \o c
           f == Course(s, d)
           g == Course(b, d)
<1>1. m \in Nat /\ k \in Nat
  BY LenProperties
<1>2. Len(s) = m + k /\ (\A i \in 1..m : s[i] = b[i]) /\ \A j \in 1..k : s[m + j] = c[j]
  <2>1. Len(s) = m + k /\ \A i \in 1..(m + k) : s[i] = IF i <= m THEN b[i] ELSE c[i - m]
    BY ConcatProperties
  <2>. HIDE DEF s, m, k
  <2>2. \A i \in 1..m : i \in 1..(m + k) /\ i <= m
    BY <1>1
  <2>3. ASSUME NEW j \in 1..k
        PROVE  m + j \in 1..(m + k) /\ ~(m + j <= m) /\ (m + j) - m = j
    BY <1>1
  <2>. QED
    BY <2>1, <2>2, <2>3
<1>3. f[0] = d /\ \A i \in 1..(m + k) : f[i] = Executed(s[i], f[i - 1])
  <2>1. Len(s) \in Nat
    BY <1>1, <1>2
  <2>. HIDE DEF s
  <2>. QED
    BY <1>2, <2>1, CourseSteps
<1>4. g[0] = d /\ \A i \in 1..m : g[i] = Executed(b[i], g[i - 1])
  BY <1>1, CourseSteps
<1>. HIDE DEF f, g, s, m, k
<1>5. \A i \in 1..m : f[i - 1] = g[i - 1] => f[i] = g[i]
  <2>1. \A i \in 1..m : i \in 1..(m + k)
    BY <1>1
  <2>. QED
    BY <1>2, <1>3, <1>4, <2>1
<1>6. \A i \in 0..m : f[i] = g[i]
  <2> DEFINE K == {i \in 0..m : f[i] = g[i]}
  <2>1. 0 \in K
    BY <1>1, <1>3, <1>4
  <2>2. \A i \in 1..m : i - 1 \in K => i \in K
    BY <1>5
  <2>3. \A i \in 0..m : i \in K
    <3>. HIDE DEF K
    <3>. QED
      BY <1>1, <2>1, <2>2, UpTo
  <2>. QED
    BY <2>3
<1>7. \A j \in 1..k : f[m + j] = Executed(c[j], f[m + j - 1])
  <2>. SUFFICES ASSUME NEW j \in 1..k
                PROVE  f[m + j] = Executed(c[j], f[m + j - 1])
    OBVIOUS
  <2>1. m + j \in 1..(m + k)
    BY <1>1
  <2>2. f[m + j] = Executed(s[m + j], f[(m + j) - 1])
    BY <1>3, <2>1
  <2>3. s[m + j] = c[j]
    BY <1>2
  <2>. QED
    BY <1>1, <2>2, <2>3
<1>. QED
  BY <1>2, <1>6, <1>7 DEF f, g, s, m, k

\* A commit goes part of the way, and what is left goes the rest.
LEMMA CourseCommit ==
    ASSUME NEW S, NEW q \in Seq(S), NEW k \in 1..Len(q), NEW d
    PROVE  LET rest == SubSeq(q, k + 1, Len(q))
               there == Course(SubSeq(q, 1, k), d)[k]
           IN  /\ there = Course(q, d)[k]
               /\ rest \in Seq(S) /\ Len(rest) = Len(q) - k
               /\ \A j \in 1..Len(rest) : rest[j] = q[k + j]
               /\ \A j \in 0..Len(rest) : Course(rest, there)[j] = Course(q, d)[k + j]
<1> DEFINE n == Len(q)
           first == SubSeq(q, 1, k)
           rest == SubSeq(q, k + 1, n)
           f == Course(q, d)
           g == Course(first, d)
           h == Course(rest, f[k])
           tail == [j \in 0..(n - k) |-> f[k + j]]
<1>1. n \in Nat /\ k \in Nat /\ 1 <= k /\ k <= n /\ n - k \in Nat
  BY LenProperties
<1>2. Len(first) = k /\ \A i \in 1..k : first[i] = q[i]
  BY <1>1, SubSeqProperties
<1>3. rest \in Seq(S) /\ Len(rest) = n - k /\ \A j \in 1..(n - k) : rest[j] = q[k + j]
  BY <1>1, SubSeqProperties
<1>4. f[0] = d /\ \A i \in 1..n : f[i] = Executed(q[i], f[i - 1])
  BY <1>1, CourseSteps
<1>5. g[0] = d /\ \A i \in 1..k : g[i] = Executed(first[i], g[i - 1])
  <2>. HIDE DEF first
  <2>. QED
    BY <1>1, <1>2, CourseSteps
<1>6. h[0] = f[k] /\ \A j \in 1..(n - k) : h[j] = Executed(rest[j], h[j - 1])
  <2>. HIDE DEF rest, f
  <2>. QED
    BY <1>1, <1>3, CourseSteps
<1>. HIDE DEF f, g, h, first, rest, n
<1>7. f[k] = g[k]
  <2>1. \A i \in 1..k : i \in 1..n
    BY <1>1
  <2>2. \A i \in 1..k : f[i - 1] = g[i - 1] => f[i] = g[i]
    BY <1>2, <1>4, <1>5, <2>1
  <2> DEFINE K == {i \in 0..k : f[i] = g[i]}
  <2>3. 0 \in K
    BY <1>1, <1>4, <1>5
  <2>4. \A i \in 1..k : i - 1 \in K => i \in K
    BY <2>2
  <2>5. \A i \in 0..k : i \in K
    <3>. HIDE DEF K
    <3>. QED
      BY <1>1, <2>3, <2>4, UpTo
  <2>. QED
    BY <1>1, <2>5
<1>8. \A j \in 0..(n - k) : h[j] = f[k + j]
  <2>1. tail[0] = f[k] /\ \A j \in 0..(n - k) : tail[j] = f[k + j]
    BY <1>1
  <2>2. ASSUME NEW j \in 1..(n - k)
        PROVE  h[j - 1] = tail[j - 1] => h[j] = tail[j]
    <3>1. j - 1 \in 0..(n - k) /\ j \in 0..(n - k) /\ k + j \in 1..n /\ k + (j - 1) = (k + j) - 1
      BY <1>1
    <3>2. f[k + j] = Executed(q[k + j], f[(k + j) - 1])
      BY <1>4, <3>1
    <3>3. rest[j] = q[k + j]
      BY <1>3
    <3>4. tail[j] = f[k + j] /\ tail[j - 1] = f[k + (j - 1)]
      BY <2>1, <3>1
    <3>. HIDE DEF tail
    <3>. QED
      BY <1>6, <3>1, <3>2, <3>3, <3>4
  <2>. HIDE DEF tail
  <2> DEFINE K == {j \in 0..(n - k) : h[j] = tail[j]}
  <2>3. 0 \in K
    BY <1>1, <1>6, <2>1
  <2>4. \A j \in 1..(n - k) : j - 1 \in K => j \in K
    BY <2>2
  <2>5. \A j \in 0..(n - k) : j \in K
    <3>. HIDE DEF K
    <3>. QED
      BY <1>1, <2>3, <2>4, UpTo
  <2>. QED
    BY <2>1, <2>5
<1>. QED
  BY <1>3, <1>7, <1>8 DEF f, g, h, first, rest, n

\* ---- one statement ----

\* A statement changes one table, and leaves ratings in the ratings table.
LEMMA ExecutedEffect ==
    ASSUME NEW st \in Statements, NEW d \in Database
    PROVE  /\ Executed(st, d) \in Database
           /\ \A t \in Tables : t # st.table => Executed(st, d)[t] = d[t]
           /\ \A a \in Addrs : Executed(st, d)[st.table][a]
                                 = IF st.op = "delete" THEN None
                                   ELSE IF st.rows[a] # None THEN st.rows[a]
                                   ELSE d[st.table][a]
<1> DEFINE cell(a) == IF st.op = "delete" THEN None
                      ELSE IF st.rows[a] # None THEN st.rows[a] ELSE d[st.table][a]
           rows == [a \in Addrs |-> cell(a)]
<1>1. st.table \in Tables /\ st.rows \in TableRows /\ d \in [Tables -> TableRows]
      /\ d["ratings"] \in RatingRows /\ (st.table = "ratings" => st.rows \in RatingRows)
  BY DEF Statements, Database
<1>2. Executed(st, d) = [d EXCEPT ![st.table] = rows]
  BY DEF Executed
<1>3. \A a \in Addrs : cell(a) \in Ratings \cup {Row, None}
  BY <1>1 DEF TableRows
<1>4. rows \in TableRows
  BY <1>3 DEF TableRows
<1>5. ASSUME st.table = "ratings"
      PROVE  rows \in RatingRows
  <2>1. \A a \in Addrs : cell(a) \in Ratings \cup {None}
    BY <1>1, <1>5 DEF RatingRows
  <2>. QED
    BY <2>1 DEF RatingRows
<1>6. Executed(st, d) \in Database
  <2>. HIDE DEF rows
  <2>1. Executed(st, d) \in [Tables -> TableRows]
    BY <1>1, <1>2, <1>4
  <2>2. "ratings" \in Tables
    BY DEF Tables
  <2>3. Executed(st, d)["ratings"] = IF st.table = "ratings" THEN rows ELSE d["ratings"]
    BY <1>1, <1>2, <2>2
  <2>. QED
    BY <1>1, <1>5, <2>1, <2>3 DEF Database
<1>. QED
  BY <1>1, <1>2, <1>6

\* So tables stay tables along the course of a queue.
LEMMA CourseTypes ==
    ASSUME NEW q \in Seq(Statements), NEW d \in Database
    PROVE  \A i \in 0..Len(q) : Course(q, d)[i] \in Database
<1>1. \A i \in 1..Len(q) : q[i] \in Statements
  BY ElementOfSeq
<1>2. Len(q) \in Nat
  BY LenProperties
<1>3. \A i \in 1..Len(q) : \A x \in Database : Executed(q[i], x) \in Database
  BY <1>1, ExecutedEffect
<1>. QED
  BY <1>2, <1>3, CourseStaysIn

\* Changed ratings, on their way to the disk, leave every other table alone,
\* lose no row, and change none they do not hold.
LEMMA CourseOfRatings ==
    ASSUME NEW q \in Seq(Statements), NEW d \in Database,
           \A i \in 1..Len(q) : Replaces(q[i])
    PROVE  \A i \in 0..Len(q) :
             /\ \A t \in Tables \ {"ratings"} : Course(q, d)[i][t] = d[t]
             /\ \A a \in Addrs : d["ratings"][a] # None => Course(q, d)[i]["ratings"][a] # None
             /\ \A a \in Addrs : (\A j \in 1..Len(q) : a \notin In(q[j].rows))
                                   => Course(q, d)[i]["ratings"][a] = d["ratings"][a]
<1> DEFINE Untouched(a) == \A j \in 1..Len(q) : a \notin In(q[j].rows)
           D == {x \in Database :
                   /\ \A t \in Tables \ {"ratings"} : x[t] = d[t]
                   /\ \A a \in Addrs : d["ratings"][a] # None => x["ratings"][a] # None
                   /\ \A a \in Addrs : Untouched(a) => x["ratings"][a] = d["ratings"][a]}
<1>1. d \in D
  OBVIOUS
<1>2. Len(q) \in Nat
  BY LenProperties
<1>3. ASSUME NEW i \in 1..Len(q), NEW x \in D
      PROVE  Executed(q[i], x) \in D
  <2> DEFINE y == Executed(q[i], x)
  <2>1. q[i] \in Statements /\ x \in Database
    BY ElementOfSeq
  <2>2. q[i].table = "ratings" /\ q[i].op # "delete"
    BY DEF Replaces
  <2>3. /\ y \in Database
        /\ \A t \in Tables : t # "ratings" => y[t] = x[t]
        /\ \A a \in Addrs : y["ratings"][a] = IF q[i].rows[a] # None THEN q[i].rows[a]
                                              ELSE x["ratings"][a]
    BY <2>1, <2>2, ExecutedEffect
  <2>. HIDE DEF y
  <2>4. \A t \in Tables \ {"ratings"} : y[t] = d[t]
    BY <2>3
  <2>5. ASSUME NEW a \in Addrs, d["ratings"][a] # None
        PROVE  y["ratings"][a] # None
    BY <2>3, <2>5
  <2>6. ASSUME NEW a \in Addrs, Untouched(a)
        PROVE  y["ratings"][a] = d["ratings"][a]
    <3>1. q[i].rows[a] = None
      BY <2>6 DEF In
    <3>2. x["ratings"][a] = d["ratings"][a]
      BY <2>6
    <3>. QED
      BY <2>3, <3>1, <3>2
  <2>. HIDE DEF Untouched
  <2>. QED
    BY <2>3, <2>4, <2>5, <2>6 DEF y
<1>4. \A i \in 0..Len(q) : Course(q, d)[i] \in D
  <2>. HIDE DEF D
  <2>. QED
    BY <1>1, <1>2, <1>3, CourseStaysIn
<1>. QED
  BY <1>4

(***************************************************************************)
(* What the calls submit, and what a process loads.                        *)
(***************************************************************************)

LEMMA StatementType ==
    ASSUME NEW op \in Operations, NEW t \in Tables, NEW rows \in TableRows,
           t = "ratings" => rows \in RatingRows
    PROVE  /\ Statement(op, t, rows) \in Statements
           /\ Statement(op, t, rows).op = op /\ Statement(op, t, rows).table = t
           /\ Statement(op, t, rows).rows = rows
BY DEF Statement, Statements

LEMMA RowTypes ==
    /\ RatingRows \subseteq TableRows /\ Nothing \in RatingRows
    /\ \A S \in SUBSET Addrs : Rows(S) \in TableRows
BY DEF RatingRows, TableRows, Nothing, Rows

\* The changed rows are one statement that replaces ratings.
LEMMA DirtyRowsType ==
    ASSUME NEW m \in RatingRows, NEW D
    PROVE  /\ <<DirtyRows(m, D)>> \in Seq(Statements) /\ Len(<<DirtyRows(m, D)>>) = 1
           /\ DirtyRows(m, D) \in Statements
           /\ Replaces(DirtyRows(m, D))
           /\ \A a \in Addrs : DirtyRows(m, D).rows[a] = IF a \in D THEN m[a] ELSE None
<1> DEFINE rows == [a \in Addrs |-> IF a \in D THEN m[a] ELSE None]
<1>1. rows \in RatingRows
  BY DEF RatingRows
<1>2. rows \in TableRows /\ "ratings" \in Tables /\ "replace" \in Operations
  BY <1>1, RowTypes DEF Tables, Operations
<1>3. DirtyRows(m, D) = Statement("replace", "ratings", rows)
  BY DEF DirtyRows
<1>4. DirtyRows(m, D) \in Statements /\ Replaces(DirtyRows(m, D)) /\ DirtyRows(m, D).rows = rows
  <2>. HIDE DEF rows
  <2>. QED
    BY <1>1, <1>2, <1>3, StatementType DEF Replaces
<1>5. \A a \in Addrs : rows[a] = IF a \in D THEN m[a] ELSE None
  OBVIOUS
<1>. HIDE DEF rows
<1>. QED
  BY <1>4, <1>5

\* A full save, statement by statement.
LEMMA FullSaveType ==
    ASSUME mem \in RatingRows, marks \in [blacklist : SUBSET Addrs, favorites : SUBSET Addrs]
    PROVE  /\ FullSave \in Seq(Statements) /\ Len(FullSave) = 6
           /\ \A i \in 1..6 : FullSave[i] \in Statements
           /\ FullSave[1].table = "ratings" /\ FullSave[1].op = "delete"
           /\ FullSave[2].table = "ratings" /\ FullSave[2].op = "insert" /\ FullSave[2].rows = mem
           /\ FullSave[3].table = "blacklist" /\ FullSave[3].op = "delete"
           /\ FullSave[4].table = "blacklist" /\ FullSave[4].op = "insert"
           /\ FullSave[4].rows = Rows(marks.blacklist)
           /\ FullSave[5].table = "favorites" /\ FullSave[6].table = "favorites"
<1> DEFINE s1 == Clear("ratings")
           s2 == Statement("insert", "ratings", mem)
           s3 == Clear("blacklist")
           s4 == Statement("insert", "blacklist", Rows(marks.blacklist))
           s5 == Clear("favorites")
           s6 == Statement("replace", "favorites", Rows(marks.favorites))
<1>1. marks.blacklist \in SUBSET Addrs /\ marks.favorites \in SUBSET Addrs
  OBVIOUS
<1>2. /\ "ratings" \in Tables /\ "blacklist" \in Tables /\ "favorites" \in Tables
      /\ mem \in TableRows /\ Nothing \in TableRows /\ Nothing \in RatingRows
      /\ Rows(marks.blacklist) \in TableRows /\ Rows(marks.favorites) \in TableRows
      /\ "delete" \in Operations /\ "insert" \in Operations /\ "replace" \in Operations
  BY <1>1, RowTypes DEF Tables, Operations
<1>3. s1 \in Statements /\ s1.table = "ratings" /\ s1.op = "delete"
  BY <1>2, StatementType DEF Clear
<1>4. s2 \in Statements /\ s2.table = "ratings" /\ s2.op = "insert" /\ s2.rows = mem
  BY <1>2, StatementType
<1>5. s3 \in Statements /\ s3.table = "blacklist" /\ s3.op = "delete"
  BY <1>2, StatementType DEF Clear
<1>6. s4 \in Statements /\ s4.table = "blacklist" /\ s4.op = "insert"
      /\ s4.rows = Rows(marks.blacklist)
  BY <1>2, StatementType
<1>7. s5 \in Statements /\ s5.table = "favorites"
  BY <1>2, StatementType DEF Clear
<1>8. s6 \in Statements /\ s6.table = "favorites"
  BY <1>2, StatementType
<1>9. FullSave = <<s1, s2, s3, s4, s5, s6>>
  BY DEF FullSave
<1>. HIDE DEF s1, s2, s3, s4, s5, s6
<1>10. <<s1, s2, s3, s4, s5, s6>> \in Seq(Statements)
  BY <1>3, <1>4, <1>5, <1>6, <1>7, <1>8
<1>. QED
  BY <1>3, <1>4, <1>5, <1>6, <1>7, <1>8, <1>9, <1>10

\* A save of the working list.
LEMMA WorkingSaveType ==
    /\ WorkingSave \in Seq(Statements) /\ Len(WorkingSave) = 2
    /\ WorkingSave[1] \in Statements /\ WorkingSave[1].table = "working"
    /\ WorkingSave[2] \in Statements /\ WorkingSave[2].table = "working"
<1> DEFINE S == {a \in Addrs : PoolEligible(mem[a])}
           s1 == Clear("working")
           s2 == Statement("insert_or_ignore", "working", Rows(S))
<1>1. /\ "working" \in Tables /\ Nothing \in TableRows /\ Rows(S) \in TableRows
      /\ "delete" \in Operations /\ "insert_or_ignore" \in Operations
  <2>1. S \in SUBSET Addrs
    OBVIOUS
  <2>. HIDE DEF S
  <2>. QED
    BY <2>1, RowTypes DEF Tables, Operations
<1>2. WorkingSave = <<s1, s2>>
  BY DEF WorkingSave
<1>. HIDE DEF S
<1>3. s1 \in Statements /\ s1.table = "working"
  BY <1>1, StatementType DEF Clear
<1>4. s2 \in Statements /\ s2.table = "working"
  BY <1>1, StatementType
<1>. HIDE DEF s1, s2
<1>. QED
  BY <1>2, <1>3, <1>4

\* What a process loads is a rating or nothing; what its ratings table holds it
\* loads, and a banned address is loaded with its ban or not at all.
LEMMA LoadedFacts ==
    ASSUME NEW d \in Database
    PROVE  /\ Loaded(d) \in RatingRows
           /\ LoadedMarks(d) \in [blacklist : SUBSET Addrs, favorites : SUBSET Addrs]
           /\ \A a \in Addrs : a \in LoadedMarks(d).blacklist <=> d["blacklist"][a] # None
           /\ \A a \in Addrs : d["ratings"][a] # None => Loaded(d)[a] # None
           /\ \A a \in Addrs : d["working"][a] # None =>
                                 Loaded(d)[a] # None \/ d["blacklist"][a] # None
           /\ \A a \in Addrs : Banned(d, a) => Loaded(d)[a] = None \/ Loaded(d)[a].black
<1> DEFINE r(a) == d["ratings"][a]
           f(a) == FromRatings(d)[a]
<1>1. d["ratings"] \in RatingRows
  BY DEF Database
<1>2. ASSUME NEW a \in Addrs
      PROVE  /\ f(a) \in Ratings \cup {None}
             /\ f(a) = None <=> r(a) = None
             /\ r(a) # None => f(a).black = (r(a).black \/ d["blacklist"][a] # None)
  <2>1. CASE r(a) = None
    BY <2>1 DEF FromRatings
  <2>2. CASE r(a) # None
    <3>1. r(a) \in Ratings
      BY <1>1, <2>2 DEF RatingRows
    <3>2. f(a) = [r(a) EXCEPT !.black = @ \/ d["blacklist"][a] # None,
                              !.fav = @ \/ d["favorites"][a] # None]
      BY <2>2 DEF FromRatings
    <3>3. f(a) \in Ratings
      BY <3>1, <3>2 DEF Ratings
    <3>4. f(a).black = (r(a).black \/ d["blacklist"][a] # None)
      BY <3>1, <3>2 DEF Ratings
    <3>. QED
      BY <2>2, <3>3, <3>4, RowsAssumption
  <2>. QED
    BY <2>1, <2>2
<1>3. Rating("ok") \in Ratings
  BY DEF Rating, Ratings
<1>4. \A a \in Addrs :
        Loaded(d)[a] = IF f(a) = None /\ d["working"][a] # None /\ d["blacklist"][a] = None
                       THEN Rating("ok") ELSE f(a)
  BY DEF Loaded
<1>5. Loaded(d) \in RatingRows
  <2>1. Loaded(d) = [a \in Addrs |-> Loaded(d)[a]]
    BY DEF Loaded
  <2>. HIDE DEF f
  <2>2. \A a \in Addrs : Loaded(d)[a] \in Ratings \cup {None}
    BY <1>2, <1>3, <1>4
  <2>. QED
    BY <2>1, <2>2 DEF RatingRows
<1>6. /\ LoadedMarks(d) \in [blacklist : SUBSET Addrs, favorites : SUBSET Addrs]
      /\ \A a \in Addrs : a \in LoadedMarks(d).blacklist <=> d["blacklist"][a] # None
  BY DEF LoadedMarks, In
<1>7. ASSUME NEW a \in Addrs
      PROVE  /\ r(a) # None => Loaded(d)[a] # None
             /\ d["working"][a] # None => Loaded(d)[a] # None \/ d["blacklist"][a] # None
             /\ Banned(d, a) => Loaded(d)[a] = None \/ Loaded(d)[a].black
  <2>1. Rating("ok") # None
    BY <1>3, RowsAssumption
  <2>. HIDE DEF f
  <2>2. Banned(d, a) => Loaded(d)[a] = None \/ Loaded(d)[a].black
    BY <1>2, <1>4 DEF Banned
  <2>. QED
    BY <1>2, <1>4, <2>1, <2>2
<1>. QED
  BY <1>5, <1>6, <1>7

(***************************************************************************)
(* Types.                                                                  *)
(***************************************************************************)

\* What remains of a handler, call by call.
LEMMA Calls ==
    ASSUME NEW h \in Handling, h # <<>>
    PROVE  /\ Tail(h) \in Handling
           /\ Head(h) = "state" => Tail(h) \in {<<>>, <<"working">>, <<"working", "exit">>}
           /\ Head(h) = "working" => Tail(h) \in {<<>>, <<"exit">>}
           /\ Head(h) = "blacklist" => Tail(h) = <<"state", "working">>
           /\ Head(h) = "favorites" => Tail(h) = <<"state">>
           /\ Head(h) = "exit" => Tail(h) = <<>>
<1>1. \A x : Head(<<x>>) = x /\ Tail(<<x>>) = <<>>
  OBVIOUS
<1>2. \A x, y : Head(<<x, y>>) = x /\ Tail(<<x, y>>) = <<y>>
  OBVIOUS
<1>3. \A x, y, z : Head(<<x, y, z>>) = x /\ Tail(<<x, y, z>>) = <<y, z>>
  OBVIOUS
<1>4. \/ \E x \in {"working", "state", "exit"} : h = <<x>>
      \/ h = <<"state", "working">> \/ h = <<"working", "exit">> \/ h = <<"favorites", "state">>
      \/ h = <<"state", "working", "exit">> \/ h = <<"blacklist", "state", "working">>
  BY DEF Handling
<1>5. CASE \E x \in {"working", "state", "exit"} : h = <<x>>
  BY <1>1, <1>5 DEF Handling
<1>6. CASE h = <<"state", "working">>
  <2>1. Head(h) = "state" /\ Tail(h) = <<"working">>
    BY <1>2, <1>6
  <2>2. <<"working">> \in Handling
    BY DEF Handling
  <2>. QED
    BY <2>1, <2>2
<1>7. CASE h = <<"working", "exit">>
  <2>1. Head(h) = "working" /\ Tail(h) = <<"exit">>
    BY <1>2, <1>7
  <2>2. <<"exit">> \in Handling
    BY DEF Handling
  <2>. QED
    BY <2>1, <2>2
<1>8. CASE h = <<"favorites", "state">>
  <2>1. Head(h) = "favorites" /\ Tail(h) = <<"state">>
    BY <1>2, <1>8
  <2>2. <<"state">> \in Handling
    BY DEF Handling
  <2>. QED
    BY <2>1, <2>2
<1>9. CASE h = <<"state", "working", "exit">>
  <2>1. Head(h) = "state" /\ Tail(h) = <<"working", "exit">>
    BY <1>3, <1>9
  <2>2. <<"working", "exit">> \in Handling
    BY DEF Handling
  <2>. QED
    BY <2>1, <2>2
<1>10. CASE h = <<"blacklist", "state", "working">>
  <2>1. Head(h) = "blacklist" /\ Tail(h) = <<"state", "working">>
    BY <1>3, <1>10
  <2>2. <<"state", "working">> \in Handling
    BY DEF Handling
  <2>. QED
    BY <2>1, <2>2
<1>. QED
  BY <1>4, <1>5, <1>6, <1>7, <1>8, <1>9, <1>10

LEMMA EmptyQueue ==
    ASSUME NEW S, NEW q \in Seq(S), Len(q) = 0
    PROVE  q = <<>>
BY EmptySeq

\* A handler that begins finds the loop free and leaves its calls to be made.
LEMMA BeginType ==
    ASSUME IndType, NEW calls \in Handling, Begin(calls)
    PROVE  /\ todo = <<>> /\ ~waiting /\ todo' = calls /\ ~waiting'
           /\ todo' \in Handling /\ waiting' \in BOOLEAN
           /\ disk' \in Database /\ backup' \in Database
           /\ edits' \in 0..MaxEdits /\ faults' \in 0..MaxFaults /\ kills' \in 0..MaxKills
BY StoreAssumption DEF IndType, Begin

LEMMA SubmitType ==
    ASSUME IndType, NEW sts \in Seq(Statements), Submit(sts)
    PROVE  queue' \in Seq(Statements) /\ unfinished' = Len(queue')
<1>1. queue' = queue \o sts /\ unfinished' = Len(queue) + Len(sts)
  BY DEF Submit, IndType
<1>2. queue \in Seq(Statements)
  BY DEF IndType
<1>. QED
  BY <1>1, <1>2, ConcatProperties

LEMMA StatusType ==
    ASSUME NEW r \in Ratings \cup {None}, NEW s \in Verdicts(r)
    PROVE  /\ [(IF r = None THEN Rating(s) ELSE r) EXCEPT !.status = s] \in Ratings
           /\ [(IF r = None THEN Rating(s) ELSE r) EXCEPT !.status = s].black
                = (r # None /\ r.black)
<1>1. s \in {"idle", "ok", "grace", "failed"}
  BY DEF Verdicts
<1>2. CASE r = None
  BY <1>1, <1>2 DEF Rating, Ratings
<1>3. CASE r # None
  BY <1>1, <1>3 DEF Ratings
<1>. QED
  BY <1>2, <1>3

\* What the handlers of one rating do to memory: the rating is there, and as
\* banned as it was.
Touched(a) ==
    /\ mem' \in RatingRows /\ mem'[a] # None
    /\ mem'[a].black = (mem[a] # None /\ mem[a].black)
    /\ \A x \in Addrs \ {a} : mem'[x] = mem[x]

LEMMA CheckedTouches ==
    ASSUME mem \in RatingRows, NEW a \in Addrs, NEW s \in Verdicts(mem[a]),
           mem' = [mem EXCEPT ![a] = [(IF @ = None THEN Rating(s) ELSE @) EXCEPT !.status = s]]
    PROVE  Touched(a)
<1> DEFINE r == [(IF mem[a] = None THEN Rating(s) ELSE mem[a]) EXCEPT !.status = s]
<1>1. mem[a] \in Ratings \cup {None}
  BY DEF RatingRows
<1>2. r \in Ratings /\ r.black = (mem[a] # None /\ mem[a].black)
  BY <1>1, StatusType
<1>3. mem' = [mem EXCEPT ![a] = r]
  OBVIOUS
<1>. HIDE DEF r
<1>. QED
  BY <1>2, <1>3, RowsAssumption DEF Touched, RatingRows

LEMMA TrafficTouches ==
    ASSUME mem \in RatingRows, NEW a \in Addrs, mem[a] # None,
           NEW s \in Verdicts(mem[a]), mem' = [mem EXCEPT ![a].status = s]
    PROVE  Touched(a)
<1> DEFINE r == [mem[a] EXCEPT !.status = s]
<1>1. mem[a] \in Ratings \cup {None}
  BY DEF RatingRows
<1>2. r \in Ratings /\ r.black = (mem[a] # None /\ mem[a].black)
  BY <1>1, StatusType
<1>3. mem' = [mem EXCEPT ![a] = r]
  OBVIOUS
<1>. HIDE DEF r
<1>. QED
  BY <1>2, <1>3, RowsAssumption DEF Touched, RatingRows

LEMMA TypeInit == Init => IndType
<1>. SUFFICES ASSUME Init PROVE IndType
  OBVIOUS
<1>1. ASSUME NEW S \in SUBSET Addrs
      PROVE  Saved(S) \in Database
  <2>1. Rating("ok") \in Ratings
    BY DEF Rating, Ratings
  <2>2. \A a \in Addrs : (IF a \in S THEN Rating("ok") ELSE None) \in Ratings \cup {None}
    BY <2>1
  <2>3. [a \in Addrs |-> IF a \in S THEN Rating("ok") ELSE None] \in RatingRows
    <3>. HIDE DEF Rating, Ratings
    <3>. QED
      BY <2>2 DEF RatingRows
  <2>4. Rows(S) \in TableRows /\ Nothing \in TableRows /\ RatingRows \subseteq TableRows
    BY RowTypes
  <2> DEFINE t0 == [a \in Addrs |-> IF a \in S THEN Rating("ok") ELSE None]
  <2>5. Saved(S) = [t \in Tables |-> CASE t = "ratings" -> t0
                                       [] t = "working" -> Rows(S)
                                       [] OTHER -> Nothing]
    BY DEF Saved
  <2>. HIDE DEF t0
  <2>6. t0 \in RatingRows
    BY <2>3 DEF t0
  <2>. QED
    BY <2>4, <2>5, <2>6 DEF Database, Tables
<1>2. disk \in Database /\ pool \subseteq Addrs
  BY <1>1 DEF Init
<1>3. backup \in Database
  BY <1>1 DEF Init
<1>4. mem \in RatingRows /\ marks \in [blacklist : SUBSET Addrs, favorites : SUBSET Addrs]
  BY <1>2, LoadedFacts DEF Init
<1>5. todo \in Handling /\ queue \in Seq(Statements) /\ unfinished = Len(queue)
  BY DEF Init, Handling
<1>6. /\ dirty \subseteq Addrs /\ owed \subseteq Addrs /\ waiting = FALSE
      /\ edits \in 0..MaxEdits /\ faults \in 0..MaxFaults /\ kills \in 0..MaxKills
  BY StoreAssumption DEF Init
<1>. QED
  BY <1>2, <1>3, <1>4, <1>5, <1>6 DEF IndType

\* The handlers of one rating either mark it or hand the changed rows over.
LEMMA HandOver ==
    ASSUME IndType, NEW a \in Addrs, Checked(a) \/ TrafficFails(a)
    PROVE  /\ Touched(a) /\ UNCHANGED <<marks, ghosts>>
           /\ \E calls \in {<<>>, <<"working">>} : Begin(calls)
           /\ \/ dirty' = dirty \cup {a} /\ UNCHANGED writer
              \/ dirty' = {} /\ Submit(<<DirtyRows(mem', dirty \cup {a})>>)
<1>1. mem \in RatingRows
  BY DEF IndType
<1>2. CASE Checked(a)
  <2>1. Touched(a)
    BY <1>1, <1>2, CheckedTouches DEF Checked
  <2>. QED
    BY <1>2, <2>1 DEF Checked
<1>3. CASE TrafficFails(a)
  <2>1. Touched(a)
    BY <1>1, <1>3, TrafficTouches DEF TrafficFails
  <2>. QED
    BY <1>3, <2>1 DEF TrafficFails
<1>. QED
  BY <1>2, <1>3

LEMMA TypeStep == IndType /\ [Next]_vars => IndType'
<1>. SUFFICES ASSUME IndType, [Next]_vars PROVE IndType'
  OBVIOUS
<1>1. /\ mem \in RatingRows /\ marks \in [blacklist : SUBSET Addrs, favorites : SUBSET Addrs]
      /\ dirty \subseteq Addrs /\ owed \subseteq Addrs /\ pool \subseteq Addrs
      /\ todo \in Handling /\ waiting \in BOOLEAN
      /\ queue \in Seq(Statements) /\ unfinished = Len(queue)
      /\ disk \in Database /\ backup \in Database
      /\ edits \in 0..MaxEdits /\ faults \in 0..MaxFaults /\ kills \in 0..MaxKills
  BY DEF IndType
<1>2. <<>> \in Handling /\ <<"working">> \in Handling /\ <<"state">> \in Handling
      /\ <<"state", "working">> \in Handling /\ <<"state", "working", "exit">> \in Handling
      /\ <<"blacklist", "state", "working">> \in Handling /\ <<"favorites", "state">> \in Handling
  BY DEF Handling
<1>3. ASSUME NEW a \in Addrs, Checked(a) \/ TrafficFails(a)
      PROVE  IndType'
  <2>1. /\ mem' \in RatingRows /\ UNCHANGED <<marks, ghosts>>
        /\ \E calls \in {<<>>, <<"working">>} : Begin(calls)
        /\ \/ dirty' = dirty \cup {a} /\ UNCHANGED writer
           \/ dirty' = {} /\ Submit(<<DirtyRows(mem', dirty \cup {a})>>)
    BY <1>3, HandOver DEF Touched
  <2>2. queue' \in Seq(Statements) /\ unfinished' = Len(queue')
    <3>1. CASE UNCHANGED writer
      BY <1>1, <3>1 DEF writer
    <3>2. CASE Submit(<<DirtyRows(mem', dirty \cup {a})>>)
      BY <2>1, <3>2, SubmitType, DirtyRowsType
    <3>. QED
      BY <2>1, <3>1, <3>2
  <2>3. dirty' \subseteq Addrs /\ owed' = owed /\ pool' = pool /\ marks' = marks
    BY <1>1, <2>1 DEF ghosts
  <2>. QED
    BY <1>1, <1>2, <2>1, <2>2, <2>3, BeginType DEF IndType
<1>4. CASE SourceRefresh
  <2>1. PICK A \in SUBSET {a \in Addrs : mem[a] = None} \ {{}} :
          /\ mem' = [a \in Addrs |-> IF a \in A THEN Rating("idle") ELSE mem[a]]
          /\ dirty' = {} /\ Submit(<<DirtyRows(mem', dirty \cup A)>>)
    BY <1>4 DEF SourceRefresh
  <2>2. mem' \in RatingRows
    <3>1. Rating("idle") \in Ratings
      BY DEF Rating, Ratings
    <3>2. \A a \in Addrs : mem[a] \in Ratings \cup {None}
      BY <1>1 DEF RatingRows
    <3>. QED
      BY <2>1, <3>1, <3>2 DEF RatingRows
  <2>3. queue' \in Seq(Statements) /\ unfinished' = Len(queue')
    BY <2>1, <2>2, SubmitType, DirtyRowsType
  <2>4. Begin(<<>>) /\ marks' = marks /\ owed' = owed /\ pool' = pool
    BY <1>4 DEF SourceRefresh, ghosts
  <2>. QED
    BY <1>1, <1>2, <2>1, <2>2, <2>3, <2>4, BeginType DEF IndType
<1>5. ASSUME NEW a \in Addrs, Import(a)
      PROVE  IndType'
  <2>1. mem' \in RatingRows
    BY <1>1, <1>5 DEF Import, RatingRows, Rating, Ratings
  <2>2. /\ Begin(<<"state", "working">>) /\ marks' = marks /\ dirty' = dirty
        /\ queue' = queue /\ unfinished' = unfinished /\ owed' = owed /\ pool' = pool
    BY <1>5 DEF Import, writer, ghosts
  <2>. QED
    BY <1>1, <1>2, <2>1, <2>2, BeginType DEF IndType
<1>6. CASE ClearDead
  <2>1. mem' \in RatingRows
    BY <1>1, <1>6 DEF ClearDead, RatingRows
  <2>2. /\ Begin(<<"state", "working">>) /\ marks' = marks /\ dirty' = dirty
        /\ queue' = queue /\ unfinished' = unfinished /\ owed' = owed /\ pool' \subseteq Addrs
    BY <1>1, <1>6 DEF ClearDead, writer
  <2>. QED
    BY <1>1, <1>2, <2>1, <2>2, BeginType DEF IndType
<1>7. ASSUME NEW a \in Addrs, NEW on \in BOOLEAN, Blacklist(a, on)
      PROVE  IndType'
  <2>1. mem' \in RatingRows
    BY <1>1, <1>7 DEF Blacklist, RatingRows, Ratings
  <2>2. marks' \in [blacklist : SUBSET Addrs, favorites : SUBSET Addrs]
    BY <1>1, <1>7 DEF Blacklist
  <2>3. /\ Begin(<<"blacklist", "state", "working">>) /\ dirty' = dirty
        /\ queue' = queue /\ unfinished' = unfinished /\ owed' = owed /\ pool' = pool
    BY <1>7 DEF Blacklist, writer, ghosts
  <2>. QED
    BY <1>1, <1>2, <2>1, <2>2, <2>3, BeginType DEF IndType
<1>8. ASSUME NEW a \in Addrs, NEW on \in BOOLEAN, Favorite(a, on)
      PROVE  IndType'
  <2>1. mem' \in RatingRows
    BY <1>1, <1>8 DEF Favorite, RatingRows, Ratings
  <2>2. marks' \in [blacklist : SUBSET Addrs, favorites : SUBSET Addrs]
    BY <1>1, <1>8 DEF Favorite
  <2>3. /\ Begin(<<"favorites", "state">>) /\ dirty' = dirty
        /\ queue' = queue /\ unfinished' = unfinished /\ owed' = owed /\ pool' = pool
    BY <1>8 DEF Favorite, writer, ghosts
  <2>. QED
    BY <1>1, <1>2, <2>1, <2>2, <2>3, BeginType DEF IndType
<1>9. CASE SaveAll
  <2>1. /\ \E calls \in {<<"state">>, <<"state", "working">>, <<"state", "working", "exit">>} :
             Begin(calls)
        /\ mem' = mem /\ marks' = marks /\ dirty' = dirty
        /\ queue' = queue /\ unfinished' = unfinished /\ owed' = owed /\ pool' = pool
    BY <1>9 DEF SaveAll, memory, writer, ghosts
  <2>. QED
    BY <1>1, <1>2, <2>1, BeginType DEF IndType
<1>10. CASE CreateBackup
  BY <1>1, <1>10, StoreAssumption
     DEF CreateBackup, memory, handler, writer, ghosts, IndType
<1>11. CASE RestoreBackup
  <2>1. disk' \in Database
    <3>1. PICK T \in {Tables, {"ratings", "working"}, {"blacklist"}} :
            disk' = [t \in Tables |-> IF t \in T THEN backup[t] ELSE disk[t]]
      BY <1>11 DEF RestoreBackup
    <3>2. "ratings" \in Tables
      BY DEF Tables
    <3>. QED
      BY <1>1, <3>1, <3>2 DEF Database
  <2>2. mem' \in RatingRows /\ marks' \in [blacklist : SUBSET Addrs, favorites : SUBSET Addrs]
    BY <1>11, <2>1, LoadedFacts DEF RestoreBackup, Load
  <2>3. owed' \subseteq Addrs /\ pool' \subseteq Addrs
    BY <1>1, <1>11 DEF RestoreBackup, Unlike, In
  <2>4. /\ edits' \in 0..MaxEdits /\ faults' = faults /\ kills' = kills
        /\ todo' = todo /\ waiting' = waiting /\ queue' = queue /\ unfinished' = unfinished
        /\ dirty' = dirty /\ backup' = backup
    BY <1>1, <1>11, StoreAssumption DEF RestoreBackup, handler, writer
  <2>. QED
    BY <1>1, <2>1, <2>2, <2>3, <2>4 DEF IndType
<1>12. CASE SaveMarks
  <2>1. PICK t \in {"blacklist", "favorites"} : Next1(t) /\ disk' = [disk EXCEPT ![t] = Rows(marks[t])]
    BY <1>12 DEF SaveMarks
  <2>2. disk' \in Database
    <3>1. marks[t] \in SUBSET Addrs
      BY <1>1
    <3>2. Rows(marks[t]) \in TableRows /\ t \in Tables /\ "ratings" \in Tables
      BY <3>1, RowTypes DEF Tables
    <3>. QED
      BY <1>1, <2>1, <3>2 DEF Database
  <2>3. todo' \in Handling /\ waiting' = FALSE
    BY <1>1, <1>12, <2>1, Calls DEF SaveMarks, Next1
  <2>. QED
    BY <1>1, <1>12, <2>2, <2>3 DEF SaveMarks, memory, writer, ghosts, bounds, IndType
<1>13. CASE SaveState
  <2>1. queue' \in Seq(Statements) /\ unfinished' = Len(queue')
    BY <1>1, <1>13, SubmitType, FullSaveType DEF SaveState
  <2>2. waiting' = TRUE /\ todo' = todo /\ todo # <<>> /\ Head(todo) = "state"
    BY <1>13 DEF SaveState, Next1
  <2>. QED
    BY <1>1, <1>13, <2>1, <2>2 DEF SaveState, memory, ghosts, bounds, IndType
<1>14. CASE SaveWorkingFile
  <2>1. queue' \in Seq(Statements) /\ unfinished' = Len(queue')
    BY <1>1, <1>14, SubmitType, WorkingSaveType DEF SaveWorkingFile
  <2>2. waiting' = TRUE /\ todo' = todo /\ todo # <<>> /\ Head(todo) = "working"
    BY <1>14 DEF SaveWorkingFile, Next1
  <2>. QED
    BY <1>1, <1>14, <2>1, <2>2 DEF SaveWorkingFile, memory, ghosts, bounds, IndType
<1>15. CASE Drained
  <2>1. todo' \in Handling /\ waiting' = FALSE
    BY <1>1, <1>15, Calls DEF Drained, IndType
  <2>2. dirty' \subseteq Addrs /\ owed' \subseteq Addrs /\ pool' \subseteq Addrs
    BY <1>1, <1>15 DEF Drained, In
  <2>. QED
    BY <1>1, <1>15, <2>1, <2>2 DEF Drained, writer, bounds, IndType
<1>16. ASSUME NEW k \in 1..Len(queue), TakenOff(k)
       PROVE  queue' \in Seq(Statements) /\ unfinished' = Len(queue')
  BY <1>1, <1>16, CourseCommit DEF TakenOff
<1>17. CASE WriterCommits
  <2>1. PICK k \in 1..Len(queue) : /\ disk' = Course(SubSeq(queue, 1, k), disk)[k]
                                   /\ TakenOff(k)
    BY <1>17 DEF WriterCommits
  <2>2. disk' \in Database
    <3>1. disk' = Course(queue, disk)[k]
      BY <1>1, <2>1, CourseCommit
    <3>2. k \in 0..Len(queue)
      BY <1>1, LenProperties
    <3>. QED
      BY <1>1, <3>1, <3>2, CourseTypes
  <2>. QED
    BY <1>1, <1>16, <1>17, <2>1, <2>2 DEF WriterCommits, memory, handler, ghosts, bounds, IndType
<1>18. CASE WriterFails
  <2>1. PICK k \in 1..Len(queue) : TakenOff(k)
    BY <1>18 DEF WriterFails, Lost
  <2>2. /\ faults' \in 0..MaxFaults /\ owed' = Addrs /\ pool' = {} /\ edits' = edits
        /\ kills' = kills
        /\ UNCHANGED <<memory, handler, disk, backup>>
    BY <1>1, <1>18, StoreAssumption DEF WriterFails
  <2>. QED
    BY <1>1, <1>16, <2>1, <2>2 DEF memory, handler, IndType
<1>19. ASSUME Restarted, kills' \in 0..MaxKills
       PROVE  IndType'
  <2>1. mem' \in RatingRows /\ marks' \in [blacklist : SUBSET Addrs, favorites : SUBSET Addrs]
    BY <1>1, <1>19, LoadedFacts DEF Restarted, Load
  <2>2. owed' \subseteq Addrs /\ pool' \subseteq Addrs
    BY <1>1, <1>19 DEF Restarted, Unlike, In
  <2>3. queue' \in Seq(Statements) /\ unfinished' = Len(queue')
    BY <1>19 DEF Restarted
  <2>. QED
    BY <1>1, <1>2, <1>19, <2>1, <2>2, <2>3 DEF Restarted, IndType
<1>20. CASE Killed
  BY <1>1, <1>19, <1>20, StoreAssumption DEF Killed
<1>21. CASE Exits
  BY <1>1, <1>19, <1>21 DEF Exits
<1>22. CASE UNCHANGED vars
  BY <1>22 DEF vars, memory, handler, writer, ghosts, bounds, IndType
<1>. QED
  BY <1>3, <1>4, <1>5, <1>6, <1>7, <1>8, <1>9, <1>10, <1>11, <1>12, <1>13, <1>14, <1>15,
     <1>17, <1>18, <1>20, <1>21, <1>22 DEF Next, Handlers, Call, Writer

\* TypeOK: the variables have their types, and the writer's count of unfinished
\* statements is that of its queue, lost batches included.
THEOREM TypeCorrect == Spec => []TypeOK
<1>1. IndType => TypeOK
  <2>. SUFFICES ASSUME IndType PROVE TypeOK
    OBVIOUS
  <2>1. RatingRows = [Addrs -> Ratings \cup {None}]
    BY DEF RatingRows
  <2>2. todo \in Seq(Tables \cup {"state", "exit"})
    <3> DEFINE T == Tables \cup {"state", "exit"}
    <3>1. <<>> \in Seq(T) /\ \A x, y, z \in T : <<x>> \in Seq(T) /\ <<x, y>> \in Seq(T)
                                                /\ <<x, y, z>> \in Seq(T)
      OBVIOUS
    <3>2. {"working", "blacklist", "favorites", "state", "exit"} \subseteq T
      BY DEF Tables
    <3>. HIDE DEF T
    <3>3. Handling \subseteq Seq(T)
      BY <3>1, <3>2 DEF Handling
    <3>. QED
      BY <3>3 DEF IndType, T
  <2>3. queue \in Seq([op : Operations, table : Tables, rows : TableRows])
    <3>1. Statements \subseteq [op : Operations, table : Tables, rows : TableRows]
      BY DEF Statements
    <3>2. queue \in Seq(Statements)
      BY DEF IndType
    <3>. QED
      BY <3>1, <3>2, SeqMonotonic
  <2>4. disk \in [Tables -> TableRows] /\ backup \in [Tables -> TableRows]
    BY DEF IndType, Database
  <2>. QED
    BY <2>1, <2>2, <2>3, <2>4 DEF IndType, TypeOK
<1>. QED
  BY TypeInit, TypeStep, <1>1, PTL DEF Spec

(***************************************************************************)
(* The course of the queue, step by step.                                  *)
(***************************************************************************)

\* A batch is committed or lost: what follows a commit was ahead before it.
LEMMA AfterCommit ==
    ASSUME IndType, WriterCommits
    PROVE  \E k \in 1..Len(queue) :
             /\ Len(queue') = Len(queue) - k
             /\ \A j \in 1..Len(queue') : queue'[j] = queue[k + j]
             /\ \A j \in 0..Len(queue') : Ahead(j)' = Ahead(k + j)
             /\ Final' = Final
<1>1. queue \in Seq(Statements) /\ Len(queue) \in Nat
  BY LenProperties DEF IndType
<1>2. PICK k \in 1..Len(queue) : /\ disk' = Course(SubSeq(queue, 1, k), disk)[k]
                                 /\ queue' = SubSeq(queue, k + 1, Len(queue))
  BY DEF WriterCommits, TakenOff
<1>3. /\ Len(queue') = Len(queue) - k
      /\ \A j \in 1..Len(queue') : queue'[j] = queue[k + j]
      /\ \A j \in 0..Len(queue') : Course(queue', disk')[j] = Course(queue, disk)[k + j]
  BY <1>1, <1>2, CourseCommit
<1>4. \A j \in 0..Len(queue') : Ahead(j)' = Ahead(k + j)
  BY <1>3 DEF Ahead
<1>5. Final' = Final
  <2>1. Len(queue') \in 0..Len(queue') /\ k + Len(queue') = Len(queue)
    BY <1>1, <1>3
  <2>. QED
    BY <1>3, <2>1 DEF Final, Ahead
<1>. QED
  BY <1>3, <1>4, <1>5

\* What is submitted lengthens the course.
LEMMA AfterSubmit ==
    ASSUME IndType, NEW sts \in Seq(Statements), Submit(sts), disk' = disk
    PROVE  /\ Len(queue') = Len(queue) + Len(sts)
           /\ \A i \in 1..Len(queue) : queue'[i] = queue[i]
           /\ \A j \in 1..Len(sts) : queue'[Len(queue) + j] = sts[j]
           /\ \A i \in 0..Len(queue) : Ahead(i)' = Ahead(i)
           /\ \A j \in 1..Len(sts) : \A i \in Nat :
                 i = Len(queue) + j => Ahead(i)' = Executed(sts[j], Ahead(i - 1)')
<1>1. queue \in Seq(Statements) /\ queue' = queue \o sts
  BY DEF IndType, Submit
<1>2. Len(queue) \in Nat /\ Len(sts) \in Nat
  BY <1>1, LenProperties
<1>3. /\ Len(queue') = Len(queue) + Len(sts)
      /\ \A i \in 0..Len(queue) : Ahead(i)' = Ahead(i)
      /\ \A j \in 1..Len(sts) : \A i \in Nat :
            i = Len(queue) + j => Ahead(i)' = Executed(sts[j], Ahead(i - 1)')
  <2>1. /\ Len(queue \o sts) = Len(queue) + Len(sts)
        /\ \A i \in 0..Len(queue) : Course(queue \o sts, disk)[i] = Course(queue, disk)[i]
        /\ \A j \in 1..Len(sts) : Course(queue \o sts, disk)[Len(queue) + j]
              = Executed(sts[j], Course(queue \o sts, disk)[Len(queue) + j - 1])
    BY <1>1, CourseConcat
  <2>2. \A i \in 0..Len(queue) : Ahead(i)' = Ahead(i)
    BY <1>1, <2>1 DEF Ahead
  <2>3. ASSUME NEW j \in 1..Len(sts), NEW i \in Nat, i = Len(queue) + j
        PROVE  Ahead(i)' = Executed(sts[j], Ahead(i - 1)')
    BY <1>1, <2>1, <2>3 DEF Ahead
  <2>. QED
    BY <1>1, <2>1, <2>2, <2>3
<1>4. \A i \in 1..(Len(queue) + Len(sts)) :
        queue'[i] = IF i <= Len(queue) THEN queue[i] ELSE sts[i - Len(queue)]
  BY <1>1, ConcatProperties
<1>5. \A i \in 1..Len(queue) : queue'[i] = queue[i]
  BY <1>2, <1>4
<1>6. ASSUME NEW j \in 1..Len(sts)
      PROVE  queue'[Len(queue) + j] = sts[j]
  <2>1. /\ Len(queue) + j \in 1..(Len(queue) + Len(sts)) /\ ~(Len(queue) + j <= Len(queue))
        /\ (Len(queue) + j) - Len(queue) = j
    BY <1>2
  <2>. QED
    BY <1>4, <2>1
<1>. QED
  BY <1>3, <1>5, <1>6

\* The course of an empty queue is where it starts.
LEMMA AfterDrain ==
    ASSUME IndType, unfinished = 0
    PROVE  queue = <<>> /\ Len(queue) = 0 /\ Ahead(0) = disk /\ Final = disk
<1>1. Len(queue) = 0 /\ queue \in Seq(Statements)
  BY DEF IndType
<1>2. queue = <<>>
  BY <1>1, EmptyQueue
<1>3. Course(queue, disk)[0] = disk
  BY <1>1, CourseSteps
<1>. QED
  BY <1>1, <1>2, <1>3 DEF Final, Ahead

LEMMA AheadTypes ==
    ASSUME IndType
    PROVE  /\ Len(queue) \in Nat /\ Ahead(0) = disk
           /\ \A i \in 0..Len(queue) : Ahead(i) \in Database
           /\ Final \in Database
<1>1. queue \in Seq(Statements) /\ Len(queue) \in Nat
  BY LenProperties DEF IndType
<1>2. \A i \in 0..Len(queue) : Ahead(i) \in Database
  BY <1>1, CourseTypes DEF IndType, Ahead
<1>3. Ahead(0) = disk
  BY <1>1, CourseSteps DEF Ahead
<1>. QED
  BY <1>1, <1>2, <1>3 DEF Final

(***************************************************************************)
(* The steps, as far as the queue and the tables go.                       *)
(***************************************************************************)

\* Handlers that submit nothing.
Quiet ==
    \/ SaveAll \/ CreateBackup \/ ClearDead
    \/ \E a \in Addrs : Import(a)
    \/ \E a \in Addrs, on \in BOOLEAN : Blacklist(a, on) \/ Favorite(a, on)
\* The free loop marks ratings as changed, or hands the changed rows over.
Marks == todo = <<>> /\ queue' = queue /\ disk' = disk
Hands(m, D) == todo = <<>> /\ Submit(<<DirtyRows(m, D)>>) /\ disk' = disk

LEMMA FreeLoop ==
    ASSUME IndType, todo = <<>>
    PROVE  ~waiting
BY DEF IndType

LEMMA BeginFrees ==
    ASSUME NEW calls, Begin(calls)
    PROVE  todo = <<>> /\ todo' = calls /\ waiting' = waiting /\ disk' = disk /\ backup' = backup
BY DEF Begin

LEMMA QuietSteps ==
    ASSUME IndType, Quiet
    PROVE  /\ Marks /\ ~waiting' /\ owed' = owed /\ dirty' = dirty
           /\ \A i : Ahead(i)' = Ahead(i)
           /\ Final' = Final
<1>1. Marks /\ waiting' = waiting /\ owed' = owed /\ dirty' = dirty
  <2>1. CASE SaveAll
    BY <2>1, BeginFrees DEF SaveAll, Marks, memory, writer, ghosts
  <2>2. CASE CreateBackup
    BY <2>2 DEF CreateBackup, Marks, memory, handler, writer, ghosts
  <2>3. CASE ClearDead
    BY <2>3, BeginFrees DEF ClearDead, Marks, writer
  <2>4. CASE \E a \in Addrs : Import(a)
    BY <2>4, BeginFrees DEF Import, Marks, writer, ghosts
  <2>5. CASE \E a \in Addrs, on \in BOOLEAN : Blacklist(a, on) \/ Favorite(a, on)
    BY <2>5, BeginFrees DEF Blacklist, Favorite, Marks, writer, ghosts
  <2>. QED
    BY <2>1, <2>2, <2>3, <2>4, <2>5 DEF Quiet
<1>2. ~waiting
  BY <1>1, FreeLoop DEF Marks
<1>. QED
  BY <1>1, <1>2 DEF Marks, Ahead, Final

\* Checked, TrafficFails and SourceRefresh.
LEMMA HandsSteps ==
    ASSUME IndType, NEW a \in Addrs, Checked(a) \/ TrafficFails(a)
    PROVE  /\ Marks \/ Hands(mem', dirty \cup {a})
           /\ ~waiting' /\ owed' = owed /\ pool' = pool /\ marks' = marks
           /\ todo' \in {<<>>, <<"working">>} /\ todo = <<>>
<1>1. /\ UNCHANGED <<marks, ghosts>>
      /\ \E calls \in {<<>>, <<"working">>} : Begin(calls)
      /\ \/ dirty' = dirty \cup {a} /\ UNCHANGED writer
         \/ dirty' = {} /\ Submit(<<DirtyRows(mem', dirty \cup {a})>>)
  BY HandOver
<1>2. /\ todo = <<>> /\ todo' \in {<<>>, <<"working">>}
      /\ waiting' = waiting /\ disk' = disk
  BY <1>1, BeginFrees
<1>3. ~waiting
  BY <1>2, FreeLoop
<1>. QED
  BY <1>1, <1>2, <1>3 DEF Marks, Hands, ghosts, writer

\* Outside a save the queue holds changed ratings only.
LEMMA PureQueue ==
    ASSUME OnlyRatings, ~waiting
    PROVE  \A i \in 1..Len(queue) : Replaces(queue[i])
BY DEF OnlyRatings, Saving

LEMMA AfterHands ==
    ASSUME IndType, NEW m \in RatingRows, NEW D, Hands(m, D)
    PROVE  /\ Len(queue') = Len(queue) + 1
           /\ \A i \in 1..Len(queue) : queue'[i] = queue[i]
           /\ queue'[Len(queue) + 1] = DirtyRows(m, D)
           /\ \A i \in 0..Len(queue) : Ahead(i)' = Ahead(i)
           /\ Final' = Executed(DirtyRows(m, D), Final)
<1> DEFINE sts == <<DirtyRows(m, D)>>
<1>1. sts \in Seq(Statements) /\ Len(sts) = 1 /\ sts[1] = DirtyRows(m, D)
  BY DirtyRowsType
<1>2. Submit(sts) /\ disk' = disk
  BY DEF Hands
<1>. HIDE DEF sts
<1>3. /\ Len(queue') = Len(queue) + Len(sts)
      /\ \A i \in 1..Len(queue) : queue'[i] = queue[i]
      /\ \A j \in 1..Len(sts) : queue'[Len(queue) + j] = sts[j]
      /\ \A i \in 0..Len(queue) : Ahead(i)' = Ahead(i)
      /\ \A j \in 1..Len(sts) : \A i \in Nat :
            i = Len(queue) + j => Ahead(i)' = Executed(sts[j], Ahead(i - 1)')
  BY <1>1, <1>2, AfterSubmit
<1>4. Len(queue) \in Nat
  BY AheadTypes
<1>5. 1 \in 1..Len(sts)
  BY <1>1
<1>6. queue'[Len(queue) + 1] = DirtyRows(m, D)
  BY <1>1, <1>3, <1>5
<1>7. Final' = Executed(DirtyRows(m, D), Final)
  <2>1. \A i \in Nat : i = Len(queue) + 1 => Ahead(i)' = Executed(sts[1], Ahead(i - 1)')
    BY <1>3, <1>5
  <2>2. \A i \in Nat : i = Len(queue) + 1 => i - 1 = Len(queue) /\ i - 1 \in 0..Len(queue)
    BY <1>4
  <2>3. \A i \in Nat : i = Len(queue) + 1 => Ahead(i)' = Executed(DirtyRows(m, D), Final)
    BY <1>1, <1>3, <2>1, <2>2 DEF Final
  <2>4. Len(queue') = Len(queue) + 1 /\ Len(queue) + 1 \in Nat
    BY <1>1, <1>3, <1>4
  <2>. QED
    BY <2>3, <2>4 DEF Final, Ahead
<1>. QED
  BY <1>1, <1>3, <1>6, <1>7

LEMMA OnlyRatingsStep == IndType /\ OnlyRatings /\ [Next]_vars => OnlyRatings'
<1>. SUFFICES ASSUME IndType, OnlyRatings, [Next]_vars PROVE OnlyRatings'
  OBVIOUS
<1>1. Len(queue) \in Nat
  BY AheadTypes
<1>2. ASSUME queue' = queue, ~waiting
      PROVE  OnlyRatings'
  BY <1>2, PureQueue DEF OnlyRatings
<1>3. ASSUME NEW m \in RatingRows, NEW D, Hands(m, D)
      PROVE  OnlyRatings'
  <2>1. \A i \in 1..Len(queue) : Replaces(queue[i])
    BY <1>3, FreeLoop, PureQueue DEF Hands
  <2>2. Replaces(DirtyRows(m, D))
    BY DirtyRowsType
  <2>3. /\ Len(queue') = Len(queue) + 1
        /\ \A i \in 1..Len(queue) : queue'[i] = queue[i]
        /\ queue'[Len(queue) + 1] = DirtyRows(m, D)
    BY <1>3, AfterHands
  <2>4. \A i \in 1..Len(queue') : Replaces(queue'[i])
    BY <1>1, <2>1, <2>2, <2>3
  <2>. QED
    BY <2>4 DEF OnlyRatings
<1>4. ASSUME queue' = queue, UNCHANGED handler
      PROVE  OnlyRatings'
  BY <1>4 DEF OnlyRatings, Saving, handler
<1>5. CASE Quiet
  BY <1>2, <1>5, QuietSteps, FreeLoop DEF Marks
<1>6. ASSUME NEW a \in Addrs, Checked(a) \/ TrafficFails(a)
      PROVE  OnlyRatings'
  <2>1. Marks \/ Hands(mem', dirty \cup {a})
    BY <1>6, HandsSteps
  <2>2. mem' \in RatingRows
    BY <1>6, HandOver DEF Touched
  <2>. QED
    BY <1>2, <1>3, <2>1, <2>2, FreeLoop DEF Marks
<1>7. CASE SourceRefresh
  <2>1. \E A : Hands(mem', dirty \cup A)
    BY <1>7, BeginFrees DEF SourceRefresh, Hands
  <2>2. mem' \in RatingRows
    BY TypeStep DEF IndType
  <2>. QED
    BY <1>3, <2>1, <2>2
<1>8. CASE RestoreBackup
  BY <1>4, <1>8 DEF RestoreBackup, writer
<1>9. CASE SaveMarks
  BY <1>2, <1>9 DEF SaveMarks, Next1, writer
<1>10. CASE SaveState
  BY <1>10 DEF SaveState, Next1, OnlyRatings, Saving
<1>11. CASE SaveWorkingFile
  <2>1. \A i \in 1..Len(queue) : Replaces(queue[i])
    BY <1>11, PureQueue DEF SaveWorkingFile, Next1
  <2>2. /\ Len(queue') = Len(queue) + 2
        /\ \A i \in 1..Len(queue) : queue'[i] = queue[i]
        /\ \A j \in 1..2 : queue'[Len(queue) + j] = WorkingSave[j]
    BY <1>11, AfterSubmit, WorkingSaveType DEF SaveWorkingFile
  <2>3. WorkingSave[1].table = "working" /\ WorkingSave[2].table = "working"
    BY WorkingSaveType
  <2>4. Saving("working")'
    BY <1>11 DEF SaveWorkingFile, Next1, Saving
  <2>5. ASSUME NEW i \in 1..Len(queue')
        PROVE  Replaces(queue'[i]) \/ queue'[i].table = "working"
    <3>1. i \in 1..Len(queue) \/ i = Len(queue) + 1 \/ i = Len(queue) + 2
      BY <1>1, <2>2
    <3>2. 1 \in 1..2 /\ 2 \in 1..2
      OBVIOUS
    <3>. QED
      BY <2>1, <2>2, <2>3, <3>1, <3>2
  <2>. QED
    BY <2>4, <2>5 DEF OnlyRatings
<1>12. CASE Drained
  <2>1. Len(queue') = 0
    BY <1>12, AfterDrain DEF Drained, writer
  <2>. QED
    BY <2>1 DEF OnlyRatings
<1>13. ASSUME NEW k \in 1..Len(queue), TakenOff(k), UNCHANGED handler
       PROVE  OnlyRatings'
  <2>1. Len(queue') = Len(queue) - k /\ \A j \in 1..Len(queue') : queue'[j] = queue[k + j]
    BY <1>13, CourseCommit DEF TakenOff, IndType
  <2>2. \A j \in 1..Len(queue') : k + j \in 1..Len(queue)
    BY <1>1, <2>1
  <2>. QED
    BY <1>13, <2>1, <2>2 DEF OnlyRatings, Saving, handler
<1>14. CASE WriterCommits
  BY <1>13, <1>14 DEF WriterCommits
<1>15. CASE WriterFails
  BY <1>13, <1>15 DEF WriterFails, Lost
<1>16. CASE Restarted
  <2>1. Len(queue') = 0
    BY <1>16 DEF Restarted
  <2>. QED
    BY <2>1 DEF OnlyRatings
<1>17. CASE UNCHANGED vars
  BY <1>4, <1>17 DEF vars, writer
<1>. QED
  BY <1>5, <1>6, <1>7, <1>8, <1>9, <1>10, <1>11, <1>12, <1>14, <1>15, <1>16, <1>17
     DEF Next, Handlers, Call, Writer, Killed, Exits, Quiet

\* What a full save makes of the tables: the ratings are those in memory from
\* its second statement on, the banned are the old ones up to there.
LEMMA AfterSaveState ==
    ASSUME IndType, SaveState
    PROVE  /\ Len(queue') = Len(queue) + 6
           /\ \A i \in 0..Len(queue) : Ahead(i)' = Ahead(i)
           /\ \A i \in 0..Len(queue') : i \in 0..Len(queue) \/
                /\ Ahead(i)'["working"] = Final["working"]
                /\ \A a \in Addrs : \/ Ahead(i)'["ratings"][a] = mem[a]
                                    \/ Ahead(i)'["blacklist"][a] = Final["blacklist"][a]
           /\ \A a \in Addrs : /\ Final'["ratings"][a] = mem[a]
                               /\ Final'["blacklist"][a] = Rows(marks.blacklist)[a]
<1> DEFINE n == Len(queue)
           c == Course(queue', disk')
           s == FullSave
<1>1. /\ s \in Seq(Statements) /\ Len(s) = 6 /\ \A i \in 1..6 : s[i] \in Statements
      /\ s[1].table = "ratings" /\ s[1].op = "delete"
      /\ s[2].table = "ratings" /\ s[2].op = "insert" /\ s[2].rows = mem
      /\ s[3].table = "blacklist" /\ s[3].op = "delete"
      /\ s[4].table = "blacklist" /\ s[4].op = "insert" /\ s[4].rows = Rows(marks.blacklist)
      /\ s[5].table = "favorites" /\ s[6].table = "favorites"
  BY FullSaveType DEF IndType
<1>2. n \in Nat /\ Final \in Database
  BY AheadTypes
<1>3. Submit(s) /\ disk' = disk
  BY DEF SaveState
<1>. HIDE DEF s
<1>4. /\ Len(queue') = n + 6
      /\ \A i \in 0..n : Ahead(i)' = Ahead(i)
      /\ \A j \in 1..6 : \A i \in Nat :
            i = n + j => Ahead(i)' = Executed(s[j], Ahead(i - 1)')
  BY <1>1, <1>3, AfterSubmit
<1>5. \A i : Ahead(i)' = c[i]
  BY DEF Ahead
<1>. HIDE DEF c, n
<1>6. c[n] = Final
  <2>1. n \in 0..n
    BY <1>2
  <2>. QED
    BY <1>4, <1>5, <2>1 DEF Final, n
<1>7. ASSUME NEW j \in 1..6
      PROVE  c[n + j] = Executed(s[j], c[n + j - 1])
  BY <1>2, <1>4, <1>5
<1>8. /\ c[n + 1] = Executed(s[1], Final) /\ c[n + 2] = Executed(s[2], c[n + 1])
      /\ c[n + 3] = Executed(s[3], c[n + 2]) /\ c[n + 4] = Executed(s[4], c[n + 3])
      /\ c[n + 5] = Executed(s[5], c[n + 4]) /\ c[n + 6] = Executed(s[6], c[n + 5])
  <2>1. \A j \in 1..6 : c[n + j] = Executed(s[j], c[n + j - 1])
    BY <1>7
  <2>2. /\ n + 1 - 1 = n /\ n + 2 - 1 = n + 1 /\ n + 3 - 1 = n + 2
        /\ n + 4 - 1 = n + 3 /\ n + 5 - 1 = n + 4 /\ n + 6 - 1 = n + 5
    BY <1>2
  <2>. QED
    BY <1>6, <2>1, <2>2
<1>9. "ratings" \in Tables /\ "blacklist" \in Tables /\ "working" \in Tables
  BY DEF Tables
<1>10. /\ c[n + 1] \in Database
       /\ c[n + 1]["working"] = Final["working"]
       /\ \A a \in Addrs : c[n + 1]["blacklist"][a] = Final["blacklist"][a]
       /\ \A a \in Addrs : c[n + 1]["ratings"][a] = None
  <2>1. s[1] \in Statements
    BY <1>1
  <2>. QED
    BY <1>1, <1>2, <1>8, <1>9, <2>1, ExecutedEffect
<1>11. /\ c[n + 2] \in Database
       /\ c[n + 2]["working"] = Final["working"]
       /\ \A a \in Addrs : c[n + 2]["blacklist"][a] = Final["blacklist"][a]
       /\ \A a \in Addrs : c[n + 2]["ratings"][a] = mem[a]
  <2>1. s[2] \in Statements
    BY <1>1
  <2>2. /\ c[n + 2] \in Database
        /\ \A t \in Tables : t # "ratings" => c[n + 2][t] = c[n + 1][t]
        /\ \A a \in Addrs : c[n + 2]["ratings"][a]
                              = IF mem[a] # None THEN mem[a] ELSE c[n + 1]["ratings"][a]
    BY <1>1, <1>8, <1>10, <2>1, ExecutedEffect
  <2>. QED
    BY <1>9, <1>10, <2>2
<1>12. /\ c[n + 3] \in Database
       /\ c[n + 3]["working"] = Final["working"]
       /\ \A a \in Addrs : c[n + 3]["blacklist"][a] = None
       /\ \A a \in Addrs : c[n + 3]["ratings"][a] = mem[a]
  <2>1. s[3] \in Statements
    BY <1>1
  <2>. QED
    BY <1>1, <1>8, <1>9, <1>11, <2>1, ExecutedEffect
<1>13. /\ c[n + 4] \in Database
       /\ c[n + 4]["working"] = Final["working"]
       /\ \A a \in Addrs : c[n + 4]["blacklist"][a] = Rows(marks.blacklist)[a]
       /\ \A a \in Addrs : c[n + 4]["ratings"][a] = mem[a]
  <2>1. s[4] \in Statements
    BY <1>1
  <2>2. /\ c[n + 4] \in Database
        /\ \A t \in Tables : t # "blacklist" => c[n + 4][t] = c[n + 3][t]
        /\ \A a \in Addrs : c[n + 4]["blacklist"][a]
                              = IF s[4].rows[a] # None THEN s[4].rows[a]
                                ELSE c[n + 3]["blacklist"][a]
    BY <1>1, <1>8, <1>12, <2>1, ExecutedEffect
  <2>. QED
    BY <1>1, <1>9, <1>12, <2>2
<1>14. /\ c[n + 5] \in Database
       /\ c[n + 5]["working"] = Final["working"]
       /\ \A a \in Addrs : c[n + 5]["blacklist"][a] = Rows(marks.blacklist)[a]
       /\ \A a \in Addrs : c[n + 5]["ratings"][a] = mem[a]
  <2>1. s[5] \in Statements
    BY <1>1
  <2>. QED
    BY <1>1, <1>8, <1>9, <1>13, <2>1, ExecutedEffect
<1>15. /\ c[n + 6]["working"] = Final["working"]
       /\ \A a \in Addrs : c[n + 6]["blacklist"][a] = Rows(marks.blacklist)[a]
       /\ \A a \in Addrs : c[n + 6]["ratings"][a] = mem[a]
  <2>1. s[6] \in Statements
    BY <1>1
  <2>. QED
    BY <1>1, <1>8, <1>9, <1>14, <2>1, ExecutedEffect
<1>16. ASSUME NEW i \in 0..Len(queue'), i \notin 0..n
       PROVE  /\ c[i]["working"] = Final["working"]
              /\ \A a \in Addrs : \/ c[i]["ratings"][a] = mem[a]
                                  \/ c[i]["blacklist"][a] = Final["blacklist"][a]
  <2>1. i \in {n + 1, n + 2, n + 3, n + 4, n + 5, n + 6}
    BY <1>2, <1>4, <1>16
  <2>. QED
    BY <1>10, <1>11, <1>12, <1>13, <1>14, <1>15, <2>1
<1>17. Final' = c[n + 6]
  BY <1>4, <1>5 DEF Final, Ahead
<1>. QED
  BY <1>4, <1>5, <1>15, <1>16, <1>17 DEF n

\* A save of the working list leaves every other table alone.
LEMMA AfterSaveWorking ==
    ASSUME IndType, SaveWorkingFile
    PROVE  /\ Len(queue') = Len(queue) + 2
           /\ \A i \in 0..Len(queue) : Ahead(i)' = Ahead(i)
           /\ \A i \in 0..Len(queue') : i \in 0..Len(queue) \/
                \A t \in Tables \ {"working"} : Ahead(i)'[t] = Final[t]
           /\ \A t \in Tables \ {"working"} : Final'[t] = Final[t]
<1> DEFINE n == Len(queue)
           c == Course(queue', disk')
           s == WorkingSave
<1>1. /\ s \in Seq(Statements) /\ Len(s) = 2
      /\ s[1] \in Statements /\ s[1].table = "working"
      /\ s[2] \in Statements /\ s[2].table = "working"
  BY WorkingSaveType
<1>2. n \in Nat /\ Final \in Database
  BY AheadTypes
<1>3. Submit(s) /\ disk' = disk
  BY DEF SaveWorkingFile
<1>. HIDE DEF s
<1>4. /\ Len(queue') = n + 2
      /\ \A i \in 0..n : Ahead(i)' = Ahead(i)
      /\ \A j \in 1..2 : \A i \in Nat :
            i = n + j => Ahead(i)' = Executed(s[j], Ahead(i - 1)')
  BY <1>1, <1>3, AfterSubmit
<1>5. \A i : Ahead(i)' = c[i]
  BY DEF Ahead
<1>. HIDE DEF c, n
<1>6. c[n] = Final
  <2>1. n \in 0..n
    BY <1>2
  <2>. QED
    BY <1>4, <1>5, <2>1 DEF Final, n
<1>7. c[n + 1] = Executed(s[1], Final) /\ c[n + 2] = Executed(s[2], c[n + 1])
  <2>1. \A j \in 1..2 : c[n + j] = Executed(s[j], c[n + j - 1])
    BY <1>2, <1>4, <1>5
  <2>2. n + 1 - 1 = n /\ n + 2 - 1 = n + 1
    BY <1>2
  <2>. QED
    BY <1>6, <2>1, <2>2
<1>8. c[n + 1] \in Database /\ \A t \in Tables \ {"working"} : c[n + 1][t] = Final[t]
  BY <1>1, <1>2, <1>7, ExecutedEffect
<1>9. \A t \in Tables \ {"working"} : c[n + 2][t] = Final[t]
  BY <1>1, <1>7, <1>8, ExecutedEffect
<1>10. ASSUME NEW i \in 0..Len(queue'), i \notin 0..n
       PROVE  \A t \in Tables \ {"working"} : c[i][t] = Final[t]
  <2>1. i = n + 1 \/ i = n + 2
    BY <1>2, <1>4, <1>10
  <2>. QED
    BY <1>8, <1>9, <2>1
<1>11. Final' = c[n + 2]
  BY <1>4, <1>5 DEF Final, Ahead
<1>. QED
  BY <1>4, <1>5, <1>9, <1>10, <1>11 DEF n

\* A mark that the event loop commits itself shows in every table ahead, for
\* nothing in the queue is about the marks.
LEMMA AfterSaveMarks ==
    ASSUME IndType, OnlyRatings, NEW t \in {"blacklist", "favorites"},
           Next1(t), disk' = [disk EXCEPT ![t] = Rows(marks[t])], queue' = queue
    PROVE  \A i \in 0..Len(queue) :
             /\ Ahead(i)'[t] = Rows(marks[t])
             /\ \A u \in Tables \ {t} : Ahead(i)'[u] = Ahead(i)[u]
<1> DEFINE c == Course(queue, disk)
           e == Course(queue, disk')
<1>1. queue \in Seq(Statements) /\ Len(queue) \in Nat /\ disk \in Database
  BY LenProperties DEF IndType
<1>2. \A i \in 1..Len(queue) : Replaces(queue[i])
  BY PureQueue DEF Next1
<1>3. t \in Tables /\ t # "ratings" /\ Rows(marks[t]) \in TableRows
  <2>1. marks[t] \in SUBSET Addrs
    BY DEF IndType
  <2>. QED
    BY <2>1, RowTypes DEF Tables
<1>4. /\ disk' \in Database /\ disk'[t] = Rows(marks[t])
      /\ \A u \in Tables \ {t} : disk'[u] = disk[u]
  BY <1>1, <1>3 DEF Database, Tables
<1>5. /\ \A i \in 0..Len(queue) : c[i] \in Database /\ e[i] \in Database
      /\ \A i \in 0..Len(queue) : \A u \in Tables \ {"ratings"} :
            c[i][u] = disk[u] /\ e[i][u] = disk'[u]
  <2>1. \A i \in 0..Len(queue) : c[i] \in Database /\ e[i] \in Database
    BY <1>1, <1>4, CourseTypes
  <2>2. \A i \in 0..Len(queue) : \A u \in Tables \ {"ratings"} : c[i][u] = disk[u]
    BY <1>1, <1>2, CourseOfRatings
  <2>3. \A i \in 0..Len(queue) : \A u \in Tables \ {"ratings"} : e[i][u] = disk'[u]
    BY <1>1, <1>2, <1>4, CourseOfRatings
  <2>. QED
    BY <2>1, <2>2, <2>3
<1>6. /\ c[0] = disk /\ e[0] = disk'
      /\ \A i \in 1..Len(queue) : c[i] = Executed(queue[i], c[i - 1])
                                  /\ e[i] = Executed(queue[i], e[i - 1])
  BY <1>1, CourseSteps
<1>. HIDE DEF c, e
<1>7. \A i \in 0..Len(queue) : \A a \in Addrs : e[i]["ratings"][a] = c[i]["ratings"][a]
  <2> DEFINE K == {i \in 0..Len(queue) : \A a \in Addrs : e[i]["ratings"][a] = c[i]["ratings"][a]}
  <2>1. 0 \in K
    <3>1. "ratings" \in Tables \ {t}
      BY <1>3 DEF Tables
    <3>2. e[0]["ratings"] = c[0]["ratings"]
      BY <1>4, <1>6, <3>1
    <3>. QED
      BY <1>1, <3>2
  <2>2. ASSUME NEW i \in 1..Len(queue), i - 1 \in K
        PROVE  i \in K
    <3>1. queue[i] \in Statements /\ queue[i].table = "ratings" /\ queue[i].op # "delete"
      BY <1>1, <1>2, ElementOfSeq DEF Replaces
    <3>2. i - 1 \in 0..Len(queue) /\ i \in 0..Len(queue)
      BY <1>1
    <3>3. \A a \in Addrs :
            /\ e[i]["ratings"][a] = IF queue[i].rows[a] # None THEN queue[i].rows[a]
                                    ELSE e[i - 1]["ratings"][a]
            /\ c[i]["ratings"][a] = IF queue[i].rows[a] # None THEN queue[i].rows[a]
                                    ELSE c[i - 1]["ratings"][a]
      BY <1>5, <1>6, <3>1, <3>2, ExecutedEffect
    <3>4. \A a \in Addrs : e[i - 1]["ratings"][a] = c[i - 1]["ratings"][a]
      BY <2>2
    <3>. QED
      BY <3>2, <3>3, <3>4
  <2>3. \A i \in 0..Len(queue) : i \in K
    <3>. HIDE DEF K
    <3>. QED
      BY <1>1, <2>1, <2>2, UpTo
  <2>. QED
    BY <2>3
<1>8. \A i \in 0..Len(queue) : e[i]["ratings"] = c[i]["ratings"]
  <2>. SUFFICES ASSUME NEW i \in 0..Len(queue) PROVE e[i]["ratings"] = c[i]["ratings"]
    OBVIOUS
  <2>1. e[i]["ratings"] \in RatingRows /\ c[i]["ratings"] \in RatingRows
    BY <1>5 DEF Database
  <2>. QED
    BY <1>7, <2>1 DEF RatingRows
<1>9. \A i : Ahead(i) = c[i] /\ Ahead(i)' = e[i]
  BY DEF Ahead, c, e
<1>. QED
  BY <1>3, <1>4, <1>5, <1>8, <1>9

(***************************************************************************)
(* Reach: what the queue's end owes to memory.                             *)
(***************************************************************************)

\* Whoever hands the changed rows over has nothing left to mark.
LEMMA HandsReach ==
    ASSUME IndType, Reach, NEW D, mem' \in RatingRows, Hands(mem', dirty \cup D),
           owed' = owed,
           \A x \in Addrs : IF x \in D THEN mem'[x] # None ELSE mem'[x] = mem[x]
    PROVE  \A x \in Addrs \ owed : Final'["ratings"][x] = mem'[x]
<1>. SUFFICES ASSUME NEW x \in Addrs \ owed PROVE Final'["ratings"][x] = mem'[x]
  OBVIOUS
<1> DEFINE st == DirtyRows(mem', dirty \cup D)
<1>1. /\ st \in Statements /\ st.table = "ratings" /\ st.op # "delete"
      /\ st.rows[x] = IF x \in dirty \cup D THEN mem'[x] ELSE None
  BY DirtyRowsType DEF Replaces
<1>2. Final \in Database
  BY AheadTypes
<1>3. Final' = Executed(st, Final)
  BY AfterHands
<1>. HIDE DEF st
<1>4. Final'["ratings"][x] = IF st.rows[x] # None THEN st.rows[x] ELSE Final["ratings"][x]
  BY <1>1, <1>2, <1>3, ExecutedEffect
<1>5. Final["ratings"][x] = mem[x] \/ (x \in dirty /\ mem[x] # None)
  BY DEF Reach, Reaches, SaveAhead, Hands
<1>. QED
  BY <1>1, <1>4, <1>5

LEMMA ReachStep ==
    ASSUME IndType, OnlyRatings, Reach, [Next]_vars
    PROVE  Reach'
<1>1. IndType'
  BY TypeStep
<1>2. ASSUME SaveAhead', ~waiting'
      PROVE  Reach'
  BY <1>2 DEF Reach, Saving
<1>3. ASSUME UNCHANGED <<mem, dirty, handler, owed>>, Final' = Final
      PROVE  Reach'
  BY <1>3 DEF Reach, Reaches, Saving, SaveAhead, handler
<1>4. CASE CreateBackup
  <2>1. Final' = Final
    BY <1>4, QuietSteps DEF Quiet
  <2>. QED
    BY <1>3, <1>4, <2>1 DEF CreateBackup, memory, ghosts
<1>5. \A x, y : Head(<<x, y>>) = x
  OBVIOUS
<1>6. \A x, y, z : Head(<<x, y, z>>) = x /\ Head(<<x>>) = x
  OBVIOUS
<1>7. CASE Quiet /\ ~CreateBackup
  <2>1. ~waiting'
    BY <1>7, QuietSteps
  <2>2. todo' \in {<<"state">>, <<"state", "working">>, <<"state", "working", "exit">>,
                   <<"blacklist", "state", "working">>, <<"favorites", "state">>}
    BY <1>7 DEF Quiet, SaveAll, ClearDead, Import, Blacklist, Favorite, Begin
  <2>3. todo' # <<>> /\ Head(todo') \in {"state", "blacklist", "favorites"}
    BY <1>5, <1>6, <2>2
  <2>. QED
    BY <1>2, <2>1, <2>3 DEF SaveAhead
<1>8. ASSUME NEW a \in Addrs, Checked(a) \/ TrafficFails(a)
      PROVE  Reach'
  <2>1. /\ Touched(a) /\ \/ dirty' = dirty \cup {a} /\ UNCHANGED writer
                         \/ dirty' = {} /\ Submit(<<DirtyRows(mem', dirty \cup {a})>>)
    BY <1>8, HandOver
  <2>2. ~waiting' /\ owed' = owed /\ todo = <<>> /\ disk' = disk
    BY <1>8, HandsSteps DEF Marks, Hands
  <2>3. \A x \in Addrs \ owed : Final["ratings"][x] = mem[x] \/ (x \in dirty /\ mem[x] # None)
    BY <2>2 DEF Reach, Reaches, SaveAhead
  <2>4. CASE dirty' = dirty \cup {a} /\ UNCHANGED writer
    <3>1. Final' = Final
      BY <2>2, <2>4 DEF writer, Final, Ahead
    <3>2. \A x \in Addrs \ owed :
            Final'["ratings"][x] = mem'[x] \/ (x \in dirty' /\ mem'[x] # None)
      BY <2>1, <2>3, <2>4, <3>1 DEF Touched
    <3>. QED
      BY <2>2, <3>2 DEF Reach, Reaches, Saving
  <2>5. CASE Submit(<<DirtyRows(mem', dirty \cup {a})>>)
    <3>1. Hands(mem', dirty \cup {a})
      BY <2>2, <2>5 DEF Hands
    <3>2. \A x \in Addrs : IF x \in {a} THEN mem'[x] # None ELSE mem'[x] = mem[x]
      BY <2>1 DEF Touched
    <3>3. mem' \in RatingRows
      BY <2>1 DEF Touched
    <3>4. \A x \in Addrs \ owed : Final'["ratings"][x] = mem'[x]
      BY <2>2, <3>1, <3>2, <3>3, HandsReach
    <3>. QED
      BY <2>2, <3>4 DEF Reach, Reaches, Saving
  <2>. QED
    BY <2>1, <2>4, <2>5
<1>9. CASE SourceRefresh
  <2>1. PICK A \in SUBSET {a \in Addrs : mem[a] = None} \ {{}} :
          /\ mem' = [a \in Addrs |-> IF a \in A THEN Rating("idle") ELSE mem[a]]
          /\ Submit(<<DirtyRows(mem', dirty \cup A)>>)
    BY <1>9 DEF SourceRefresh
  <2>2. Begin(<<>>) /\ owed' = owed
    BY <1>9 DEF SourceRefresh, ghosts
  <2>3. Hands(mem', dirty \cup A) /\ waiting' = waiting /\ todo = <<>>
    BY <2>1, <2>2, BeginFrees DEF Hands
  <2>4. Rating("idle") # None
    <3>1. Rating("idle") \in Ratings
      BY DEF Rating, Ratings
    <3>. QED
      BY <3>1, RowsAssumption
  <2>5. \A x \in Addrs : IF x \in A THEN mem'[x] # None ELSE mem'[x] = mem[x]
    BY <2>1, <2>4
  <2>6. mem' \in RatingRows
    BY <1>1 DEF IndType
  <2>7. \A x \in Addrs \ owed : Final'["ratings"][x] = mem'[x]
    BY <2>2, <2>3, <2>5, <2>6, HandsReach
  <2>8. ~waiting'
    BY <2>3, FreeLoop
  <2>. QED
    BY <2>2, <2>7, <2>8 DEF Reach, Reaches, Saving
<1>10. CASE RestoreBackup
  <2>1. /\ todo = <<>> /\ UNCHANGED <<handler, writer>>
        /\ mem' = Loaded(disk')
        /\ owed' = owed \cup Unlike(disk') \cup UNION {In(queue[i].rows) : i \in 1..Len(queue)}
    BY <1>10 DEF RestoreBackup, Load
  <2>2. ~waiting /\ ~waiting' /\ queue' = queue
    BY <2>1, FreeLoop DEF handler, writer
  <2>3. disk' \in Database /\ queue \in Seq(Statements) /\ Len(queue) \in Nat
    BY <1>1, AheadTypes DEF IndType
  <2>4. \A i \in 1..Len(queue) : Replaces(queue[i])
    BY <2>2, PureQueue
  <2>5. ASSUME NEW x \in Addrs \ owed'
        PROVE  Final'["ratings"][x] = mem'[x]
    <3>1. mem'[x] = disk'["ratings"][x]
      BY <2>1, <2>5 DEF Unlike
    <3>2. \A j \in 1..Len(queue) : x \notin In(queue[j].rows)
      BY <2>1, <2>5
    <3>3. Len(queue) \in 0..Len(queue)
      BY <2>3
    <3>4. Course(queue, disk')[Len(queue)]["ratings"][x] = disk'["ratings"][x]
      BY <2>3, <2>4, <3>2, <3>3, CourseOfRatings
    <3>. QED
      BY <2>2, <3>1, <3>4 DEF Final, Ahead
  <2>. QED
    BY <2>2, <2>5 DEF Reach, Reaches, Saving
<1>11. CASE SaveMarks
  <2>1. todo # <<>> /\ Head(todo) \in {"blacklist", "favorites"} /\ todo' = Tail(todo)
        /\ ~waiting'
    BY <1>11 DEF SaveMarks, Next1
  <2>2. todo' \in {<<"state", "working">>, <<"state">>}
    BY <2>1, Calls DEF IndType
  <2>3. todo' # <<>> /\ Head(todo') = "state"
    BY <1>5, <1>6, <2>2
  <2>. QED
    BY <1>2, <2>1, <2>3 DEF SaveAhead
<1>12. CASE SaveState
  <2>1. \A a \in Addrs : Final'["ratings"][a] = mem'[a]
    BY <1>12, AfterSaveState DEF SaveState, memory
  <2>2. \A a \in Addrs : Reaches(a)'
    BY <2>1 DEF Reaches
  <2>. QED
    BY <2>2 DEF Reach
<1>13. CASE SaveWorkingFile
  <2>1. "ratings" \in Tables \ {"working"}
    BY DEF Tables
  <2>2. Final'["ratings"] = Final["ratings"]
    BY <1>13, <2>1, AfterSaveWorking
  <2>3. todo # <<>> /\ Head(todo) = "working" /\ todo' = todo /\ UNCHANGED <<mem, dirty, owed>>
    BY <1>13 DEF SaveWorkingFile, Next1, memory, ghosts
  <2>. QED
    BY <2>2, <2>3 DEF Reach, Reaches, SaveAhead, Saving
<1>14. CASE Drained
  <2>1. Final = disk /\ queue = <<>>
    BY <1>14, AfterDrain DEF Drained
  <2>2. queue' = queue /\ disk' = disk /\ mem' = mem
    BY <1>14 DEF Drained, writer
  <2>3. Final' = disk
    BY <2>1, <2>2 DEF Final, Ahead
  <2>4. waiting /\ ~waiting' /\ todo # <<>>
    BY <1>14 DEF Drained, IndType
  <2>5. CASE Head(todo) = "state"
    <3>1. ASSUME NEW a \in Addrs \ owed'
          PROVE  Reaches(a)'
      <4>1. a \notin owed \/ Written(a) = Kept(a)
        BY <1>14, <2>5, <3>1 DEF Drained
      <4>2. CASE a \notin owed
        BY <2>1, <2>2, <2>3, <2>4, <2>5, <4>2 DEF Reach, Reaches, Saving
      <4>3. CASE Written(a) = Kept(a)
        BY <2>2, <2>3, <4>3 DEF Written, Kept, Reaches
      <4>. QED
        BY <4>1, <4>2, <4>3
    <3>. QED
      BY <2>4, <3>1 DEF Reach, Saving
  <2>6. CASE Head(todo) = "working"
    <3>1. dirty' = dirty /\ owed' = owed
      BY <1>14, <2>6 DEF Drained, IndType
    <3>2. ~SaveAhead
      BY <2>6 DEF SaveAhead
    <3>. QED
      BY <2>1, <2>2, <2>3, <2>4, <3>1, <3>2 DEF Reach, Reaches, Saving
  <2>. QED
    BY <2>4, <2>5, <2>6 DEF IndType
<1>15. CASE WriterCommits
  <2>1. Final' = Final
    BY <1>15, AfterCommit
  <2>. QED
    BY <1>3, <1>15, <2>1 DEF WriterCommits, memory, ghosts
<1>16. CASE WriterFails
  BY <1>16 DEF WriterFails, Reach
<1>17. CASE Restarted
  <2>1. /\ ~waiting' /\ disk' = disk /\ mem' = Loaded(disk) /\ owed' = Unlike(disk)
        /\ unfinished' = 0
    BY <1>17 DEF Restarted, Load
  <2>2. Final' = disk'
    <3>1. queue' = <<>> /\ Len(queue') = 0
      BY <1>17 DEF Restarted
    <3>2. Course(queue', disk')[0] = disk'
      BY <3>1, CourseSteps
    <3>. QED
      BY <3>1, <3>2 DEF Final, Ahead
  <2>3. \A a \in Addrs \ owed' : mem'[a] = disk["ratings"][a]
    BY <2>1 DEF Unlike
  <2>4. \A a \in Addrs \ owed' : Reaches(a)'
    BY <2>1, <2>2, <2>3 DEF Reaches
  <2>. QED
    BY <2>1, <2>4 DEF Reach, Saving
<1>18. CASE UNCHANGED vars
  <2>1. Final' = Final
    BY <1>18 DEF vars, writer, Final, Ahead
  <2>. QED
    BY <1>3, <1>18, <2>1 DEF vars, memory, ghosts
<1>. QED
  BY <1>4, <1>7, <1>8, <1>9, <1>10, <1>11, <1>12, <1>13, <1>14, <1>15, <1>16, <1>17, <1>18
     DEF Next, Handlers, Call, Writer, Killed, Exits, Quiet

(***************************************************************************)
(* Keeps: the pool, at every commit ahead.                                 *)
(***************************************************************************)

\* Handlers that submit nothing keep every rating, but for ClearDead, and ban
\* nobody, but for Blacklist.
LEMMA QuietMemory ==
    ASSUME IndType, Quiet
    PROVE  /\ \A x \in pool' : x \in pool /\ (mem[x] # None => mem'[x] # None)
           /\ \/ \E a \in Addrs, on \in BOOLEAN : Blacklist(a, on)
              \/ /\ marks'.blacklist = marks.blacklist
                 /\ \A x \in Addrs : mem'[x] # None /\ mem'[x].black => mem[x] # None /\ mem[x].black
<1>1. \A x \in Addrs : mem[x] \in Ratings \cup {None}
  BY DEF IndType, RatingRows
<1>2. pool \subseteq Addrs /\ marks \in [blacklist : SUBSET Addrs, favorites : SUBSET Addrs]
  BY DEF IndType
<1>3. CASE SaveAll \/ CreateBackup
  BY <1>3 DEF SaveAll, CreateBackup, memory, ghosts
<1>4. CASE ClearDead
  <2>1. /\ mem' = [a \in Addrs |-> IF Dead(mem[a]) THEN None ELSE mem[a]]
        /\ pool' = {a \in pool : ~Dead(mem[a])} /\ marks' = marks
    BY <1>4 DEF ClearDead
  <2>. QED
    BY <1>2, <2>1
<1>5. ASSUME NEW a \in Addrs, Import(a)
      PROVE  /\ \A x \in pool' : x \in pool /\ (mem[x] # None => mem'[x] # None)
             /\ marks'.blacklist = marks.blacklist
             /\ \A x \in Addrs : mem'[x] # None /\ mem'[x].black => mem[x] # None /\ mem[x].black
  <2>1. /\ mem[a] = None /\ mem' = [mem EXCEPT ![a] = Rating("ok")]
        /\ marks' = marks /\ pool' = pool
    BY <1>5 DEF Import, ghosts
  <2>2. \A x \in Addrs : mem'[x] = IF x = a THEN Rating("ok") ELSE mem[x]
    BY <2>1 DEF IndType, RatingRows
  <2>3. ~Rating("ok").black
    BY DEF Rating
  <2>. QED
    BY <1>2, <2>1, <2>2, <2>3
<1>6. ASSUME NEW a \in Addrs, NEW on \in BOOLEAN, Blacklist(a, on)
      PROVE  \A x \in pool' : x \in pool /\ (mem[x] # None => mem'[x] # None)
  <2>1. /\ mem' = IF mem[a] = None THEN mem ELSE [mem EXCEPT ![a].black = on]
        /\ pool' = pool
    BY <1>6 DEF Blacklist, ghosts
  <2>2. \A x \in Addrs : mem[x] # None => mem'[x] # None
    <3> DEFINE r == [mem[a] EXCEPT !.black = on]
    <3>1. mem[a] # None => r \in Ratings
      BY <1>1 DEF Ratings
    <3>2. mem[a] # None => mem' = [mem EXCEPT ![a] = r]
      BY <2>1
    <3>3. mem \in RatingRows
      BY DEF IndType
    <3>. HIDE DEF r
    <3>4. mem[a] # None => \A x \in Addrs : mem'[x] = IF x = a THEN r ELSE mem[x]
      BY <3>2, <3>3 DEF RatingRows
    <3>. QED
      BY <2>1, <3>1, <3>4, RowsAssumption
  <2>. QED
    BY <1>2, <2>1, <2>2
<1>7. ASSUME NEW a \in Addrs, NEW on \in BOOLEAN, Favorite(a, on)
      PROVE  /\ \A x \in pool' : x \in pool /\ (mem[x] # None => mem'[x] # None)
             /\ marks'.blacklist = marks.blacklist
             /\ \A x \in Addrs : mem'[x] # None /\ mem'[x].black => mem[x] # None /\ mem[x].black
  <2>1. /\ mem' = IF mem[a] = None THEN mem ELSE [mem EXCEPT ![a].fav = on]
        /\ pool' = pool
        /\ marks' = [marks EXCEPT !.favorites = IF on THEN @ \cup {a} ELSE @ \ {a}]
    BY <1>7 DEF Favorite, ghosts
  <2> DEFINE r == [mem[a] EXCEPT !.fav = on]
  <2>2. mem[a] # None => r \in Ratings /\ r.black = mem[a].black
    BY <1>1 DEF Ratings
  <2>3. mem[a] # None => mem' = [mem EXCEPT ![a] = r]
    BY <2>1
  <2>4. mem \in RatingRows
    BY DEF IndType
  <2>. HIDE DEF r
  <2>5. mem[a] # None => \A x \in Addrs : mem'[x] = IF x = a THEN r ELSE mem[x]
    BY <2>3, <2>4 DEF RatingRows
  <2>6. \A x \in Addrs : mem[x] # None => mem'[x] # None
    BY <2>1, <2>2, <2>5, RowsAssumption
  <2>7. \A x \in Addrs : mem'[x] # None /\ mem'[x].black => mem[x] # None /\ mem[x].black
    <3>1. CASE mem[a] = None
      BY <2>1, <3>1
    <3>2. CASE mem[a] # None
      BY <2>2, <2>5, <3>2
    <3>. QED
      BY <3>1, <3>2
  <2>8. marks'.blacklist = marks.blacklist
    BY <1>2, <2>1
  <2>. QED
    BY <1>2, <2>1, <2>6, <2>7, <2>8
<1>. QED
  BY <1>3, <1>4, <1>5, <1>6, <1>7 DEF Quiet

\* A process starts with an empty queue.
LEMMA AfterRestart ==
    ASSUME Restarted
    PROVE  Len(queue') = 0 /\ Ahead(0)' = disk /\ Final' = disk /\ ~waiting' /\ todo' = <<>>
<1>1. queue' = <<>> /\ Len(queue') = 0 /\ disk' = disk /\ ~waiting' /\ todo' = <<>>
  BY DEF Restarted
<1>2. Course(queue', disk')[0] = disk'
  BY <1>1, CourseSteps
<1>. QED
  BY <1>1, <1>2 DEF Final, Ahead

LEMMA KeepsStep ==
    ASSUME IndType, OnlyRatings, Keeps, [Next]_vars
    PROVE  Keeps'
<1>1. Len(queue) \in Nat /\ Final \in Database /\ Ahead(0) = disk
  BY AheadTypes
<1>2. /\ "ratings" \in Tables \ {"working"} /\ "working" \in Tables \ {"ratings"}
      /\ "ratings" \in Tables /\ "working" \in Tables
  BY DEF Tables
<1>3. IndType'
  BY TypeStep
<1>4. ASSUME queue' = queue, disk' = disk, Saving("working") => Saving("working")',
             \A x \in pool' : x \in pool /\ (mem[x] # None => mem'[x] # None)
      PROVE  Keeps'
  BY <1>4 DEF Keeps, Ahead, Final
<1>5. CASE Quiet
  <2>1. ~waiting
    BY <1>5, QuietSteps, FreeLoop DEF Marks
  <2>. QED
    BY <1>4, <1>5, <2>1, QuietSteps, QuietMemory DEF Marks, Saving
<1>6. ASSUME NEW m \in RatingRows, NEW D, Hands(m, D), pool' = pool,
             \A x \in Addrs : mem[x] # None => mem'[x] # None
      PROVE  Keeps'
  <2>1. /\ Len(queue') = Len(queue) + 1
        /\ \A i \in 0..Len(queue) : Ahead(i)' = Ahead(i)
        /\ Final' = Executed(DirtyRows(m, D), Final)
    BY <1>6, AfterHands
  <2>2. /\ DirtyRows(m, D) \in Statements /\ DirtyRows(m, D).table = "ratings"
        /\ DirtyRows(m, D).op # "delete"
    BY DirtyRowsType DEF Replaces
  <2>3. /\ Final'["working"] = Final["working"]
        /\ \A a \in Addrs : Final["ratings"][a] # None => Final'["ratings"][a] # None
    BY <1>1, <1>2, <2>1, <2>2, ExecutedEffect
  <2>4. ~Saving("working") /\ pool \subseteq Addrs
    BY <1>6, FreeLoop DEF Hands, Saving, IndType
  <2>5. ASSUME NEW a \in pool', NEW i \in 0..Len(queue')
        PROVE  Ahead(i)'["ratings"][a] # None \/ Ahead(i)'["working"][a] # None
    <3>1. i \in 0..Len(queue) \/ i = Len(queue')
      BY <1>1, <2>1
    <3>2. CASE i \in 0..Len(queue)
      BY <1>6, <2>1, <2>5, <3>2 DEF Keeps
    <3>3. CASE i = Len(queue')
      <4>1. Ahead(i)' = Final'
        BY <3>3 DEF Final, Ahead
      <4>. QED
        BY <1>6, <2>3, <2>4, <2>5, <4>1 DEF Keeps
    <3>. QED
      BY <3>1, <3>2, <3>3
  <2>. QED
    BY <1>6, <2>3, <2>4, <2>5 DEF Keeps
<1>7. ASSUME NEW a \in Addrs, Checked(a) \/ TrafficFails(a)
      PROVE  Keeps'
  <2>1. \A x \in Addrs : mem[x] # None => mem'[x] # None
    BY <1>7, HandOver DEF Touched
  <2>2. mem' \in RatingRows /\ pool \subseteq Addrs
    BY <1>3 DEF IndType
  <2>3. /\ Marks \/ Hands(mem', dirty \cup {a})
        /\ pool' = pool
    BY <1>7, HandsSteps
  <2>4. ASSUME Marks
        PROVE  Keeps'
    <3>1. ~waiting
      BY <2>4, FreeLoop DEF Marks
    <3>. QED
      BY <1>4, <2>1, <2>2, <2>3, <2>4, <3>1 DEF Marks, Saving
  <2>. QED
    BY <1>6, <2>1, <2>2, <2>3, <2>4
<1>8. CASE SourceRefresh
  <2>1. PICK A \in SUBSET {a \in Addrs : mem[a] = None} \ {{}} :
          /\ mem' = [a \in Addrs |-> IF a \in A THEN Rating("idle") ELSE mem[a]]
          /\ Submit(<<DirtyRows(mem', dirty \cup A)>>)
    BY <1>8 DEF SourceRefresh
  <2>2. Hands(mem', dirty \cup A) /\ pool' = pool
    BY <1>8, <2>1, BeginFrees DEF SourceRefresh, Hands, ghosts
  <2>3. \A x \in Addrs : mem[x] # None => mem'[x] # None
    BY <2>1
  <2>4. mem' \in RatingRows
    BY <1>3 DEF IndType
  <2>. QED
    BY <1>6, <2>2, <2>3, <2>4
<1>9. CASE RestoreBackup
  <2>1. /\ todo = <<>> /\ UNCHANGED <<handler, writer>> /\ mem' = Loaded(disk')
        /\ pool' = In(disk'["ratings"]) \cap In(disk'["working"])
    BY <1>9 DEF RestoreBackup, Load
  <2>2. queue' = queue /\ disk' \in Database /\ queue \in Seq(Statements)
    BY <1>3, <2>1 DEF writer, IndType
  <2>3. \A i \in 1..Len(queue) : Replaces(queue[i])
    BY <2>1, FreeLoop, PureQueue
  <2>4. ASSUME NEW a \in pool'
        PROVE  a \in Addrs /\ disk'["ratings"][a] # None /\ disk'["working"][a] # None
    BY <2>1, <2>4 DEF In
  <2>5. ASSUME NEW a \in pool', NEW i \in 0..Len(queue)
        PROVE  /\ Course(queue, disk')[i]["ratings"][a] # None
               /\ Course(queue, disk')[i]["working"][a] # None
    <3>1. Course(queue, disk')[i]["working"] = disk'["working"]
      BY <1>2, <2>2, <2>3, CourseOfRatings
    <3>2. Course(queue, disk')[i]["ratings"][a] # None
      BY <2>2, <2>3, <2>4, CourseOfRatings
    <3>. QED
      BY <2>4, <3>1, <3>2
  <2>6. \A a \in pool' : mem'[a] # None
    BY <2>1, <2>2, <2>4, LoadedFacts
  <2>7. Len(queue) \in 0..Len(queue)
    BY <1>1
  <2>. QED
    BY <2>2, <2>5, <2>6, <2>7 DEF Keeps, Final, Ahead
<1>10. CASE SaveMarks
  <2>1. PICK t \in {"blacklist", "favorites"} :
          Next1(t) /\ disk' = [disk EXCEPT ![t] = Rows(marks[t])]
    BY <1>10 DEF SaveMarks
  <2>2. queue' = queue /\ mem' = mem /\ pool' = pool /\ ~waiting
    BY <1>10, <2>1 DEF SaveMarks, writer, memory, ghosts, Next1
  <2>3. "ratings" \in Tables \ {t} /\ "working" \in Tables \ {t}
    BY DEF Tables
  <2>4. \A i \in 0..Len(queue) : /\ Ahead(i)'["ratings"] = Ahead(i)["ratings"]
                                 /\ Ahead(i)'["working"] = Ahead(i)["working"]
    BY <2>1, <2>2, <2>3, AfterSaveMarks
  <2>5. /\ Final'["ratings"] = Final["ratings"] /\ Final'["working"] = Final["working"]
    <3>1. Len(queue) \in 0..Len(queue)
      BY <1>1
    <3>. QED
      BY <2>2, <2>4, <3>1 DEF Final, Ahead
  <2>. QED
    BY <2>2, <2>4, <2>5 DEF Keeps, Saving
<1>11. CASE SaveState
  <2>1. /\ Len(queue') = Len(queue) + 6
        /\ \A i \in 0..Len(queue) : Ahead(i)' = Ahead(i)
        /\ \A i \in 0..Len(queue') : i \in 0..Len(queue) \/ Ahead(i)'["working"] = Final["working"]
        /\ \A a \in Addrs : Final'["ratings"][a] = mem[a]
    BY <1>11, AfterSaveState
  <2>2. ~Saving("working") /\ mem' = mem /\ pool' = pool /\ pool \subseteq Addrs
    BY <1>11 DEF SaveState, Next1, Saving, memory, ghosts, IndType
  <2>3. Final'["working"] = Final["working"]
    <3>1. Len(queue') \in 0..Len(queue') /\ Len(queue') \notin 0..Len(queue)
      BY <1>1, <2>1
    <3>. QED
      BY <2>1, <3>1 DEF Final, Ahead
  <2>. QED
    BY <2>1, <2>2, <2>3 DEF Keeps
<1>12. CASE SaveWorkingFile
  <2>1. /\ \A i \in 0..Len(queue) : Ahead(i)' = Ahead(i)
        /\ \A i \in 0..Len(queue') : i \in 0..Len(queue) \/ Ahead(i)'["ratings"] = Final["ratings"]
        /\ Final'["ratings"] = Final["ratings"]
    BY <1>2, <1>12, AfterSaveWorking
  <2>2. Saving("working")' /\ mem' = mem /\ pool' = pool
    BY <1>12 DEF SaveWorkingFile, Next1, Saving, memory, ghosts
  <2>. QED
    BY <2>1, <2>2 DEF Keeps
<1>13. CASE Drained
  <2>1. Final = disk /\ queue = <<>> /\ Len(queue) = 0 /\ Ahead(0) = disk
    BY <1>13, AfterDrain DEF Drained
  <2>2. queue' = queue /\ disk' = disk /\ mem' = mem
    BY <1>13 DEF Drained, writer
  <2>3. Final' = disk /\ Len(queue') = 0 /\ \A i \in 0..Len(queue') : Ahead(i)' = disk
    BY <2>1, <2>2 DEF Final, Ahead
  <2>4. ASSUME NEW a \in pool'
        PROVE  mem[a] # None /\ disk["ratings"][a] # None /\ disk["working"][a] # None
    <3>1. CASE Head(todo) = "working"
      BY <1>13, <2>4, <3>1 DEF Drained, In
    <3>2. CASE Head(todo) # "working"
      <4>1. a \in pool /\ ~Saving("working")
        BY <1>13, <2>4, <3>2 DEF Drained, Saving
      <4>. QED
        BY <2>1, <4>1 DEF Keeps
    <3>. QED
      BY <3>1, <3>2
  <2>. QED
    BY <2>2, <2>3, <2>4 DEF Keeps
<1>14. CASE WriterCommits
  <2>1. PICK k \in 1..Len(queue) :
             /\ Len(queue') = Len(queue) - k
             /\ \A j \in 0..Len(queue') : Ahead(j)' = Ahead(k + j)
             /\ Final' = Final
    BY <1>14, AfterCommit
  <2>2. \A j \in 0..Len(queue') : k + j \in 0..Len(queue)
    BY <1>1, <2>1
  <2>3. mem' = mem /\ pool' = pool /\ Saving("working")' = Saving("working")
    BY <1>14 DEF WriterCommits, memory, handler, ghosts, Saving
  <2>. QED
    BY <2>1, <2>2, <2>3 DEF Keeps
<1>15. CASE WriterFails
  BY <1>15 DEF WriterFails, Keeps
<1>16. CASE Restarted
  <2>1. Len(queue') = 0 /\ Ahead(0)' = disk /\ Final' = disk
    BY <1>16, AfterRestart
  <2>2. mem' = Loaded(disk) /\ pool' = pool \cap In(disk["ratings"]) \cap In(disk["working"])
    BY <1>16 DEF Restarted, Load
  <2>3. \A a \in pool' : a \in Addrs /\ disk["ratings"][a] # None /\ disk["working"][a] # None
    BY <2>2 DEF In
  <2>4. \A a \in pool' : mem'[a] # None
    BY <2>2, <2>3, LoadedFacts DEF IndType
  <2>5. \A i \in 0..Len(queue') : Ahead(i)' = disk
    BY <2>1
  <2>. QED
    BY <2>1, <2>3, <2>4, <2>5 DEF Keeps
<1>17. CASE UNCHANGED vars
  BY <1>4, <1>17 DEF vars, memory, handler, writer, ghosts, Saving
<1>. QED
  BY <1>5, <1>7, <1>8, <1>9, <1>10, <1>11, <1>12, <1>13, <1>14, <1>15, <1>16, <1>17
     DEF Next, Handlers, Call, Writer, Killed, Exits, Quiet

(***************************************************************************)
(* Bans, at every commit ahead.                                            *)
(***************************************************************************)

LEMMA BansStep ==
    ASSUME IndType, OnlyRatings, Bans, [Next]_vars
    PROVE  Bans'
<1>1. Len(queue) \in Nat /\ Final \in Database /\ Ahead(0) = disk
  BY AheadTypes
<1>2. /\ "blacklist" \in Tables \ {"working"} /\ "blacklist" \in Tables \ {"ratings"}
      /\ "ratings" \in Tables \ {"working"} /\ "blacklist" \in Tables /\ "ratings" \in Tables
  BY DEF Tables
<1>3. IndType' /\ marks.blacklist \in SUBSET Addrs
  BY TypeStep DEF IndType
<1>4. ASSUME queue' = queue, disk' = disk, owed' = owed, Committed,
             marks'.blacklist = marks.blacklist,
             \A x \in Addrs : mem'[x] # None /\ mem'[x].black => mem[x] # None /\ mem[x].black
      PROVE  Bans'
  <2>1. Final' = Final /\ Len(queue') = Len(queue) /\ \A i : Ahead(i)' = Ahead(i)
    BY <1>4 DEF Ahead, Final
  <2>2. ASSUME NEW a \in marks'.blacklist \ owed'
        PROVE  /\ Final'["blacklist"][a] # None
               /\ mem'[a] # None /\ mem'[a].black => \A i \in 0..Len(queue') : Banned(Ahead(i)', a)
    BY <1>3, <1>4, <2>1, <2>2 DEF Bans
  <2>. QED
    BY <2>2 DEF Bans, Banned
<1>5. ASSUME Final' = Final, \A i \in 0..Len(queue') : Ahead(i)' = Ahead(i),
             Len(queue') = Len(queue), UNCHANGED <<mem, marks, todo, owed>>
      PROVE  Bans'
  BY <1>5 DEF Bans, Banned, Committed
<1>6. CASE Quiet
  <2>1. Marks /\ owed' = owed
    BY <1>6, QuietSteps
  <2>2. ASSUME NEW a \in Addrs, NEW on \in BOOLEAN, Blacklist(a, on)
        PROVE  Bans'
    <3>1. todo' = <<"blacklist", "state", "working">>
      BY <2>2 DEF Blacklist, Begin
    <3>2. todo' # <<>> /\ Head(todo') = "blacklist"
      BY <3>1
    <3>. QED
      BY <3>2 DEF Bans, Committed
  <2>. QED
    BY <1>4, <1>6, <2>1, <2>2, QuietMemory DEF Marks, Committed
<1>7. ASSUME NEW m \in RatingRows, NEW D, Hands(m, D), owed' = owed, marks' = marks
      PROVE  Bans'
  <2>1. /\ Len(queue') = Len(queue) + 1
        /\ \A i \in 0..Len(queue) : Ahead(i)' = Ahead(i)
        /\ Final' = Executed(DirtyRows(m, D), Final)
    BY <1>7, AfterHands
  <2>2. DirtyRows(m, D) \in Statements /\ DirtyRows(m, D).table = "ratings"
    BY DirtyRowsType DEF Replaces
  <2>3. Final'["blacklist"] = Final["blacklist"]
    BY <1>1, <1>2, <2>1, <2>2, ExecutedEffect
  <2>4. ASSUME NEW a \in marks.blacklist \ owed
        PROVE  Final["blacklist"][a] # None
    BY <1>7, <2>4 DEF Bans, Committed, Hands
  <2>5. \A i \in 1..Len(queue) : Replaces(queue[i])
    BY <1>7, FreeLoop, PureQueue DEF Hands
  <2>6. \A i \in 0..Len(queue) : Ahead(i)["blacklist"] = disk["blacklist"]
    BY <1>2, <2>5, CourseOfRatings DEF IndType, Ahead
  <2>7. Final["blacklist"] = disk["blacklist"]
    <3>1. Len(queue) \in 0..Len(queue)
      BY <1>1
    <3>. QED
      BY <2>6, <3>1 DEF Final
  <2>8. \A i \in 0..Len(queue') : Ahead(i)'["blacklist"] = disk["blacklist"]
    <3>. SUFFICES ASSUME NEW i \in 0..Len(queue')
                  PROVE  Ahead(i)'["blacklist"] = disk["blacklist"]
      OBVIOUS
    <3>1. i \in 0..Len(queue) \/ i = Len(queue')
      BY <1>1, <2>1
    <3>2. CASE i \in 0..Len(queue)
      BY <2>1, <2>6, <3>2
    <3>3. CASE i = Len(queue')
      <4>1. Ahead(i)' = Final'
        BY <3>3 DEF Final, Ahead
      <4>. QED
        BY <2>3, <2>7, <4>1
    <3>. QED
      BY <3>1, <3>2, <3>3
  <2>. QED
    BY <1>7, <2>3, <2>4, <2>7, <2>8 DEF Bans, Banned
<1>8. ASSUME NEW a \in Addrs, Checked(a) \/ TrafficFails(a)
      PROVE  Bans'
  <2>1. /\ Marks \/ Hands(mem', dirty \cup {a})
        /\ owed' = owed /\ marks' = marks
    BY <1>8, HandsSteps
  <2>2. mem' \in RatingRows
    BY <1>3 DEF IndType
  <2>3. ASSUME NEW x \in Addrs, mem'[x] # None, mem'[x].black
        PROVE  mem[x] # None /\ mem[x].black
    <3>1. Touched(a)
      BY <1>8, HandOver
    <3>2. CASE x = a
      BY <2>3, <3>1, <3>2 DEF Touched
    <3>3. CASE x # a
      <4>1. mem'[x] = mem[x]
        BY <3>1, <3>3 DEF Touched
      <4>. QED
        BY <2>3, <4>1
    <3>. QED
      BY <3>2, <3>3
  <2>. QED
    BY <1>4, <1>7, <2>1, <2>2, <2>3 DEF Marks, Committed
<1>9. CASE SourceRefresh
  <2>1. \E A : Hands(mem', dirty \cup A)
    BY <1>9, BeginFrees DEF SourceRefresh, Hands
  <2>2. mem' \in RatingRows /\ owed' = owed /\ marks' = marks
    BY <1>3, <1>9 DEF IndType, SourceRefresh, ghosts
  <2>. QED
    BY <1>7, <2>1, <2>2
<1>10. CASE RestoreBackup
  <2>1. /\ todo = <<>> /\ UNCHANGED <<handler, writer>> /\ marks' = LoadedMarks(disk')
    BY <1>10 DEF RestoreBackup, Load
  <2>2. queue' = queue /\ disk' \in Database /\ queue \in Seq(Statements)
    BY <1>3, <2>1 DEF writer, IndType
  <2>3. \A i \in 1..Len(queue) : Replaces(queue[i])
    BY <2>1, FreeLoop, PureQueue
  <2>4. \A i \in 0..Len(queue) : Course(queue, disk')[i]["blacklist"] = disk'["blacklist"]
    BY <1>2, <2>2, <2>3, CourseOfRatings
  <2>5. \A a \in marks'.blacklist : disk'["blacklist"][a] # None
    BY <1>3, <2>1, <2>2, LoadedFacts DEF IndType
  <2>6. Len(queue) \in 0..Len(queue)
    BY <1>1
  <2>. QED
    BY <2>2, <2>4, <2>5, <2>6 DEF Bans, Banned, Final, Ahead
<1>11. CASE SaveMarks
  <2>1. PICK t \in {"blacklist", "favorites"} :
          Next1(t) /\ disk' = [disk EXCEPT ![t] = Rows(marks[t])]
    BY <1>11 DEF SaveMarks
  <2>2. queue' = queue /\ mem' = mem /\ marks' = marks /\ owed' = owed
    BY <1>11 DEF SaveMarks, writer, memory, ghosts
  <2>3. Len(queue) \in 0..Len(queue)
    BY <1>1
  <2>4. CASE t = "blacklist"
    <3>1. \A i \in 0..Len(queue) : Ahead(i)'["blacklist"] = Rows(marks.blacklist)
      BY <2>1, <2>2, <2>4, AfterSaveMarks
    <3>2. Final'["blacklist"] = Rows(marks.blacklist)
      BY <2>2, <2>3, <3>1 DEF Final, Ahead
    <3>3. \A a \in marks.blacklist : Rows(marks.blacklist)[a] # None
      BY <1>3, RowsAssumption DEF Rows
    <3>. QED
      BY <2>2, <3>1, <3>2, <3>3 DEF Bans, Banned
  <2>5. CASE t = "favorites"
    <3>1. "ratings" \in Tables \ {t} /\ "blacklist" \in Tables \ {t}
      BY <2>5 DEF Tables
    <3>2. \A i \in 0..Len(queue) : /\ Ahead(i)'["ratings"] = Ahead(i)["ratings"]
                                   /\ Ahead(i)'["blacklist"] = Ahead(i)["blacklist"]
      BY <2>1, <2>2, <3>1, AfterSaveMarks
    <3>3. Final'["blacklist"] = Final["blacklist"]
      BY <2>2, <2>3, <3>2 DEF Final, Ahead
    <3>4. Committed
      BY <2>1, <2>5 DEF Committed, Next1
    <3>. QED
      BY <2>2, <3>2, <3>3, <3>4 DEF Bans, Banned
  <2>. QED
    BY <2>4, <2>5
<1>12. CASE SaveState
  <2>1. /\ \A i \in 0..Len(queue) : Ahead(i)' = Ahead(i)
        /\ \A i \in 0..Len(queue') : i \in 0..Len(queue) \/
              \A a \in Addrs : \/ Ahead(i)'["ratings"][a] = mem[a]
                               \/ Ahead(i)'["blacklist"][a] = Final["blacklist"][a]
        /\ \A a \in Addrs : Final'["blacklist"][a] = Rows(marks.blacklist)[a]
    BY <1>12, AfterSaveState
  <2>2. Committed /\ mem' = mem /\ marks' = marks /\ owed' = owed
    BY <1>12 DEF SaveState, Next1, Committed, memory, ghosts
  <2>3. \A a \in marks.blacklist : a \in Addrs /\ Rows(marks.blacklist)[a] # None
    BY <1>3, RowsAssumption DEF Rows
  <2>4. ASSUME NEW a \in marks.blacklist \ owed, mem[a] # None, mem[a].black,
               NEW i \in 0..Len(queue')
        PROVE  Banned(Ahead(i)', a)
    <3>1. CASE i \in 0..Len(queue)
      BY <2>1, <2>2, <2>4, <3>1 DEF Bans
    <3>2. CASE i \notin 0..Len(queue)
      <4>1. \/ Ahead(i)'["ratings"][a] = mem[a]
            \/ Ahead(i)'["blacklist"][a] = Final["blacklist"][a]
        BY <2>1, <2>3, <3>2
      <4>2. Final["blacklist"][a] # None
        BY <2>2 DEF Bans
      <4>. QED
        BY <2>4, <4>1, <4>2 DEF Banned
    <3>. QED
      BY <3>1, <3>2
  <2>. QED
    BY <2>1, <2>2, <2>3, <2>4 DEF Bans, Banned
<1>13. CASE SaveWorkingFile
  <2>1. /\ \A i \in 0..Len(queue) : Ahead(i)' = Ahead(i)
        /\ \A i \in 0..Len(queue') :
              i \in 0..Len(queue) \/ Ahead(i)'["blacklist"] = Final["blacklist"]
        /\ Final'["blacklist"] = Final["blacklist"]
    BY <1>2, <1>13, AfterSaveWorking
  <2>2. Committed /\ mem' = mem /\ marks' = marks /\ owed' = owed
    BY <1>13 DEF SaveWorkingFile, Next1, Committed, memory, ghosts
  <2>3. ASSUME NEW a \in marks.blacklist \ owed, mem[a] # None, mem[a].black,
               NEW i \in 0..Len(queue')
        PROVE  Banned(Ahead(i)', a)
    BY <2>1, <2>2, <2>3 DEF Bans, Banned
  <2>. QED
    BY <2>1, <2>2, <2>3 DEF Bans, Banned
<1>14. CASE Drained
  <2>1. Final = disk /\ queue = <<>> /\ Len(queue) = 0
    BY <1>14, AfterDrain DEF Drained
  <2>2. queue' = queue /\ disk' = disk /\ mem' = mem /\ marks' = marks
    BY <1>14 DEF Drained, writer
  <2>3. Final' = disk /\ Len(queue') = 0 /\ \A i \in 0..Len(queue') : Ahead(i)' = disk
    BY <1>1, <2>1, <2>2 DEF Final, Ahead
  <2>4. Committed
    BY <1>14 DEF Drained, IndType, Committed
  <2>5. ASSUME NEW a \in marks.blacklist \ owed'
        PROVE  disk["blacklist"][a] # None
    <3>1. a \notin owed \/ Written(a) = Kept(a)
      BY <1>14, <2>5 DEF Drained
    <3>2. CASE a \notin owed
      BY <2>1, <2>4, <2>5, <3>2 DEF Bans
    <3>3. CASE Written(a) = Kept(a)
      BY <1>3, <2>5, <3>3, RowsAssumption DEF Written, Kept, Rows
    <3>. QED
      BY <3>1, <3>2, <3>3
  <2>. QED
    BY <2>2, <2>3, <2>5 DEF Bans, Banned
<1>15. CASE WriterCommits
  <2>1. PICK k \in 1..Len(queue) :
             /\ Len(queue') = Len(queue) - k
             /\ \A j \in 0..Len(queue') : Ahead(j)' = Ahead(k + j)
             /\ Final' = Final
    BY <1>15, AfterCommit
  <2>2. \A j \in 0..Len(queue') : k + j \in 0..Len(queue)
    BY <1>1, <2>1
  <2>3. mem' = mem /\ marks' = marks /\ owed' = owed /\ todo' = todo
    BY <1>15 DEF WriterCommits, memory, handler, ghosts
  <2>4. ASSUME Committed, NEW a \in marks.blacklist \ owed, mem[a] # None, mem[a].black,
               NEW j \in 0..Len(queue')
        PROVE  Banned(Ahead(j)', a)
    BY <2>1, <2>2, <2>4 DEF Bans
  <2>. QED
    BY <2>1, <2>3, <2>4 DEF Bans, Banned, Committed
<1>16. CASE WriterFails
  <2>1. owed' = Addrs /\ marks' = marks
    BY <1>16 DEF WriterFails, memory
  <2>. QED
    BY <1>3, <2>1 DEF Bans
<1>17. CASE Restarted
  <2>1. Len(queue') = 0 /\ Ahead(0)' = disk /\ Final' = disk
    BY <1>17, AfterRestart
  <2>2. marks' = LoadedMarks(disk) /\ disk \in Database
    BY <1>17 DEF Restarted, Load, IndType
  <2>3. \A a \in marks'.blacklist : disk["blacklist"][a] # None
    BY <1>3, <2>2, LoadedFacts DEF IndType
  <2>4. \A i \in 0..Len(queue') : Ahead(i)' = disk
    BY <2>1
  <2>. QED
    BY <2>1, <2>3, <2>4 DEF Bans, Banned
<1>18. CASE UNCHANGED vars
  <2>1. queue' = queue /\ disk' = disk /\ UNCHANGED <<mem, marks, todo, owed>>
    BY <1>18 DEF vars, memory, handler, writer, ghosts
  <2>2. Final' = Final /\ (\A i \in 0..Len(queue') : Ahead(i)' = Ahead(i))
    BY <2>1 DEF Final, Ahead
  <2>. QED
    BY <1>5, <2>1, <2>2
<1>. QED
  BY <1>6, <1>8, <1>9, <1>10, <1>11, <1>12, <1>13, <1>14, <1>15, <1>16, <1>17, <1>18
     DEF Next, Handlers, Call, Writer, Killed, Exits, Quiet

(***************************************************************************)
(* The invariants of the runs.                                             *)
(***************************************************************************)

LEMMA StoreInit == Init => IndStore
<1>. SUFFICES ASSUME Init PROVE IndStore
  OBVIOUS
<1>1. IndType
  BY TypeInit
<1>2. /\ queue = <<>> /\ Len(queue) = 0 /\ unfinished = 0 /\ ~waiting /\ todo = <<>>
      /\ mem = Loaded(disk) /\ marks = LoadedMarks(disk) /\ disk \in Database
  BY <1>1 DEF Init, IndType
<1>3. Ahead(0) = disk /\ Final = disk
  BY <1>1, <1>2, AfterDrain
<1>4. \A i \in 0..Len(queue) : Ahead(i) = disk
  BY <1>2, <1>3
<1>5. PICK S \in SUBSET Addrs : disk = Saved(S) /\ pool = S
  BY DEF Init
<1>6. ASSUME NEW a \in Addrs
      PROVE  /\ disk["ratings"][a] = IF a \in S THEN Rating("ok") ELSE None
             /\ disk["working"][a] = IF a \in S THEN Row ELSE None
             /\ disk["blacklist"][a] = None /\ disk["favorites"][a] = None
  BY <1>5 DEF Saved, Tables, Rows, Nothing
<1>7. Rating("ok") # None /\ Row # None
  <2>1. Rating("ok") \in Ratings
    BY DEF Rating, Ratings
  <2>. QED
    BY <2>1, RowsAssumption
<1>8. OnlyRatings
  BY <1>2 DEF OnlyRatings
<1>9. ASSUME NEW a \in Addrs
      PROVE  mem[a] = disk["ratings"][a]
  <2>1. CASE a \in S
    <3>1. disk["ratings"][a] = Rating("ok")
      BY <1>6, <2>1
    <3>2. FromRatings(disk)[a] = [Rating("ok") EXCEPT !.black = @ \/ disk["blacklist"][a] # None,
                                                     !.fav = @ \/ disk["favorites"][a] # None]
      BY <1>7, <3>1 DEF FromRatings
    <3>3. /\ Rating("ok").black = FALSE /\ Rating("ok").fav = FALSE
          /\ (disk["blacklist"][a] # None) = FALSE /\ (disk["favorites"][a] # None) = FALSE
      BY <1>6 DEF Rating
    <3>4. FromRatings(disk)[a] = [Rating("ok") EXCEPT !.black = FALSE, !.fav = FALSE]
      BY <3>2, <3>3
    <3>5. FromRatings(disk)[a] = Rating("ok")
      BY <3>4 DEF Rating
    <3>6. Loaded(disk)[a] = FromRatings(disk)[a]
      BY <1>7, <3>5 DEF Loaded
    <3>. QED
      BY <1>2, <3>1, <3>5, <3>6
  <2>2. CASE a \notin S
    <3>1. disk["ratings"][a] = None /\ disk["working"][a] = None
      BY <1>6, <2>2
    <3>2. Loaded(disk)[a] = None
      BY <3>1 DEF Loaded, FromRatings
    <3>. QED
      BY <1>2, <3>1, <3>2
  <2>. QED
    BY <2>1, <2>2
<1>10. Reach
  BY <1>2, <1>3, <1>9 DEF Reach, Reaches, Saving
<1>11. Keeps
  <2>1. \A a \in pool : a \in Addrs /\ disk["ratings"][a] # None /\ disk["working"][a] # None
    BY <1>5, <1>6, <1>7
  <2>. QED
    BY <1>3, <1>4, <1>9, <2>1 DEF Keeps
<1>12. Bans
  <2>1. marks.blacklist = {}
    BY <1>2, <1>6 DEF LoadedMarks, In
  <2>. QED
    BY <2>1 DEF Bans
<1>. QED
  BY <1>1, <1>8, <1>10, <1>11, <1>12 DEF IndStore

LEMMA StoreStep == IndStore /\ [Next]_vars => IndStore'
BY TypeStep, OnlyRatingsStep, ReachStep, KeepsStep, BansStep DEF IndStore

\* ChangesReachDisk: no change of a rating is forgotten. It is on the disk, marked,
\* queued or about to be saved whatever the handlers, batches and kills, and what
\* may be left behind is only what a lost batch, a restore or a load has excused.
THEOREM ChangesAreKept == Spec => []ChangesReachDisk
<1>1. IndStore => ChangesReachDisk
  <2>. SUFFICES ASSUME IndStore, NEW a \in Addrs, mem[a] # disk["ratings"][a]
                PROVE  Pending(a)
    BY DEF ChangesReachDisk
  <2>. SUFFICES ASSUME a \notin dirty \cup owed,
                       \A i \in 1..Len(queue) :
                          ~(queue[i].table = "ratings" /\ a \in In(queue[i].rows))
                PROVE  "state" \in {todo[i] : i \in 1..Len(todo)}
    BY DEF Pending
  <2>1. IndType /\ OnlyRatings /\ Reach
    BY DEF IndStore
  <2>2. queue \in Seq(Statements) /\ Len(queue) \in Nat /\ disk \in Database
        /\ Len(queue) \in 0..Len(queue)
    BY <2>1, LenProperties DEF IndType
  <2>3. CASE SaveAhead
    <3>1. todo \in {<<"state">>, <<"state", "working">>, <<"state", "working", "exit">>,
                    <<"blacklist", "state", "working">>, <<"favorites", "state">>}
      <4>1. Head(<<"working">>) = "working" /\ Head(<<"working", "exit">>) = "working"
            /\ Head(<<"exit">>) = "exit"
        OBVIOUS
      <4>. QED
        BY <2>1, <2>3, <4>1 DEF IndType, Handling, SaveAhead
    <3>2. \A x, y, z : /\ Len(<<x>>) = 1 /\ <<x>>[1] = x
                       /\ Len(<<x, y>>) = 2 /\ <<x, y>>[1] = x /\ <<x, y>>[2] = y
                       /\ Len(<<x, y, z>>) = 3 /\ <<x, y, z>>[1] = x /\ <<x, y, z>>[2] = y
      OBVIOUS
    <3>3. \E i \in 1..Len(todo) : todo[i] = "state"
      <4>1. CASE todo = <<"state">>
        BY <3>2, <4>1
      <4>2. CASE todo = <<"state", "working">>
        BY <3>2, <4>2
      <4>3. CASE todo = <<"state", "working", "exit">>
        BY <3>2, <4>3
      <4>4. CASE todo = <<"blacklist", "state", "working">>
        BY <3>2, <4>4
      <4>5. CASE todo = <<"favorites", "state">>
        BY <3>2, <4>5
      <4>. QED
        BY <3>1, <4>1, <4>2, <4>3, <4>4, <4>5
    <3>. QED
      BY <3>3
  <2>4. CASE ~SaveAhead
    <3>1. Final["ratings"][a] = mem[a]
      BY <2>1, <2>4 DEF Reach, Reaches
    <3>2. ASSUME NEW i \in 1..Len(queue)
          PROVE  Replaces(queue[i]) \/ queue[i].table = "working"
      BY <2>1, <2>4 DEF OnlyRatings, Saving, SaveAhead, IndType
    <3> DEFINE D == {x \in Database : x["ratings"][a] = disk["ratings"][a]}
    <3>3. ASSUME NEW i \in 1..Len(queue), NEW x \in D
          PROVE  Executed(queue[i], x) \in D
      <4>1. queue[i] \in Statements /\ x \in Database
        BY <2>2, ElementOfSeq
      <4>2. /\ Executed(queue[i], x) \in Database
            /\ \A t \in Tables : t # queue[i].table => Executed(queue[i], x)[t] = x[t]
            /\ Executed(queue[i], x)[queue[i].table][a]
                 = IF queue[i].op = "delete" THEN None
                   ELSE IF queue[i].rows[a] # None THEN queue[i].rows[a]
                   ELSE x[queue[i].table][a]
        BY <4>1, ExecutedEffect
      <4>3. "ratings" \in Tables
        BY DEF Tables
      <4>4. CASE queue[i].table = "working"
        BY <4>2, <4>3, <4>4
      <4>5. CASE Replaces(queue[i])
        <5>1. queue[i].table = "ratings" /\ queue[i].op # "delete" /\ queue[i].rows[a] = None
          BY <4>5 DEF Replaces, In
        <5>. QED
          BY <4>2, <5>1
      <4>. QED
        BY <3>2, <4>4, <4>5
    <3>4. disk \in D
      BY <2>2
    <3>5. \A i \in 0..Len(queue) : Course(queue, disk)[i] \in D
      <4>. HIDE DEF D
      <4>. QED
        BY <2>2, <3>3, <3>4, CourseStaysIn
    <3>6. Final["ratings"][a] = disk["ratings"][a]
      BY <2>2, <3>5 DEF Final, Ahead
    <3>. QED
      BY <3>1, <3>6
  <2>. QED
    BY <2>3, <2>4
<1>. QED
  BY StoreInit, StoreStep, <1>1, PTL DEF Spec

\* KillKeepsPool: between whichever two commits the process is killed, a proxy
\* that both tables held, and that nobody has cleared, comes back or is banned.
THEOREM KillNeverEmptiesPool == Spec => []KillKeepsPool
<1>1. IndStore => KillKeepsPool
  <2>. SUFFICES ASSUME IndStore, NEW a \in pool
                PROVE  Loaded(disk)[a] # None \/ disk["blacklist"][a] # None
    BY DEF KillKeepsPool
  <2>1. IndType /\ Keeps
    BY DEF IndStore
  <2>2. Ahead(0) = disk /\ 0 \in 0..Len(queue) /\ disk \in Database /\ a \in Addrs
    BY <2>1, AheadTypes DEF IndType
  <2>3. disk["ratings"][a] # None \/ disk["working"][a] # None
    BY <2>1, <2>2 DEF Keeps
  <2>. QED
    BY <2>2, <2>3, LoadedFacts
<1>. QED
  BY StoreInit, StoreStep, <1>1, PTL DEF Spec

\* BanSurvivesKill: once the ban of a rated proxy is committed, no older row in
\* the writer's queue and no half-done save lets a kill bring it back unbanned.
THEOREM BansAreKept == Spec => []BanSurvivesKill
<1>1. IndStore => BanSurvivesKill
  <2>. SUFFICES ASSUME IndStore, todo = <<>> \/ todo[1] # "blacklist",
                       NEW a \in marks.blacklist \ owed, mem[a] # None, mem[a].black
                PROVE  Loaded(disk)[a] = None \/ Loaded(disk)[a].black
    BY DEF BanSurvivesKill
  <2>1. IndType /\ Bans
    BY DEF IndStore
  <2>2. Ahead(0) = disk /\ 0 \in 0..Len(queue) /\ disk \in Database /\ a \in Addrs
    BY <2>1, AheadTypes DEF IndType
  <2>3. Committed
    BY DEF Committed
  <2>4. Banned(disk, a)
    BY <2>1, <2>2, <2>3 DEF Bans
  <2>. QED
    BY <2>2, <2>4, LoadedFacts
<1>. QED
  BY StoreInit, StoreStep, <1>1, PTL DEF Spec
================================================================================
