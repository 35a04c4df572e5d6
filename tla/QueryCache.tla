------------------------------ MODULE QueryCache ------------------------------
(***************************************************************************)
(* A database of a content provider with its cache of query results:       *)
(* SQLiteDB and SQLiteCursor, used by SQLiteProvider with useCache = true. *)
(*                                                                         *)
(* A statement is known by its text only.  Texts are numbers in the order  *)
(* std::map keeps its keys: the smallest text is the one the cache evicts. *)
(* The result of a query is at most one row, which stands for all the rows *)
(* sqlite answers; a row is an object on the heap that the cache deletes   *)
(* and that cursors point to.  Content of a table is a number, 0 when no   *)
(* query on it has an answer.  sqlite itself is external: a statement that *)
(* fails does so before its first row.                                     *)
(***************************************************************************)
EXTENDS Naturals, FiniteSets, Functions

CONSTANTS
    Query,       \* texts of the SELECT statements
    Insertion,   \* texts of the INSERT statements
    Change,      \* texts of the UPDATE and DELETE statements
    TableOf,     \* the table a text is about
    Mentions,    \* the tables whose name occurs in a text
    Content,     \* what a table may hold
    Row,         \* objects on the heap
    Cursor,      \* cursors open at the same time
    Limit        \* s_cacheItemTotal

Text == Query \cup Insertion \cup Change
Table == {TableOf[w] : w \in Text}
NoCmd == 0
Closed == [open |-> FALSE]

ASSUME TextAssumption ==
    /\ Text \subseteq Nat \ {NoCmd} /\ IsFiniteSet(Text)
    /\ Query \cap (Insertion \cup Change) = {}
    /\ DOMAIN TableOf = Text /\ DOMAIN Mentions = Text
    /\ \A w \in Text : TableOf[w] \in Mentions[w]
ASSUME LimitAssumption == Limit \in Nat \ {0}
ASSUME ContentAssumption == 0 \in Content

VARIABLES
    db,          \* the tables
    cache,       \* m_resultCache: text -> rows
    heap,        \* the rows alive: what query they answer, and how
    result,      \* m_sqlResult
    lastCmd,     \* m_lastSQLCmd
    cursor,      \* the cursors
    repeated     \* history: tables a requery() has written, not refreshed since

vars == <<db, cache, heap, result, lastCmd, cursor, repeated>>

(* "query" is what the cursor was opened with, "cmd" its m_queryCmd, and   *)
(* "text" what its rows answer: NoCmd when they must not be read any more. *)
OpenCursor == [open : {TRUE}, query : Query, cmd : Text, rows : SUBSET Row,
               text : Text \cup {NoCmd}]

(* Types.  A cursor exists only after some statement has succeeded, so the *)
(* command it would repeat is never the empty string of a new database.    *)
TypeOK ==
    /\ db \in [Table -> Content]
    /\ DOMAIN cache \subseteq Text
    /\ \A w \in DOMAIN cache : cache[w] \subseteq Row
    /\ DOMAIN heap \subseteq Row
    /\ \A r \in DOMAIN heap : heap[r] \in [text : Query, value : Content]
    /\ result \subseteq Row
    /\ lastCmd \in Text \cup {NoCmd}
    /\ cursor \in [Cursor -> OpenCursor \cup {Closed}]
    /\ repeated \subseteq Table

-----------------------------------------------------------------------------
(* The cache, as a function of what it was.                                *)

Smallest(S) == CHOOSE w \in S : \A v \in S : w <= v
RowsIn(c, W) == UNION {c[w] : w \in W}

FullLate(c) == Cardinality(DOMAIN c) > Limit    \* MUTANT of Full
Full(c) == Cardinality(DOMAIN c) >= Limit

(* cacheQueryResult makes room even when the text is cached already.       *)
Evicted(c, cmd) ==
    (IF Full(c) THEN {Smallest(DOMAIN c)} ELSE {}) \cup ({cmd} \cap DOMAIN c)

StoredUnerased(c, cmd, rows) ==                 \* MUTANT of Stored
    [w \in DOMAIN c \cup {cmd} |->
        IF w = cmd THEN rows ELSE IF w \in Evicted(c, cmd) THEN {} ELSE c[w]]
Stored(c, cmd, rows) ==
    [w \in (DOMAIN c \ Evicted(c, cmd)) \cup {cmd} |->
        IF w = cmd THEN rows ELSE c[w]]

(* refreshTableCache drops every text in which the table's name occurs.    *)
Outdated(c, t) == {w \in DOMAIN c : t \in Mentions[w]}

RefreshedEmptied(c, t) ==                       \* MUTANT of Refreshed
    [w \in DOMAIN c |-> IF w \in Outdated(c, t) THEN {} ELSE c[w]]
Refreshed(c, t) == Restrict(c, DOMAIN c \ Outdated(c, t))

Freed(h, rows) == Restrict(h, DOMAIN h \ rows)

-----------------------------------------------------------------------------
Init ==
    /\ db \in [Table -> Content]
    /\ cache = <<>> /\ heap = <<>> /\ result = {}
    /\ lastCmd = NoCmd
    /\ cursor = [c \in Cursor |-> Closed]
    /\ repeated = {}

ClearedNot == result                            \* MUTANT of Cleared
(* execSQL empties m_sqlResult, and leaves its rows to the cache.          *)
Cleared == {}

ExecutedUnnoted(cmd) == lastCmd                 \* MUTANT of Executed
(* m_lastSQLCmd once sqlite has accepted the statement.                    *)
Executed(cmd) == cmd

(* A cursor copied the pointers to its rows, not the rows: it can be read  *)
(* only until their text is dropped from the cache, which deletes them.    *)
Outlived(d) ==
    IF d.open /\ d.text \notin DOMAIN cache'
    THEN [d EXCEPT !.text = NoCmd] ELSE d

(* queryFromCache: the rows come from the cache, m_lastSQLCmd stays.       *)
Hit(w) ==
    /\ w \in DOMAIN cache
    /\ result' = cache[w]
    /\ UNCHANGED <<db, cache, heap, lastCmd, repeated>>

(* execSQL of a query: new rows, stored under its text.                    *)
ExecQuery(q, r) ==
    LET new == IF db[TableOf[q]] = 0 THEN {} ELSE {r}
        kept == Freed(heap, RowsIn(cache, Evicted(cache, q)))
    IN  /\ result' = Cleared \cup new
        /\ cache' = Stored(cache, q, Cleared \cup new)
        /\ heap' = [x \in DOMAIN kept \cup new |->
                        IF x \in new
                        THEN [text |-> q, value |-> db[TableOf[q]]]
                        ELSE kept[x]]
        /\ lastCmd' = Executed(q)
        /\ UNCHANGED <<db, repeated>>

(* A statement sqlite refuses: only m_sqlResult has been emptied.          *)
ExecFails == result' = Cleared /\ UNCHANGED <<db, heap, lastCmd, repeated>>

-----------------------------------------------------------------------------
(* query() of a provider, and the cursor made from its result.             *)
OpenFromCache(c, q) ==
    /\ cursor[c] = Closed
    /\ Hit(q)
    /\ cursor' = [cursor EXCEPT ![c] =
            [open |-> TRUE, query |-> q, cmd |-> lastCmd, rows |-> result',
             text |-> q]]

OpenFromDatabase(c, q) ==
    /\ cursor[c] = Closed
    /\ q \notin DOMAIN cache
    /\ \E r \in Row \ DOMAIN heap : ExecQuery(q, r)
    /\ cursor' = [d \in Cursor |->
            IF d = c THEN [open |-> TRUE, query |-> q, cmd |-> lastCmd',
                           rows |-> result', text |-> q]
                     ELSE Outlived(cursor[d])]

(* No cursor: query() returns NULL.                                        *)
OpenFails(q) ==
    /\ q \notin DOMAIN cache
    /\ ExecFails
    /\ UNCHANGED <<cache, cursor>>

(* requery() repeats m_queryCmd, the last command that had reached the     *)
(* database when the cursor was made: after a hit that is another one, and *)
(* may be a write.                                                         *)
Requeried(c) == [cursor[c] EXCEPT !.rows = result', !.text = cursor[c].cmd]

RequeryFromCache(c) ==
    /\ cursor[c].open
    /\ Hit(cursor[c].cmd)
    /\ cursor' = [cursor EXCEPT ![c] = Requeried(c)]

RequeryFromDatabase(c) ==
    /\ cursor[c].open /\ cursor[c].cmd \in Query \ DOMAIN cache
    /\ \E r \in Row \ DOMAIN heap : ExecQuery(cursor[c].cmd, r)
    /\ cursor' = [d \in Cursor |->
            IF d = c THEN Requeried(c) ELSE Outlived(cursor[d])]

(* query() executes any text: the write is done again, and stored like an  *)
(* answer, but the table's cache is not refreshed.                         *)
RequeryWrites(c, x) ==
    LET w == cursor[c].cmd
    IN  /\ cursor[c].open /\ w \notin Query \cup DOMAIN cache
        /\ db' = [db EXCEPT ![TableOf[w]] = x]
        /\ cache' = Stored(cache, w, Cleared)
        /\ heap' = Freed(heap, RowsIn(cache, Evicted(cache, w)))
        /\ result' = Cleared
        /\ lastCmd' = Executed(w)
        /\ repeated' = repeated \cup {TableOf[w]}
        /\ cursor' = [d \in Cursor |->
                IF d = c THEN Requeried(c) ELSE Outlived(cursor[d])]

RequeryFails(c) ==
    /\ cursor[c].open /\ cursor[c].cmd \notin DOMAIN cache
    /\ ExecFails
    /\ cursor' = [cursor EXCEPT ![c].rows = result', ![c].text = NoCmd]
    /\ UNCHANGED cache

Close(c) ==
    /\ cursor[c].open
    /\ cursor' = [cursor EXCEPT ![c] = Closed]
    /\ UNCHANGED <<db, cache, heap, result, lastCmd, repeated>>

-----------------------------------------------------------------------------
(* insert: the statement first, stored like a query with no rows, then the *)
(* cache of the table is dropped, whether the statement succeeded or not.  *)
InsertSucceeds(w, x) ==
    LET t == TableOf[w]
        stored == Stored(cache, w, Cleared)
    IN  /\ db' = [db EXCEPT ![t] = x]
        /\ cache' = Refreshed(stored, t)
        /\ heap' = Freed(heap, RowsIn(cache, Evicted(cache, w))
                               \cup RowsIn(stored, Outdated(stored, t)))
        /\ result' = Cleared
        /\ lastCmd' = Executed(w)
        /\ repeated' = repeated \ {t}
        /\ cursor' = [c \in Cursor |-> Outlived(cursor[c])]

InsertFails(w) ==
    LET t == TableOf[w]
    IN  /\ cache' = Refreshed(cache, t)
        /\ heap' = Freed(heap, RowsIn(cache, Outdated(cache, t)))
        /\ result' = Cleared
        /\ repeated' = repeated \ {t}
        /\ cursor' = [c \in Cursor |-> Outlived(cursor[c])]
        /\ UNCHANGED <<db, lastCmd>>

(* update and remove: the cache of the table is dropped first, and the     *)
(* statement, stored with no rows, stays in the cache.                     *)
ChangeSucceeds(w, x) ==
    LET t == TableOf[w]
        fresh == Refreshed(cache, t)
    IN  /\ db' = [db EXCEPT ![t] = x]
        /\ cache' = Stored(fresh, w, Cleared)
        /\ heap' = Freed(heap, RowsIn(cache, Outdated(cache, t))
                               \cup RowsIn(fresh, Evicted(fresh, w)))
        /\ result' = Cleared
        /\ lastCmd' = Executed(w)
        /\ repeated' = repeated \ {t}
        /\ cursor' = [c \in Cursor |-> Outlived(cursor[c])]

ChangeFails(w) == InsertFails(w)

-----------------------------------------------------------------------------
Next ==
    \/ \E q \in Query : OpenFails(q)
    \/ \E c \in Cursor :
         \/ \E q \in Query : OpenFromCache(c, q) \/ OpenFromDatabase(c, q)
         \/ RequeryFromCache(c) \/ RequeryFromDatabase(c) \/ RequeryFails(c)
         \/ \E x \in Content : RequeryWrites(c, x)
         \/ Close(c)
    \/ \E w \in Insertion :
         InsertFails(w) \/ \E x \in Content : InsertSucceeds(w, x)
    \/ \E w \in Change :
         ChangeFails(w) \/ \E x \in Content : ChangeSucceeds(w, x)

Spec == Init /\ [][Next]_vars

-----------------------------------------------------------------------------
(* The rows show what the table answers to the query now.                  *)
Shows(rows, q) ==
    /\ rows = {} <=> db[TableOf[q]] = 0
    /\ \A r \in rows : /\ r \in DOMAIN heap
                       /\ heap[r] = [text |-> q, value |-> db[TableOf[q]]]

(* Whatever is written, refused, evicted and asked again, a cached answer  *)
(* is the one the table would give: no reader of a service sees a setting, *)
(* a contact or a song that has been changed (SQLiteDB.cc:147-178,         *)
(* refreshTableCache 300-327 and its callers).  The one way to spoil the   *)
(* cache of a table is a requery() that repeats a write, and the next      *)
(* ordinary write to the table mends it.                                   *)
CacheCoherent ==
    \A q \in DOMAIN cache \cap Query :
        TableOf[q] \notin repeated => Shows(cache[q], q)

(* A row belongs to one cached text, and every row alive to some: nothing  *)
(* is deleted twice when texts are dropped or evicted (DeleteObject at     *)
(* :161, :170, :306), and nothing is lost.  execSQL relies on it when it   *)
(* forgets m_sqlResult without deleting the rows (:124-129).               *)
RowsOwnedOnce ==
    /\ DOMAIN heap = RowsIn(cache, DOMAIN cache)
    /\ \A v, w \in DOMAIN cache : v # w => cache[v] \cap cache[w] = {}
    /\ \A w \in DOMAIN cache \ Query : cache[w] = {}

(* The statements that are no queries fill the cache too, and eviction     *)
(* comes before the test for a text already cached (:160-176).             *)
CacheWithinLimit == Cardinality(DOMAIN cache) <= Limit

(* Cursors share the rows of the cache (SQLiteCursor.hh:63-68).  However   *)
(* many statements come between opening and reading, also on other tables  *)
(* and also failing ones: as long as the answer has not been dropped from  *)
(* the cache - by a write that mentions the table (SQLiteDB.cc:306), or to *)
(* make room (:161) - the cursor's rows are alive and current.             *)
CursorReadsCurrent ==
    \A c \in Cursor :
        cursor[c].open /\ cursor[c].text \in Query =>
            (TableOf[cursor[c].text] \notin repeated
                => Shows(cursor[c].rows, cursor[c].text))

(* A cursor shows what its query answers, as the tests of requery() expect *)
(* (test/common/test-ContentResolver.cc:154-157, 274-276).  Not so: what a *)
(* cursor opened by a cache hit repeats is another command.                *)
CursorShowsItsQuery ==
    \A c \in Cursor :
        cursor[c].open /\ cursor[c].text # NoCmd =>
            Shows(cursor[c].rows, cursor[c].query)

=============================================================================
