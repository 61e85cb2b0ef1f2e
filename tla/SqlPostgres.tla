---------------------------- MODULE SqlPostgres ----------------------------
(***************************************************************************)
(* The Postgres provider (sqldb-postgres): one bb8 connection pool per     *)
(* linked actor, in a map behind a tokio RwLock.  put_link makes the pool  *)
(* before it asks for the write lock; execute and query keep the read lock *)
(* while they wait for a connection, while the statement runs and while    *)
(* the rows are encoded, so that no pool is dropped under a statement.     *)
(*                                                                         *)
(* External: tokio's RwLock serves its waiters in order.  bb8 opens at     *)
(* most max_connections connections, hands each one out to one user at a   *)
(* time, takes it back when the user drops it (also in a panic) unless it  *)
(* is broken, closes old and idle ones and keeps min_idle in reserve; its  *)
(* builder panics on zero limits.  Postgres ends every statement or the    *)
(* connection.                                                             *)
(***************************************************************************)
EXTENDS Naturals, Sequences, FiniteSets

CONSTANTS
    Actors,
    Pools,        \* bound: one per put_link call
    Calls,        \* execute and query calls at work at the same time
    LinkValues,   \* the values link definitions come with
    ResultSets,   \* the rows queries come back with
    None

VARIABLES
    actors,    \* the map: actor -> pool, or None
    waiters,   \* handlers and calls waiting for the lock of the map, in order
    readers,   \* calls that hold the lock for reading
    pool,      \* every pool, from its put_link call on
    call       \* execute and query calls

vars == <<actors, waiters, readers, pool, call>>

Stages == {"unused", "creating", "queued", "linked", "dropped", "closed"}
Pool == [stage : Stages, actor : Actors \cup {None}, buildable : BOOLEAN,
         max_size : Nat, min_idle : Nat,
         open : Nat,    \* connections bb8 counts
         idle : Nat]    \* connections waiting in the pool
Call == [status : {"idle", "waiting", "getting", "running"}, actor : Actors \cup {None},
         via : Pools \cup {None},
         answered : BOOLEAN]   \* a panic leaves the caller without an answer
Waiter == [op : {"put", "delete", "shutdown", "read"},
           who : Pools \cup Actors \cup Calls \cup {None}]

NewPool(stage, a, buildable, max, min) ==
    [stage |-> stage, actor |-> a, buildable |-> buildable, max_size |-> max,
     min_idle |-> min, open |-> 0, idle |-> 0]

Init ==
    /\ actors = [a \in Actors |-> None]
    /\ waiters = <<>>
    /\ readers = {}
    /\ pool = [p \in Pools |-> NewPool("unused", None, FALSE, 0, 0)]
    /\ call = [q \in Calls |-> [status |-> "idle", actor |-> None, via |-> None,
                                answered |-> TRUE]]

-----------------------------------------------------------------------------
(* Configuration.  The values of a link are a function from keys; a         *)
(* document is [parses, given].                                             *)

PoolDefaults == [max_connections |-> 8, min_idle |-> 0, max_lifetime_secs |-> 7200,
                 idle_timeout_secs |-> 600, connection_timeout_millis |-> 1000]

\* The options of a document that parses are u32 (config.rs 46-68).
ASSUME PostgresAssumption ==
    /\ None \notin Pools /\ IsFiniteSet(Calls)
    /\ \A v \in LinkValues : \A k \in {"config_json", "config_b64"} \cap DOMAIN v :
         v[k].parses => \A f \in DOMAIN PoolDefaults \cap DOMAIN v[k].given : v[k].given[f] \in Nat

\* A document replaces the one before as a whole, must name a uri, and the key
\* uri replaces that; None is an Err.
load_config(values) ==
    LET has(k) == k \in DOMAIN values
        bad(k) == has(k) /\ (~values[k].parses \/ "uri" \notin DOMAIN values[k].given)
        doc == IF has("config_json") THEN values["config_json"].given
               ELSE IF has("config_b64") THEN values["config_b64"].given
               ELSE [uri |-> ""]
        uri == IF has("uri") THEN values["uri"] ELSE doc.uri
    IN IF bad("config_b64") \/ bad("config_json") \/ uri = "" THEN None
       ELSE [f \in DOMAIN PoolDefaults \cup {"uri"} |->
               IF f = "uri" THEN uri
               ELSE IF f \in DOMAIN doc THEN doc[f] ELSE PoolDefaults[f]]

IsConnectString(uri) == uri # "no connect string"

\* create_pool gets as far as the network: the uri parses, and none of the
\* asserts of bb8's builder fails.
buildable(config) ==
    /\ IsConnectString(config.uri)
    /\ \A f \in DOMAIN PoolDefaults : f # "min_idle" => config[f] > 0
    /\ config.min_idle <= config.max_connections

-----------------------------------------------------------------------------
(* Link handlers.  None awaits anything under the write lock. *)

Wait(op, who) == waiters' = Append(waiters, [op |-> op, who |-> who])

Turn(op, who) ==
    /\ waiters # <<>> /\ Head(waiters) = [op |-> op, who |-> who]
    /\ waiters' = Tail(waiters)

Dropped(P) == [p \in Pools |->
                 IF p \in P THEN [pool[p] EXCEPT !.stage = "dropped"] ELSE pool[p]]

put_link(p, a, v) ==
    LET config == load_config(v)
    IN
    /\ pool[p].stage = "unused"
    /\ pool' = [pool EXCEPT ![p] =
          IF config = None THEN NewPool("closed", a, FALSE, 0, 0)
          ELSE NewPool("creating", a, buildable(config), config.max_connections,
                       config.min_idle)]
    /\ UNCHANGED <<actors, waiters, readers, call>>

\* The reserve of min_idle connections stands, or put_link fails.
create_pool(p) ==
    /\ pool[p].stage = "creating"
    /\ \/ /\ pool[p].buildable
          /\ pool' = [pool EXCEPT ![p].stage = "queued", ![p].open = pool[p].min_idle,
                                  ![p].idle = pool[p].min_idle]
          /\ Wait("put", p)
       \/ /\ pool' = [pool EXCEPT ![p] = NewPool("dropped", @.actor, FALSE, 0, 0)]
          /\ UNCHANGED waiters
    /\ UNCHANGED <<actors, readers, call>>

MutInsertKeeps(p) ==
    /\ Turn("put", p) /\ readers = {}
    /\ actors' = [actors EXCEPT ![pool[p].actor] = IF @ = None THEN p ELSE @]
    /\ pool' = [pool EXCEPT ![p].stage = "linked"]
    /\ UNCHANGED <<readers, call>>

insert(p) ==
    LET a == pool[p].actor IN
    /\ Turn("put", p) /\ readers = {}
    /\ actors' = [actors EXCEPT ![a] = p]
    /\ pool' = [Dropped({actors[a]}) EXCEPT ![p].stage = "linked"]
    /\ UNCHANGED <<readers, call>>

\* The host sends delete_link for a link it has put, or shutdown.  Bound: one
\* of them waits at a time.
unlink(op, who) ==
    /\ \A i \in DOMAIN waiters : waiters[i].op \notin {"delete", "shutdown"}
    /\ \E p \in Pools : pool[p].stage # "unused" /\ (op = "delete" => pool[p].actor = who)
    /\ Wait(op, who)
    /\ UNCHANGED <<actors, readers, pool, call>>

delete_link(a) ==
    /\ Turn("delete", a) /\ readers = {}
    /\ actors' = [actors EXCEPT ![a] = None]
    /\ pool' = Dropped({actors[a]})
    /\ UNCHANGED <<readers, call>>

shutdown ==
    /\ Turn("shutdown", None) /\ readers = {}
    /\ actors' = [a \in Actors |-> None]
    /\ pool' = Dropped({actors[a] : a \in Actors})
    /\ UNCHANGED <<readers, call>>

\* The last handle of a dropped pool is gone and its connections are closed.
ClosePool(p) ==
    /\ pool[p].stage = "dropped"
    /\ \A q \in Calls : call[q].via # p
    /\ pool' = [pool EXCEPT ![p] = NewPool("closed", @.actor, FALSE, 0, 0)]
    /\ UNCHANGED <<actors, waiters, readers, call>>

-----------------------------------------------------------------------------
(* execute and query. *)

\* execute or query is called.
execute(q, a) ==
    /\ call[q].status = "idle"
    /\ call' = [call EXCEPT ![q] = [status |-> "waiting", actor |-> a, via |-> None,
                                    answered |-> TRUE]]
    /\ Wait("read", q)
    /\ UNCHANGED <<actors, readers, pool>>

\* The call is over, with an answer of whatever kind or with none, and the
\* read lock is released.
Return(q, answered) ==
    /\ call' = [call EXCEPT ![q] = [status |-> "idle", actor |-> None, via |-> None,
                                    answered |-> answered]]
    /\ readers' = readers \ {q}

read(q) ==
    LET p == actors[call[q].actor] IN
    /\ Turn("read", q)
    /\ IF p = None THEN Return(q, TRUE)
       ELSE /\ call' = [call EXCEPT ![q].status = "getting", ![q].via = p]
            /\ readers' = readers \cup {q}
    /\ UNCHANGED <<actors, pool>>

\* pool.get: an idle connection, or a new one as long as the pool may grow; an
\* idle one that fails its check is given up.
get(q) ==
    LET p == call[q].via IN
    /\ call[q].status = "getting"
    /\ \/ /\ pool[p].idle > 0
          /\ pool' = [pool EXCEPT ![p].idle = @ - 1]
          /\ call' = [call EXCEPT ![q].status = "running"]
       \/ /\ pool[p].idle > 0
          /\ pool' = [pool EXCEPT ![p].idle = @ - 1, ![p].open = @ - 1]
          /\ UNCHANGED call
       \/ /\ pool[p].idle = 0 /\ pool[p].open < pool[p].max_size
          /\ pool' = [pool EXCEPT ![p].open = @ + 1]
          /\ call' = [call EXCEPT ![q].status = "running"]
    /\ UNCHANGED <<actors, waiters, readers>>

\* connection_timeout has passed.
timeout(q) ==
    /\ call[q].status = "getting"
    /\ Return(q, TRUE)
    /\ UNCHANGED <<actors, waiters, pool>>

\* The types each Rust type can be read from (FromSql::accepts; external).
Accepts == [bool |-> {"BOOL"}, i16 |-> {"INT2"}, i32 |-> {"INT4"}, i64 |-> {"INT8"},
            u32 |-> {"OID"}, f32 |-> {"FLOAT4"}, f64 |-> {"FLOAT8"},
            str |-> {"VARCHAR", "TEXT", "NAME", "UNKNOWN"}, bytes |-> {"BYTEA"},
            Uuid |-> {"UUID"}, NaiveDate |-> {"DATE"}, NaiveTime |-> {"TIME"},
            IpAddr |-> {"INET"}, BitVec |-> {"BIT", "VARBIT"}]

\* The Rust type encode_val asks a column of a type for.
RustType(ty) ==
    CASE ty = "BOOL" -> "bool"
      [] ty \in {"CHAR", "INT2"} -> "i16"
      [] ty = "INT4" -> "i32"
      [] ty \in {"INT8", "TIMESTAMP", "TIMESTAMPTZ"} -> "i64"
      [] ty = "OID" -> "u32"
      [] ty = "FLOAT4" -> "f32"
      [] ty = "FLOAT8" -> "f64"
      [] ty \in {"CHAR_ARRAY", "VARCHAR", "TEXT", "NAME", "UNKNOWN", "JSON", "XID", "CID",
                 "XML"} -> "str"
      [] ty = "UUID" -> "Uuid"
      [] ty = "DATE" -> "NaiveDate"
      [] ty = "TIME" -> "NaiveTime"
      [] ty = "INET" -> "IpAddr"
      [] ty \in {"BIT", "VARBIT"} -> "BitVec"
      [] OTHER -> "bytes"

\* row.get panics on NULL and on a column of a type it does not accept.
encode_val(col) == ~col.null /\ col.type \in Accepts[RustType(col.type)]

\* encode_rows, for a result set that is a set of columns.
encode_rows(rows) == \A col \in rows : encode_val(col)

\* What a call leaves behind: its connection goes back, or is closed if it is
\* broken, and then the read lock is released.
GiveBack(q, broken, answered) ==
    LET p == call[q].via IN
    /\ pool' = [pool EXCEPT ![p].idle = IF broken THEN @ ELSE @ + 1,
                            ![p].open = IF broken THEN @ - 1 ELSE @]
    /\ Return(q, answered)
    /\ UNCHANGED <<actors, waiters>>

MutPanicLeaks(q) ==
    /\ call[q].status = "running"
    /\ \/ \E broken \in BOOLEAN : GiveBack(q, broken, TRUE)
       \/ \E rows \in ResultSets \cup {{}} :
            IF encode_rows(rows) THEN GiveBack(q, FALSE, TRUE)
            ELSE Return(q, FALSE) /\ UNCHANGED <<actors, waiters, pool>>

MutPanicKeepsLock(q) ==
    /\ call[q].status = "running"
    /\ \/ \E broken \in BOOLEAN : GiveBack(q, broken, TRUE)
       \/ \E rows \in ResultSets \cup {{}} :
            IF encode_rows(rows) THEN GiveBack(q, FALSE, TRUE)
            ELSE /\ pool' = [pool EXCEPT ![call[q].via].idle = @ + 1]
                 /\ call' = [call EXCEPT ![q].status = "idle", ![q].answered = FALSE]
                 /\ UNCHANGED <<actors, waiters, readers>>

\* The statement ends, with an error or a result; execute has no rows.  Those
\* of query are encoded, which may panic: the unwinding drops connection and
\* guard as a return does.
conn_query(q) ==
    /\ call[q].status = "running"
    /\ \/ \E broken \in BOOLEAN : GiveBack(q, broken, TRUE)
       \/ \E rows \in ResultSets \cup {{}} : GiveBack(q, FALSE, encode_rows(rows))

\* bb8's reaper: an idle or old connection is closed, the reserve filled up.
Reap(p) ==
    /\ pool[p].stage = "linked"
    /\ \/ pool[p].idle > 0 /\ pool' = [pool EXCEPT ![p].idle = @ - 1, ![p].open = @ - 1]
       \/ /\ pool[p].idle < pool[p].min_idle /\ pool[p].open < pool[p].max_size
          /\ pool' = [pool EXCEPT ![p].idle = @ + 1, ![p].open = @ + 1]
    /\ UNCHANGED <<actors, waiters, readers, call>>

-----------------------------------------------------------------------------
Next ==
    \/ \E p \in Pools :
         \/ \E a \in Actors, v \in LinkValues : put_link(p, a, v)
         \/ create_pool(p) \/ insert(p) \/ ClosePool(p) \/ Reap(p)
    \/ \E a \in Actors : unlink("delete", a) \/ delete_link(a)
    \/ unlink("shutdown", None) \/ shutdown
    \/ \E q \in Calls :
         \/ \E a \in Actors : execute(q, a)
         \/ read(q) \/ get(q) \/ timeout(q) \/ conn_query(q)

\* The executor runs what can go on, pool.get has a time limit, the pool's
\* connections are made or not within theirs.  A statement has none: that it
\* ends is Postgres' part.
Fairness ==
    /\ \A p \in Pools : WF_vars(create_pool(p)) /\ WF_vars(insert(p)) /\ WF_vars(ClosePool(p))
    /\ \A a \in Actors : WF_vars(delete_link(a))
    /\ WF_vars(shutdown)
    /\ \A q \in Calls : WF_vars(read(q)) /\ WF_vars(timeout(q)) /\ WF_vars(conn_query(q))

Spec == Init /\ [][Next]_vars /\ Fairness

-----------------------------------------------------------------------------
(* Properties *)

\* Type invariant of the map, the lock and the pools.
TypeOK ==
    /\ actors \in [Actors -> Pools \cup {None}]
    /\ waiters \in Seq(Waiter)
    /\ readers \subseteq Calls
    /\ pool \in [Pools -> Pool]
    /\ call \in [Calls -> Call]

Running(p) == {q \in Calls : call[q].status = "running" /\ call[q].via = p}

\* Every connection is accounted for: a pool never has more than it was
\* configured with, each is idle or lent to exactly one running call whatever way
\* earlier calls ended, and a pool from which a call has, or waits for, a
\* connection is the one its actor is linked to now: it was not dropped by a
\* put_link, delete_link or shutdown meanwhile (main.rs 99-128 and 132-188).
ConnectionsAccounted ==
    /\ TypeOK
    /\ \A p \in Pools :
         /\ pool[p].open = pool[p].idle + Cardinality(Running(p))
         /\ pool[p].open <= pool[p].max_size
    /\ \A q \in Calls :
         call[q].status \in {"getting", "running"} => actors[call[q].actor] = call[q].via

\* Whoever waits for the map gets it, call or link handler: waiting for a
\* connection has an end, and no way a call ends, a panic included, keeps the
\* read lock.
WaitersServed ==
    /\ \A q \in Calls : call[q].status = "waiting" ~> call[q].status # "waiting"
    /\ \A p \in Pools : pool[p].stage = "queued" ~> pool[p].stage # "queued"

\* Refinement mapping: the pool is the resource of LinkResources.
phase == [p \in Pools |->
            CASE pool[p].stage = "unused" -> "unused"
              [] pool[p].stage \in {"creating", "queued"} -> "opening"
              [] pool[p].stage = "linked" -> "open"
              [] pool[p].stage = "dropped" -> "closing"
              [] pool[p].stage = "closed" -> "closed"]

Links == INSTANCE LinkResources WITH Resources <- Pools, NoResource <- None,
            current <- actors, owner <- [p \in Pools |-> pool[p].actor]

\* The provider implements LinkResources: a pool that is replaced or unlinked
\* is dropped, the one that is linked is not (main.rs 55-82).
LinksKept == Links!LSpec
=============================================================================
