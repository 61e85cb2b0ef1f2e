------------------------------ MODULE KvRedis ------------------------------
(***************************************************************************)
(* The Redis key-value provider (kvredis/src/main.rs): one connection per  *)
(* linked actor, behind a lock of its own, in a map behind a tokio RwLock. *)
(* put_link connects before it asks for the write lock; exec holds the     *)
(* read lock of the map AND the lock of the connection until Redis has     *)
(* answered, so that a link cannot change under a running command.         *)
(*                                                                         *)
(* External: tokio's RwLock serves its waiters in order and none for ever  *)
(* overtakes another; Redis executes a command as a whole or refuses it    *)
(* (wrong type, out of memory, integer overflow), forgets a key when its   *)
(* time has come, and the answer may be lost with the connection.          *)
(*                                                                         *)
(* The store is one key.  A list holds copies of one item, a set has at    *)
(* most one member.                                                        *)
(***************************************************************************)
EXTENDS Naturals, Sequences

CONSTANTS
    Actors,
    Conns,     \* bound: one per put_link call
    Calls,     \* requests at work at the same time
    MaxI32,    \* the largest i32, which increment answers with
    MaxI64,    \* the largest integer Redis counts to
    MaxLen,    \* items Redis has memory for
    None

ASSUME RedisAssumption ==
    /\ MaxI32 \in Nat /\ MaxI64 \in Nat /\ MaxI32 < MaxI64 /\ MaxLen \in Nat
    /\ None \notin Conns

VARIABLES
    actors,    \* the map: actor -> connection, or None
    waiters,   \* handlers waiting for the lock of the map, in order
    readers,   \* calls that hold the lock of the map for reading
    conn,      \* every connection, from its put_link call on
    call,      \* requests: where they are, for whom, on which connection
    value      \* what Redis holds under the key

vars == <<actors, waiters, readers, conn, call, value>>

Value == [kind : {"none", "number", "text", "list", "set"},
          n : 0..MaxI64 \cup 0..MaxLen, expires : BOOLEAN]
Conn == [stage : {"unused", "connecting", "queued", "linked", "closed"},
         actor : Actors \cup {None}]
Call == [status : {"idle", "waiting", "locking", "querying"},
         actor : Actors \cup {None}, via : Conns \cup {None}]
NoCall == [status |-> "idle", actor |-> None, via |-> None]
Waiter == [op : {"put", "delete", "shutdown", "read"},
           who : Conns \cup Actors \cup Calls \cup {None}]

Absent == [kind |-> "none", n |-> 0, expires |-> FALSE]

Init ==
    /\ actors = [a \in Actors |-> None]
    /\ waiters = <<>>
    /\ readers = {}
    /\ conn = [c \in Conns |-> [stage |-> "unused", actor |-> None]]
    /\ call = [q \in Calls |-> NoCall]
    /\ value = Absent

-----------------------------------------------------------------------------
(* The KeyValue methods: what their command leaves of a value v, and        *)
(* whether its answer converts to what the method returns.                  *)

Reply(v, ok) == [value |-> v, ok |-> ok]

\* INCR; the answer must fit an i32, what is stored need not.
increment(v) ==
    IF v.kind \in {"none", "number"} /\ v.n < MaxI64
    THEN Reply([v EXCEPT !.kind = "number", !.n = @ + 1], v.n + 1 <= MaxI32)
    ELSE Reply(v, FALSE)

contains(v) == Reply(v, TRUE)

\* DEL, also for list_clear and set_clear, whatever the key holds.
del(v) == Reply(Absent, TRUE)

get(v) == Reply(v, v.kind \in {"none", "number", "text"})

list_add(v) ==
    IF v.kind \in {"none", "list"} /\ v.n < MaxLen
    THEN Reply([v EXCEPT !.kind = "list", !.n = @ + 1], TRUE)
    ELSE Reply(v, FALSE)

\* LREM of one item; Redis drops an empty list.
list_del(v) ==
    CASE v.kind = "none" -> Reply(v, TRUE)
      [] v.kind = "list" -> Reply(IF v.n = 1 THEN Absent ELSE [v EXCEPT !.n = @ - 1], TRUE)
      [] OTHER -> Reply(v, FALSE)

list_range(v) == Reply(v, v.kind \in {"none", "list"})

MutSet(v, expires) ==
    Reply([kind |-> "text", n |-> 0, expires |-> expires], v.kind # "number")

\* SET, or SETEX if expires is not 0.
set(v, expires) == Reply([kind |-> "text", n |-> 0, expires |-> expires], TRUE)

set_add(v) ==
    IF v.kind \in {"none", "set"} THEN Reply([v EXCEPT !.kind = "set"], TRUE) ELSE Reply(v, FALSE)

set_del(v) ==
    IF v.kind \in {"none", "set"} THEN Reply(Absent, TRUE) ELSE Reply(v, FALSE)

\* SMEMBERS, SINTER and SUNION.
set_query(v) == Reply(v, v.kind \in {"none", "set"})

Replies == {increment(value), contains(value), del(value), get(value), list_add(value),
            list_del(value), list_range(value), set(value, TRUE), set(value, FALSE),
            set_add(value), set_del(value), set_query(value)}

-----------------------------------------------------------------------------
(* Link handlers.  None awaits anything under the write lock. *)

Wait(op, who) == waiters' = Append(waiters, [op |-> op, who |-> who])

Turn(op, who) ==
    /\ waiters # <<>> /\ Head(waiters) = [op |-> op, who |-> who]
    /\ waiters' = Tail(waiters)

\* The connections of the set C are dropped.
Closed(C) == [c \in Conns |->
                IF c \in C THEN [conn[c] EXCEPT !.stage = "closed"] ELSE conn[c]]

put_link(c, a) ==
    /\ conn[c].stage = "unused"
    /\ conn' = [conn EXCEPT ![c] = [stage |-> "connecting", actor |-> a]]
    /\ UNCHANGED <<actors, waiters, readers, call, value>>

\* Connected, or put_link only warns and answers Ok(true).
get_connection_manager(c) ==
    /\ conn[c].stage = "connecting"
    /\ \/ conn' = [conn EXCEPT ![c].stage = "queued"] /\ Wait("put", c)
       \/ conn' = [conn EXCEPT ![c].stage = "closed"] /\ UNCHANGED waiters
    /\ UNCHANGED <<actors, readers, call, value>>

insert(c) ==
    LET a == conn[c].actor IN
    /\ Turn("put", c) /\ readers = {}
    /\ actors' = [actors EXCEPT ![a] = c]
    /\ conn' = [Closed({actors[a]}) EXCEPT ![c].stage = "linked"]
    /\ UNCHANGED <<readers, call, value>>

\* The host sends delete_link for a link it has put, or shutdown.  Bound: one
\* of them waits at a time.
unlink(op, who) ==
    /\ \A i \in DOMAIN waiters : waiters[i].op \notin {"delete", "shutdown"}
    /\ \E c \in Conns : conn[c].stage # "unused" /\ (op = "delete" => conn[c].actor = who)
    /\ Wait(op, who)
    /\ UNCHANGED <<actors, readers, conn, call, value>>

delete_link(a) ==
    /\ Turn("delete", a) /\ readers = {}
    /\ actors' = [actors EXCEPT ![a] = None]
    /\ conn' = Closed({actors[a]})
    /\ UNCHANGED <<readers, call, value>>

shutdown ==
    /\ Turn("shutdown", None) /\ readers = {}
    /\ actors' = [a \in Actors |-> None]
    /\ conn' = Closed({actors[a] : a \in Actors})
    /\ UNCHANGED <<readers, call, value>>

-----------------------------------------------------------------------------
(* exec. *)

exec(q, a) ==
    /\ call[q].status = "idle"
    /\ call' = [call EXCEPT ![q] = [status |-> "waiting", actor |-> a, via |-> None]]
    /\ Wait("read", q)
    /\ UNCHANGED <<actors, readers, conn, value>>

\* What a call does with the read lock: find its connection, or give up.
Find(q, keep) ==
    LET c == actors[call[q].actor] IN
    /\ call' = [call EXCEPT ![q] = IF c = None THEN NoCall
                                  ELSE [@ EXCEPT !.via = c, !.status = "locking"]]
    /\ readers' = IF c = None \/ ~keep THEN readers ELSE readers \cup {q}
    /\ UNCHANGED <<actors, conn, value>>

MutReadLetsGo(q) == Turn("read", q) /\ Find(q, FALSE)

MutReadOvertakes(q) ==
    /\ \E i \in DOMAIN waiters :
         /\ waiters[i] = [op |-> "read", who |-> q]
         /\ waiters' = SubSeq(waiters, 1, i - 1) \o SubSeq(waiters, i + 1, Len(waiters))
    /\ Find(q, TRUE)

read(q) == Turn("read", q) /\ Find(q, TRUE)

\* The lock of the connection.
write(q) ==
    /\ call[q].status = "locking"
    /\ \A r \in Calls : call[r].status = "querying" => call[r].via # call[q].via
    /\ call' = [call EXCEPT ![q].status = "querying"]
    /\ UNCHANGED <<actors, waiters, readers, conn, value>>

\* A command is executed or refused and its answer converted, or the
\* connection breaks before or after; both locks are released.
query_async(q) ==
    /\ call[q].status = "querying"
    /\ value' \in {value} \cup {r.value : r \in Replies}
    /\ call' = [call EXCEPT ![q] = NoCall]
    /\ readers' = readers \ {q}
    /\ UNCHANGED <<actors, waiters, conn>>

Expire ==
    /\ value.expires
    /\ value' = Absent
    /\ UNCHANGED <<actors, waiters, readers, conn, call>>

-----------------------------------------------------------------------------
Next ==
    \/ \E c \in Conns : \/ \E a \in Actors : put_link(c, a)
                        \/ get_connection_manager(c) \/ insert(c)
    \/ \E a \in Actors : unlink("delete", a) \/ delete_link(a)
    \/ unlink("shutdown", None) \/ shutdown
    \/ \E q \in Calls : \/ \E a \in Actors : exec(q, a)
                        \/ read(q) \/ write(q) \/ query_async(q)
    \/ Expire

\* Connecting succeeds or fails and Redis answers or the connection breaks;
\* the locks are fair, so a call that finds its connection free again and
\* again gets it.  No call and no link has to come.
Fairness ==
    /\ \A c \in Conns : WF_vars(get_connection_manager(c)) /\ WF_vars(insert(c))
    /\ \A a \in Actors : WF_vars(delete_link(a))
    /\ WF_vars(shutdown)
    /\ \A q \in Calls : WF_vars(read(q)) /\ SF_vars(write(q)) /\ WF_vars(query_async(q))

Spec == Init /\ [][Next]_vars /\ Fairness

-----------------------------------------------------------------------------
(* Properties *)

\* Type invariant of the map, the locks, the connections and the key.
TypeOK ==
    /\ actors \in [Actors -> Conns \cup {None}]
    /\ waiters \in Seq(Waiter)
    /\ readers \subseteq Calls
    /\ conn \in [Conns -> Conn]
    /\ call \in [Calls -> Call]
    /\ value \in Value

\* A command runs on the connection its actor is linked with NOW: once
\* delete_link has returned or put_link has replaced the link, nothing the
\* actor asked for before goes out on the old connection.  And "the write lock
\* on the connection effectively serializes redis operations for all instances
\* of the same actor" (main.rs 321-322), also across a replaced link.
InUseIsLinked ==
    /\ TypeOK
    /\ \A q \in Calls : call[q].status \in {"locking", "querying"} =>
         /\ actors[call[q].actor] = call[q].via
         /\ conn[call[q].via] = [stage |-> "linked", actor |-> call[q].actor]
    /\ \A q, r \in Calls : q # r /\ call[q].status = "querying" /\ call[r].status = "querying"
                             => call[q].actor # call[r].actor

\* Calls wait for link handlers and these for calls, but nobody for ever: an
\* unbroken stream of calls does not keep put_link out, nor does one actor
\* keep out another.
WaitersServed ==
    /\ \A q \in Calls : call[q].status \in {"waiting", "locking"} ~> call[q].status = "idle"
    /\ \A c \in Conns : conn[c].stage = "queued" ~> conn[c].stage # "queued"

\* Whatever the calls before it have made of the key: a method that answers
\* with an error of Redis or of the conversion has left the key alone, so the
\* actor may try again, but for a counter that has left the range of
\* increment's i32 (and for a broken connection, where nobody can tell).
ErrorHasNoEffect ==
    \A r \in Replies : ~r.ok => \/ r.value = value
                                \/ r.value.kind = "number" /\ r.value.n > MaxI32
=============================================================================
