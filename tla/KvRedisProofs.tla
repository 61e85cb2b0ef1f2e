--------------------------- MODULE KvRedisProofs ---------------------------
(* For every number of actors, links and requests at work, and every limit  *)
(* of Redis: on which connection a command of KvRedis runs, and what a      *)
(* command that is refused leaves behind.                                   *)
EXTENDS KvRedis, SequenceTheorems, TLAPS

\* Who waits for the lock of the map, in whatever order.
Queue(s) == {s[i] : i \in DOMAIN s}

\* Nobody but delete_link and shutdown waits twice.
OnceIn(s) == \A i, j \in DOMAIN s : s[i] = s[j] /\ s[i].op \in {"put", "read"} => i = j

QueuedOnce == OnceIn(waiters)

\* The handlers that wait are those their connections and calls say are waiting.
WaiterAgrees(w) ==
    /\ w.op = "put" => w.who \in Conns /\ conn[w.who].stage = "queued"
    /\ w.op = "read" => w.who \in Calls /\ call[w.who].status = "waiting"

QueueAgrees == \A w \in Queue(waiters) : WaiterAgrees(w)

\* The connection an actor has in the map was made for it and is not closed.
MapAgrees ==
    \A a \in Actors : actors[a] # None => conn[actors[a]] = [stage |-> "linked", actor |-> a]

\* put_link knows its actor.
ActorsKnown ==
    \A c \in Conns : conn[c].stage \in {"connecting", "queued"} => conn[c].actor \in Actors

\* A call that has found its connection holds the lock of the map, and the
\* connection is still its actor's.
CallAgrees(q) ==
    /\ call[q].status = "waiting" => call[q].actor \in Actors
    /\ call[q].status \in {"locking", "querying"} =>
         /\ q \in readers /\ call[q].actor \in Actors
         /\ call[q].via # None /\ actors[call[q].actor] = call[q].via

CallsAgree == \A q \in Calls : CallAgrees(q)

\* The lock of a connection: one command at a time.
OneQuery ==
    \A q, r \in Calls : q # r /\ call[q].status = "querying" /\ call[r].status = "querying"
                          => call[q].via # call[r].via

\* Redis keeps no empty list.
ValueOK(v) == v \in Value /\ (v.kind = "list" => v.n > 0)

\* The inductive invariant.
IInv ==
    /\ TypeOK /\ ValueOK(value)
    /\ MapAgrees /\ ActorsKnown /\ CallsAgree /\ OneQuery /\ QueueAgrees /\ QueuedOnce

-----------------------------------------------------------------------------
(* The commands. *)

\* Whatever a command leaves is a value, and refusals leave what there was,
\* but for a counter that has left the range of an i32.
LEMMA ReplyFacts ==
    ASSUME ValueOK(value), NEW r \in Replies
    PROVE  /\ ValueOK(r.value)
           /\ ~r.ok => \/ r.value = value
                       \/ r.value.kind = "number" /\ r.value.n > MaxI32
  <1> DEFINE Good(x) == /\ ValueOK(x.value)
                        /\ ~x.ok => \/ x.value = value
                                    \/ x.value.kind = "number" /\ x.value.n > MaxI32
  <1>1. /\ value.n \in Nat /\ value.n \in 0..MaxI64 \cup 0..MaxLen
        /\ value.kind \in {"none", "number", "text", "list", "set"}
        /\ value.expires \in BOOLEAN
        /\ value = [kind |-> value.kind, n |-> value.n, expires |-> value.expires]
        /\ MaxI32 \in Nat /\ MaxI64 \in Nat /\ MaxLen \in Nat
    BY RedisAssumption DEF ValueOK, Value
  <1>2. ValueOK(Absent) /\ 0 \in 0..MaxI64
    BY <1>1 DEF Absent, ValueOK, Value
  <1>3. Good(increment(value))
    <2> DEFINE new == [value EXCEPT !.kind = "number", !.n = @ + 1]
    <2>1. CASE value.kind \in {"none", "number"} /\ value.n < MaxI64
      <3>1. value.n + 1 \in 0..MaxI64 /\ (value.n + 1 <= MaxI32 \/ value.n + 1 > MaxI32)
        BY <1>1, <2>1
      <3>2. /\ new \in Value /\ new.kind = "number" /\ new.n = value.n + 1
        BY <1>1, <3>1 DEF ValueOK, Value
      <3>3. increment(value) = Reply(new, value.n + 1 <= MaxI32)
        BY <2>1 DEF increment
      <3> HIDE DEF new
      <3>4. CASE value.n + 1 <= MaxI32
        <4>1. increment(value) = Reply(new, TRUE)
          BY <3>3, <3>4
        <4> QED BY <3>2, <4>1 DEF Reply, ValueOK
      <3>5. CASE value.n + 1 > MaxI32
        <4>1. increment(value).value = new
          BY <3>3 DEF Reply
        <4> QED BY <3>2, <3>5, <4>1 DEF ValueOK
      <3> QED BY <3>1, <3>4, <3>5
    <2>2. CASE ~(value.kind \in {"none", "number"} /\ value.n < MaxI64)
      BY <2>2 DEF increment, Reply
    <2> QED BY <2>1, <2>2
  <1>4. Good(contains(value)) /\ Good(get(value)) /\ Good(list_range(value))
          /\ Good(set_query(value))
    BY DEF contains, get, list_range, set_query, Reply
  <1>5. Good(del(value))
    BY <1>2 DEF del, Reply
  <1>6. Good(set(value, TRUE)) /\ Good(set(value, FALSE))
    BY <1>2 DEF set, Reply, ValueOK, Value
  <1>7. Good(list_add(value))
    <2> DEFINE new == [value EXCEPT !.kind = "list", !.n = @ + 1]
    <2>1. CASE value.kind \in {"none", "list"} /\ value.n < MaxLen
      <3>1. value.n + 1 \in 0..MaxLen /\ value.n + 1 > 0
        BY <1>1, <2>1
      <3>2. new \in Value /\ new.kind = "list" /\ new.n = value.n + 1
        BY <1>1, <3>1 DEF ValueOK, Value
      <3>3. ValueOK(new)
        BY <3>1, <3>2 DEF ValueOK
      <3> QED BY <2>1, <3>3 DEF list_add, Reply
    <2>2. CASE ~(value.kind \in {"none", "list"} /\ value.n < MaxLen)
      BY <2>2 DEF list_add, Reply
    <2> QED BY <2>1, <2>2
  <1>8. Good(list_del(value))
    <2> DEFINE new == IF value.n = 1 THEN Absent ELSE [value EXCEPT !.n = @ - 1]
    <2>1. CASE value.kind = "list"
      <3>1. value.n > 0
        BY <2>1 DEF ValueOK
      <3>2. CASE value.n = 1
        BY <1>2, <2>1, <3>2 DEF list_del, Reply
      <3>3. CASE value.n # 1
        <4>1. value.n - 1 \in 0..MaxI64 \cup 0..MaxLen /\ value.n - 1 > 0
          BY <1>1, <3>1, <3>3
        <4>2. new = [kind |-> "list", n |-> value.n - 1, expires |-> value.expires]
          BY <1>1, <2>1, <3>3
        <4>3. ValueOK(new)
          BY <1>1, <4>1, <4>2 DEF ValueOK, Value
        <4>4. list_del(value) = Reply(new, TRUE)
          BY <2>1 DEF list_del
        <4> HIDE DEF new
        <4> QED BY <4>3, <4>4 DEF Reply
      <3> QED BY <3>2, <3>3
    <2>2. CASE value.kind # "list"
      BY <2>2 DEF list_del, Reply
    <2> QED BY <2>1, <2>2
  <1>9. Good(set_add(value))
    <2> DEFINE new == [value EXCEPT !.kind = "set"]
    <2>1. new = [kind |-> "set", n |-> value.n, expires |-> value.expires]
      BY <1>1
    <2>2. ValueOK(new)
      BY <1>1, <2>1 DEF ValueOK, Value
    <2> QED BY <2>2 DEF set_add, Reply
  <1>10. Good(set_del(value))
    BY <1>2 DEF set_del, Reply
  <1>11. Good(r)
    <2> HIDE DEF Good
    <2> QED BY <1>3, <1>4, <1>5, <1>6, <1>7, <1>8, <1>9, <1>10 DEF Replies
  <1> QED BY <1>11

-----------------------------------------------------------------------------
(* The queue of the lock. *)

\* A handler joins at the end.
LEMMA Joins ==
    ASSUME NEW s \in Seq(Waiter), NEW w \in Waiter, OnceIn(s),
           w \notin Queue(s) \/ w.op \notin {"put", "read"}
    PROVE  /\ Append(s, w) \in Seq(Waiter) /\ OnceIn(Append(s, w))
           /\ Queue(Append(s, w)) \subseteq Queue(s) \cup {w}
  <1> DEFINE t == Append(s, w)
  <1>1. /\ t \in Seq(Waiter) /\ DOMAIN s = 1..Len(s) /\ DOMAIN t = 1..(Len(s) + 1)
        /\ Len(s) \in Nat
        /\ \A i \in 1..Len(s) : t[i] = s[i]
        /\ t[Len(s) + 1] = w
    BY AppendProperties, LenProperties
  <1>2. \A i \in DOMAIN t : i = Len(s) + 1 \/ i \in DOMAIN s
    BY <1>1
  <1> HIDE DEF t
  <1>3. OnceIn(t)
    BY <1>1, <1>2 DEF OnceIn, Queue
  <1>4. Queue(t) \subseteq Queue(s) \cup {w}
    BY <1>1, <1>2 DEF Queue
  <1> QED BY <1>1, <1>3, <1>4 DEF t

\* The first one gets the lock and is not among those that wait on.
LEMMA Leaves ==
    ASSUME NEW s \in Seq(Waiter), s # <<>>, OnceIn(s)
    PROVE  /\ Tail(s) \in Seq(Waiter) /\ OnceIn(Tail(s))
           /\ Head(s) \in Queue(s) /\ Queue(Tail(s)) \subseteq Queue(s)
           /\ Head(s).op \in {"put", "read"} => Head(s) \notin Queue(Tail(s))
  <1> DEFINE t == Tail(s)
  <1>1. /\ t \in Seq(Waiter) /\ DOMAIN s = 1..Len(s) /\ DOMAIN t = 1..(Len(s) - 1)
        /\ Len(s) \in Nat \ {0} /\ Len(t) \in Nat
        /\ \A i \in 1..(Len(s) - 1) : t[i] = s[i + 1]
        /\ Head(s) = s[1]
    BY HeadTailProperties, LenProperties, EmptySeq
  <1>2. 1 \in DOMAIN s /\ \A i \in DOMAIN t : i + 1 \in DOMAIN s /\ i + 1 # 1 /\ i \in Nat
    BY <1>1
  <1> HIDE DEF t
  <1>3. OnceIn(t)
    <2> SUFFICES ASSUME NEW i \in DOMAIN t, NEW j \in DOMAIN t, t[i] = t[j],
                        t[i].op \in {"put", "read"}
                 PROVE  i = j
      BY DEF OnceIn
    <2>1. s[i + 1] = s[j + 1] /\ s[i + 1].op \in {"put", "read"}
      BY <1>1
    <2>2. i + 1 = j + 1
      BY <1>2, <2>1 DEF OnceIn
    <2> QED BY <1>2, <2>2
  <1>4. Queue(t) \subseteq Queue(s) /\ Head(s) \in Queue(s)
    BY <1>1, <1>2 DEF Queue
  <1>5. Head(s).op \in {"put", "read"} => Head(s) \notin Queue(t)
    BY <1>1, <1>2 DEF Queue, OnceIn
  <1> QED BY <1>1, <1>3, <1>4, <1>5 DEF t

\* A handler's turn: it has been waiting, and it is not any more.
LEMMA TurnFacts ==
    ASSUME IInv, NEW op, NEW who, Turn(op, who)
    PROVE  /\ waiters' \in Seq(Waiter) /\ QueuedOnce'
           /\ WaiterAgrees([op |-> op, who |-> who])
           /\ \A w \in Queue(waiters') : WaiterAgrees(w)
           /\ op \in {"put", "read"} => [op |-> op, who |-> who] \notin Queue(waiters')
           /\ Queue(waiters') \subseteq Waiter
  <1> DEFINE h == [op |-> op, who |-> who]
  <1>1. /\ waiters \in Seq(Waiter) /\ OnceIn(waiters) /\ waiters # <<>>
        /\ waiters' = Tail(waiters) /\ Head(waiters) = h
    BY DEF IInv, TypeOK, QueuedOnce, Turn
  <1>2. /\ waiters' \in Seq(Waiter) /\ OnceIn(waiters')
        /\ h \in Queue(waiters) /\ Queue(waiters') \subseteq Queue(waiters)
        /\ h.op \in {"put", "read"} => h \notin Queue(waiters')
    BY <1>1, Leaves
  <1>3. Queue(waiters') \subseteq Waiter
    BY <1>2, LenProperties DEF Queue
  <1> QED BY <1>2, <1>3 DEF QueuedOnce, QueueAgrees, IInv

-----------------------------------------------------------------------------
(* The steps. *)

\* A provider that starts, with an empty map and an absent key.
LEMMA InitIInv == Init => IInv
  <1> SUFFICES ASSUME Init PROVE IInv
    OBVIOUS
  <1>1. waiters \in Seq(Waiter) /\ Queue(waiters) = {} /\ OnceIn(waiters)
    <2>1. waiters = <<>> /\ <<>> \in Seq(Waiter) /\ DOMAIN <<>> = {}
      BY EmptySeq DEF Init
    <2> QED BY <2>1 DEF Queue, OnceIn
  <1>2. ValueOK(value)
    BY RedisAssumption DEF Init, ValueOK, Value, Absent
  <1>3. TypeOK
    BY <1>1, <1>2 DEF Init, TypeOK, Conn, Call, NoCall, ValueOK
  <1>4. MapAgrees /\ ActorsKnown /\ CallsAgree /\ OneQuery
    BY DEF Init, NoCall, MapAgrees, ActorsKnown, CallsAgree, CallAgrees, OneQuery
  <1>5. QueueAgrees /\ QueuedOnce
    BY <1>1 DEF QueueAgrees, QueuedOnce
  <1> QED BY <1>2, <1>3, <1>4, <1>5 DEF IInv

\* What the map says of a connection.
LEMMA MapFacts ==
    ASSUME IInv, NEW a \in Actors, actors[a] # None
    PROVE  /\ actors[a] \in Conns
           /\ conn[actors[a]].stage = "linked" /\ conn[actors[a]].actor = a
  <1>1. conn[actors[a]] = [stage |-> "linked", actor |-> a]
    BY DEF IInv, MapAgrees
  <1>2. actors[a] \in Conns
    BY DEF IInv, TypeOK
  <1> QED BY <1>1, <1>2

\* A step of one call, to a state that agrees with the locks.
LEMMA CallStep ==
    ASSUME IInv, NEW q \in Calls, NEW r \in Call,
           call' = [call EXCEPT ![q] = r], conn' = conn, actors' = actors,
           readers' \subseteq Calls, \A p \in readers : p # q => p \in readers',
           r.status = "waiting" => r.actor \in Actors,
           r.status \in {"locking", "querying"} =>
             /\ q \in readers' /\ r.actor \in Actors /\ r.via # None
             /\ actors[r.actor] = r.via,
           r.status = "querying" =>
             \A p \in Calls : p # q /\ call[p].status = "querying" => call[p].via # r.via,
           waiters' \in Seq(Waiter), QueuedOnce', QueueAgrees', ValueOK(value')
    PROVE  IInv'
  <1>1. /\ call \in [Calls -> Call] /\ call' \in [Calls -> Call] /\ call'[q] = r
        /\ \A p \in Calls : p # q => call'[p] = call[p]
    BY DEF IInv, TypeOK
  <1>2. TypeOK'
    BY <1>1 DEF IInv, TypeOK, ValueOK
  <1>3. MapAgrees' /\ ActorsKnown'
    BY DEF IInv, MapAgrees, ActorsKnown
  <1>4. CallsAgree'
    <2> SUFFICES ASSUME NEW p \in Calls PROVE CallAgrees(p)'
      BY DEF CallsAgree
    <2>1. CASE p = q
      BY <1>1, <2>1 DEF CallAgrees
    <2>2. CASE p # q
      <3>1. CallAgrees(p) /\ call'[p] = call[p]
        BY <1>1, <2>2 DEF IInv, CallsAgree
      <3> QED BY <2>2, <3>1 DEF CallAgrees
    <2> QED BY <2>1, <2>2
  <1>5. OneQuery'
    BY <1>1 DEF IInv, OneQuery
  <1>6. ValueOK(value)'
    OBVIOUS
  <1> QED BY <1>2, <1>3, <1>4, <1>5, <1>6 DEF IInv

\* A step of put_link up to its insert: a connection nobody has yet.
LEMMA ConnStep ==
    ASSUME IInv, NEW c \in Conns, NEW r \in Conn,
           conn' = [conn EXCEPT ![c] = r],
           conn[c].stage \in {"unused", "connecting"},
           r.stage \in {"connecting", "queued"} => r.actor \in Actors,
           actors' = actors, readers' = readers, call' = call, value' = value,
           waiters' \in Seq(Waiter), QueuedOnce', QueueAgrees'
    PROVE  IInv'
  <1>1. /\ conn \in [Conns -> Conn] /\ conn' \in [Conns -> Conn] /\ conn'[c] = r
        /\ \A d \in Conns : d # c => conn'[d] = conn[d]
        /\ actors \in [Actors -> Conns \cup {None}]
    BY DEF IInv, TypeOK
  <1>2. TypeOK' /\ ValueOK(value)'
    BY <1>1 DEF IInv, TypeOK
  <1>3. MapAgrees'
    <2>1. \A a \in Actors : actors[a] # None => actors[a] \in Conns /\ actors[a] # c
      BY MapFacts
    <2> QED BY <1>1, <2>1 DEF IInv, MapAgrees
  <1>4. ActorsKnown'
    BY <1>1 DEF IInv, ActorsKnown
  <1>5. CallsAgree' /\ OneQuery'
    BY DEF IInv, CallsAgree, CallAgrees, OneQuery
  <1> QED BY <1>2, <1>3, <1>4, <1>5 DEF IInv

\* With the write lock nobody is using a connection, so any change of the map
\* that keeps it in agreement with the connections will do.
LEMMA WriteStep ==
    ASSUME IInv, readers = {}, readers' = readers, call' = call, value' = value,
           actors' \in [Actors -> Conns \cup {None}], conn' \in [Conns -> Conn],
           MapAgrees', ActorsKnown', waiters' \in Seq(Waiter), QueuedOnce', QueueAgrees'
    PROVE  IInv'
  <1>1. TypeOK' /\ ValueOK(value)' /\ OneQuery'
    BY DEF IInv, TypeOK, OneQuery
  <1>2. CallsAgree'
    BY DEF IInv, CallsAgree, CallAgrees
  <1> QED BY <1>1, <1>2 DEF IInv

\* insert: the connection replaced is closed and in nobody's hands.
LEMMA InsertStep ==
    ASSUME IInv, NEW c \in Conns, insert(c)
    PROVE  IInv'
  <1> DEFINE a == conn[c].actor
  <1> DEFINE old == actors[a]
  <1>1. /\ Turn("put", c) /\ readers = {} /\ actors' = [actors EXCEPT ![a] = c]
        /\ conn' = [Closed({old}) EXCEPT ![c].stage = "linked"]
        /\ readers' = readers /\ call' = call /\ value' = value
    BY DEF insert
  <1>2. /\ conn \in [Conns -> Conn] /\ actors \in [Actors -> Conns \cup {None}]
        /\ None \notin Conns
    BY RedisAssumption DEF IInv, TypeOK
  <1>3. /\ waiters' \in Seq(Waiter) /\ QueuedOnce' /\ conn[c].stage = "queued"
        /\ \A w \in Queue(waiters') : WaiterAgrees(w)
        /\ [op |-> "put", who |-> c] \notin Queue(waiters')
        /\ Queue(waiters') \subseteq Waiter
    BY <1>1, TurnFacts DEF WaiterAgrees
  <1>4. a \in Actors
    BY <1>3 DEF IInv, ActorsKnown
  <1>5. old # c /\ \A b \in Actors : actors[b] # c
    BY <1>2, <1>3, <1>4, MapFacts
  <1>6. /\ conn' \in [Conns -> Conn]
        /\ conn'[c] = [stage |-> "linked", actor |-> a]
        /\ old \in Conns => conn'[old].stage = "closed"
        /\ \A d \in Conns : d \notin {c, old} => conn'[d] = conn[d]
    <2> DEFINE closed == Closed({old})
    <2>1. /\ closed \in [Conns -> Conn] /\ closed[c] = conn[c]
          /\ old \in Conns => closed[old].stage = "closed"
          /\ \A d \in Conns : d # old => closed[d] = conn[d]
      BY <1>2, <1>5 DEF Closed, Conn
    <2>2. conn' = [closed EXCEPT ![c].stage = "linked"]
      BY <1>1
    <2> HIDE DEF closed, old
    <2> QED BY <1>2, <1>5, <2>1, <2>2 DEF Conn
  <1>7. /\ actors' \in [Actors -> Conns \cup {None}] /\ actors'[a] = c
        /\ \A b \in Actors : b # a => actors'[b] = actors[b]
    BY <1>1, <1>2, <1>4
  <1>8. MapAgrees'
    <2> SUFFICES ASSUME NEW b \in Actors, actors'[b] # None
                 PROVE  conn'[actors'[b]] = [stage |-> "linked", actor |-> b]
      BY DEF MapAgrees
    <2>1. CASE b = a
      BY <1>6, <1>7, <2>1
    <2>2. CASE b # a
      <3>1. actors'[b] = actors[b] /\ actors[b] \in Conns
        BY <1>2, <1>7, <2>2
      <3>2. conn[actors[b]] = [stage |-> "linked", actor |-> b]
        BY <3>1, <1>2 DEF IInv, MapAgrees
      <3>3. actors[b] # old
        BY <1>2, <1>4, <2>2, <3>1, MapFacts
      <3> QED BY <1>5, <1>6, <3>1, <3>2, <3>3
    <2> QED BY <2>1, <2>2
  <1>9. ActorsKnown'
    BY <1>6 DEF IInv, ActorsKnown
  <1>10. QueueAgrees'
    <2> SUFFICES ASSUME NEW w \in Queue(waiters') PROVE WaiterAgrees(w)'
      BY DEF QueueAgrees
    <2>1. WaiterAgrees(w) /\ w \in Waiter
      BY <1>3
    <2>2. CASE w.op = "put"
      <3>1. w.who \in Conns /\ conn[w.who].stage = "queued"
        BY <2>1, <2>2 DEF WaiterAgrees
      <3>2. w.who # c
        BY <1>3, <2>1, <2>2 DEF Waiter
      <3>3. w.who # old
        BY <1>2, <1>4, <3>1, MapFacts
      <3> QED BY <1>6, <2>2, <3>1, <3>2, <3>3 DEF WaiterAgrees
    <2>3. CASE w.op # "put"
      BY <1>1, <2>1, <2>3 DEF WaiterAgrees
    <2> QED BY <2>2, <2>3
  <1> QED BY <1>1, <1>3, <1>6, <1>7, <1>8, <1>9, <1>10, WriteStep

\* delete_link and shutdown: the connections taken out of the map are closed.
LEMMA ReleaseStep ==
    ASSUME IInv, NEW A \in SUBSET Actors, readers = {},
           NEW op \in {"delete", "shutdown"}, NEW who, Turn(op, who),
           actors' = [a \in Actors |-> IF a \in A THEN None ELSE actors[a]],
           conn' = Closed({actors[a] : a \in A}),
           readers' = readers, call' = call, value' = value
    PROVE  IInv'
  <1> DEFINE gone == {actors[a] : a \in A}
  <1>1. /\ conn \in [Conns -> Conn] /\ actors \in [Actors -> Conns \cup {None}]
        /\ None \notin Conns
    BY RedisAssumption DEF IInv, TypeOK
  <1>2. /\ waiters' \in Seq(Waiter) /\ QueuedOnce'
        /\ \A w \in Queue(waiters') : WaiterAgrees(w)
    BY TurnFacts
  <1>3. /\ conn' \in [Conns -> Conn]
        /\ \A c \in Conns : /\ c \in gone => conn'[c].stage = "closed"
                            /\ c \notin gone => conn'[c] = conn[c]
    BY <1>1 DEF Closed, Conn
  <1>4. actors' \in [Actors -> Conns \cup {None}]
    BY <1>1
  <1>5. \A c \in gone : c \in Conns => conn[c].stage = "linked"
    BY <1>1, MapFacts
  <1>6. MapAgrees'
    <2> SUFFICES ASSUME NEW b \in Actors, actors'[b] # None
                 PROVE  conn'[actors'[b]] = [stage |-> "linked", actor |-> b]
      BY DEF MapAgrees
    <2>1. b \notin A /\ actors'[b] = actors[b] /\ actors[b] \in Conns
      BY <1>1
    <2>2. conn[actors[b]] = [stage |-> "linked", actor |-> b]
      BY <2>1, <1>1 DEF IInv, MapAgrees
    <2>3. actors[b] \notin gone
      BY <1>1, <2>1, MapFacts
    <2> QED BY <1>3, <2>1, <2>2, <2>3
  <1>7. ActorsKnown'
    BY <1>3 DEF IInv, ActorsKnown
  <1>8. QueueAgrees'
    BY <1>2, <1>3, <1>5 DEF QueueAgrees, WaiterAgrees
  <1> QED BY <1>2, <1>3, <1>4, <1>6, <1>7, <1>8, WriteStep

\* Every handler, every step of a call and Redis itself keep the invariant.
LEMMA IInvStep == IInv /\ [Next]_vars => IInv'
  <1> SUFFICES ASSUME IInv, [Next]_vars PROVE IInv'
    OBVIOUS
  <1>1. /\ actors \in [Actors -> Conns \cup {None}] /\ waiters \in Seq(Waiter)
        /\ readers \subseteq Calls /\ conn \in [Conns -> Conn] /\ call \in [Calls -> Call]
        /\ None \notin Conns
    BY RedisAssumption DEF IInv, TypeOK
  <1>2. ValueOK(value) /\ OnceIn(waiters) /\ \A w \in Queue(waiters) : WaiterAgrees(w)
    BY DEF IInv, QueuedOnce, QueueAgrees
  <1>3. NoCall \in Call /\ NoCall.status = "idle"
    BY DEF NoCall, Call
  <1>4. ASSUME NEW op \in {"put", "delete", "shutdown", "read"},
               NEW who \in Conns \cup Actors \cup Calls \cup {None}, Wait(op, who),
               [op |-> op, who |-> who] \notin Queue(waiters) \/ op \notin {"put", "read"}
        PROVE  /\ waiters' \in Seq(Waiter) /\ QueuedOnce'
               /\ Queue(waiters') \subseteq Queue(waiters) \cup {[op |-> op, who |-> who]}
    <2> DEFINE w == [op |-> op, who |-> who]
    <2>1. w \in Waiter /\ w.op = op /\ waiters' = Append(waiters, w)
      BY <1>4 DEF Waiter, Wait
    <2>2. w \notin Queue(waiters) \/ w.op \notin {"put", "read"}
      BY <1>4, <2>1
    <2> HIDE DEF w
    <2>3. waiters' \in Seq(Waiter) /\ OnceIn(waiters')
            /\ Queue(waiters') \subseteq Queue(waiters) \cup {w}
      BY <1>1, <1>2, <2>1, <2>2, Joins
    <2> QED BY <2>3 DEF QueuedOnce, w
  <1>5. ASSUME NEW c \in Conns, NEW a \in Actors, put_link(c, a) PROVE IInv'
    <2> DEFINE r == [stage |-> "connecting", actor |-> a]
    <2>1. /\ r \in Conn /\ r.actor = a /\ conn' = [conn EXCEPT ![c] = r]
          /\ conn[c].stage = "unused"
          /\ actors' = actors /\ waiters' = waiters /\ readers' = readers
          /\ call' = call /\ value' = value
      BY <1>5 DEF put_link, Conn
    <2>2. QueuedOnce' /\ waiters' \in Seq(Waiter)
      BY <1>1, <1>2, <2>1 DEF QueuedOnce
    <2>3. QueueAgrees'
      <3>1. \A w \in Queue(waiters) : w.op = "put" => w.who \in Conns /\ w.who # c
        BY <1>2, <2>1 DEF WaiterAgrees
      <3>2. \A d \in Conns : d # c => conn'[d] = conn[d]
        BY <1>1, <2>1
      <3> HIDE DEF r
      <3> QED BY <1>2, <2>1, <3>1, <3>2 DEF QueueAgrees, WaiterAgrees
    <2> HIDE DEF r
    <2> QED BY <2>1, <2>2, <2>3, ConnStep
  <1>6. ASSUME NEW c \in Conns, get_connection_manager(c) PROVE IInv'
    <2>1. PICK stage \in {"queued", "closed"} :
             /\ conn' = [conn EXCEPT ![c].stage = stage]
             /\ stage = "queued" => Wait("put", c)
             /\ stage = "closed" => waiters' = waiters
      BY <1>6 DEF get_connection_manager
    <2>2. /\ conn[c].stage = "connecting" /\ conn[c].actor \in Actors
          /\ actors' = actors /\ readers' = readers /\ call' = call /\ value' = value
      BY <1>6 DEF get_connection_manager, IInv, ActorsKnown
    <2> DEFINE r == [conn[c] EXCEPT !.stage = stage]
    <2>3. /\ r \in Conn /\ r.stage = stage /\ r.actor = conn[c].actor
          /\ conn' = [conn EXCEPT ![c] = r]
      BY <1>1, <2>1 DEF Conn
    <2> HIDE DEF r
    <2>4. conn'[c] = r /\ \A d \in Conns : d # c => conn'[d] = conn[d]
      BY <1>1, <2>3
    <2>5. \A w \in Queue(waiters) : w.op = "put" => w.who \in Conns /\ w.who # c
      BY <1>2, <2>2 DEF WaiterAgrees
    <2>6. \A w \in Queue(waiters) : WaiterAgrees(w)'
      BY <1>2, <2>2, <2>4, <2>5 DEF WaiterAgrees
    <2>7. CASE stage = "closed"
      <3>1. waiters' = waiters
        BY <2>1, <2>7
      <3>2. waiters' \in Seq(Waiter) /\ QueuedOnce' /\ QueueAgrees'
        BY <1>1, <1>2, <2>6, <3>1 DEF QueuedOnce, QueueAgrees
      <3> QED BY <2>2, <2>3, <2>7, <3>2, ConnStep
    <2>8. CASE stage = "queued"
      <3> DEFINE w == [op |-> "put", who |-> c]
      <3>1. w \notin Queue(waiters)
        BY <2>5
      <3>2. /\ waiters' \in Seq(Waiter) /\ QueuedOnce'
            /\ Queue(waiters') \subseteq Queue(waiters) \cup {w}
        BY <1>4, <2>1, <2>8, <3>1
      <3>3. WaiterAgrees(w)'
        BY <2>3, <2>4, <2>8 DEF WaiterAgrees
      <3>4. QueueAgrees'
        BY <2>6, <3>2, <3>3 DEF QueueAgrees
      <3> QED BY <2>2, <2>3, <2>8, <3>2, <3>4, ConnStep
    <2> QED BY <2>7, <2>8
  <1>7. ASSUME NEW op \in {"delete", "shutdown"}, NEW who \in Actors \cup {None}, unlink(op, who)
        PROVE  IInv'
    <2>1. /\ Wait(op, who) /\ actors' = actors /\ readers' = readers /\ conn' = conn
          /\ call' = call /\ value' = value
      BY <1>7 DEF unlink
    <2>2. /\ waiters' \in Seq(Waiter) /\ QueuedOnce'
          /\ Queue(waiters') \subseteq Queue(waiters) \cup {[op |-> op, who |-> who]}
      BY <1>4, <2>1
    <2>3. QueueAgrees'
      BY <1>2, <2>1, <2>2 DEF QueueAgrees, WaiterAgrees
    <2>4. TypeOK' /\ ValueOK(value)'
      BY <1>1, <1>2, <2>1, <2>2 DEF IInv, TypeOK
    <2>5. MapAgrees' /\ ActorsKnown' /\ CallsAgree' /\ OneQuery'
      BY <2>1 DEF IInv, MapAgrees, ActorsKnown, CallsAgree, CallAgrees, OneQuery
    <2> QED BY <2>2, <2>3, <2>4, <2>5 DEF IInv
  <1>8. ASSUME NEW a \in Actors, delete_link(a) PROVE IInv'
    <2>1. actors' = [b \in Actors |-> IF b \in {a} THEN None ELSE actors[b]]
      BY <1>1, <1>8 DEF delete_link
    <2>2. conn' = Closed({actors[b] : b \in {a}})
      <3>1. {actors[a]} = {actors[b] : b \in {a}}
        OBVIOUS
      <3> QED BY <1>8, <3>1 DEF delete_link
    <2>3. Turn("delete", a) /\ readers = {} /\ readers' = readers /\ call' = call
            /\ value' = value /\ {a} \in SUBSET Actors
      BY <1>8 DEF delete_link
    <2> QED BY <2>1, <2>2, <2>3, ReleaseStep
  <1>9. CASE shutdown
    <2>1. actors' = [b \in Actors |-> IF b \in Actors THEN None ELSE actors[b]]
      BY <1>9 DEF shutdown
    <2>2. /\ conn' = Closed({actors[b] : b \in Actors}) /\ Turn("shutdown", None)
          /\ readers = {} /\ readers' = readers /\ call' = call /\ value' = value
          /\ Actors \in SUBSET Actors
      BY <1>9 DEF shutdown
    <2> QED BY <2>1, <2>2, ReleaseStep
  <1>10. ASSUME NEW q \in Calls, NEW a \in Actors, exec(q, a) PROVE IInv'
    <2> DEFINE r == [status |-> "waiting", actor |-> a, via |-> None]
    <2> DEFINE w == [op |-> "read", who |-> q]
    <2>1. /\ r \in Call /\ r.status = "waiting" /\ r.actor = a
          /\ call' = [call EXCEPT ![q] = r] /\ call[q].status = "idle" /\ Wait("read", q)
          /\ actors' = actors /\ readers' = readers /\ conn' = conn /\ value' = value
      BY <1>10 DEF exec, Call
    <2> HIDE DEF r
    <2>2. \A x \in Queue(waiters) : x.op = "read" => x.who \in Calls /\ x.who # q
      BY <1>2, <2>1 DEF WaiterAgrees
    <2>3. w \notin Queue(waiters)
      BY <2>2
    <2>4. /\ waiters' \in Seq(Waiter) /\ QueuedOnce'
          /\ Queue(waiters') \subseteq Queue(waiters) \cup {w}
      BY <1>4, <2>1, <2>3
    <2>5. call'[q] = r /\ \A p \in Calls : p # q => call'[p] = call[p]
      BY <1>1, <2>1
    <2>6. \A x \in Queue(waiters) : WaiterAgrees(x)'
      BY <1>2, <2>1, <2>2, <2>5 DEF WaiterAgrees
    <2>7. WaiterAgrees(w)'
      BY <2>1, <2>5 DEF WaiterAgrees
    <2>8. QueueAgrees'
      BY <2>4, <2>6, <2>7 DEF QueueAgrees
    <2> QED BY <1>1, <1>2, <2>1, <2>4, <2>8, CallStep
  <1>11. ASSUME NEW q \in Calls, read(q) PROVE IInv'
    <2> DEFINE c == actors[call[q].actor]
    <2> DEFINE r == IF c = None THEN NoCall ELSE [call[q] EXCEPT !.via = c, !.status = "locking"]
    <2>1. /\ call' = [call EXCEPT ![q] = r]
          /\ readers' = IF c = None THEN readers ELSE readers \cup {q}
          /\ actors' = actors /\ conn' = conn /\ value' = value /\ Turn("read", q)
      BY <1>11 DEF read, Find
    <2>2. /\ waiters' \in Seq(Waiter) /\ QueuedOnce' /\ call[q].status = "waiting"
          /\ \A w \in Queue(waiters') : WaiterAgrees(w)
          /\ [op |-> "read", who |-> q] \notin Queue(waiters')
          /\ Queue(waiters') \subseteq Waiter
      BY <2>1, TurnFacts DEF WaiterAgrees
    <2>3. call[q].actor \in Actors
      BY <2>2 DEF IInv, CallsAgree, CallAgrees
    <2>4. c \in Conns \cup {None}
      BY <1>1, <2>3
    <2>5. /\ r \in Call
          /\ c = None => r.status = "idle"
          /\ c # None => r.status = "locking" /\ r.actor = call[q].actor /\ r.via = c
      <3> HIDE DEF c
      <3>1. CASE c = None
        BY <1>3, <3>1
      <3>2. CASE c # None
        BY <1>1, <2>4, <3>2 DEF Call
      <3> QED BY <3>1, <3>2
    <2> HIDE DEF r
    <2>6. \A p \in Calls : p # q => call'[p] = call[p]
      BY <1>1, <2>1
    <2>7. QueueAgrees'
      <3>1. \A w \in Queue(waiters') : w.op = "read" => w.who # q
        BY <2>2 DEF Waiter
      <3> QED BY <2>1, <2>2, <2>6, <3>1 DEF QueueAgrees, WaiterAgrees
    <2>8. readers' \subseteq Calls /\ (c # None => q \in readers') /\ readers \subseteq readers'
      BY <1>1, <2>1
    <2> QED BY <1>2, <2>1, <2>2, <2>3, <2>5, <2>7, <2>8, CallStep
  <1>12. ASSUME NEW q \in Calls, call[q].status \in {"locking", "querying"}, NEW r \in Call,
                call' = [call EXCEPT ![q] = r], waiters' = waiters, conn' = conn
         PROVE  waiters' \in Seq(Waiter) /\ QueuedOnce' /\ QueueAgrees'
    <2>1. \A p \in Calls : p # q => call'[p] = call[p]
      BY <1>1, <1>12
    <2>2. \A w \in Queue(waiters) : w.op = "read" => w.who \in Calls /\ w.who # q
      BY <1>2, <1>12 DEF WaiterAgrees
    <2>3. QueueAgrees'
      BY <1>2, <1>12, <2>1, <2>2 DEF QueueAgrees, WaiterAgrees
    <2> QED BY <1>1, <1>2, <1>12, <2>3 DEF QueuedOnce
  <1>13. ASSUME NEW q \in Calls, write(q) PROVE IInv'
    <2> DEFINE r == [call[q] EXCEPT !.status = "querying"]
    <2>1. /\ call' = [call EXCEPT ![q] = r] /\ call[q].status = "locking"
          /\ actors' = actors /\ waiters' = waiters /\ readers' = readers /\ conn' = conn
          /\ value' = value
      BY <1>1, <1>13 DEF write, Call
    <2>2. /\ r \in Call /\ r.status = "querying" /\ r.actor = call[q].actor
          /\ r.via = call[q].via
      BY <1>1 DEF Call
    <2> HIDE DEF r
    <2>3. /\ q \in readers /\ r.actor \in Actors /\ r.via # None /\ actors[r.actor] = r.via
      BY <2>1, <2>2 DEF IInv, CallsAgree, CallAgrees
    <2>4. \A p \in Calls : p # q /\ call[p].status = "querying" => call[p].via # r.via
      BY <1>13, <2>2 DEF write
    <2>5. waiters' \in Seq(Waiter) /\ QueuedOnce' /\ QueueAgrees'
      BY <1>12, <2>1, <2>2
    <2>6. readers' \subseteq Calls /\ \A p \in readers : p # q => p \in readers'
      BY <1>1, <2>1
    <2>7. ValueOK(value')
      BY <1>2, <2>1
    <2> QED BY <2>1, <2>2, <2>3, <2>4, <2>5, <2>6, <2>7, CallStep
  <1>14. ASSUME NEW q \in Calls, query_async(q) PROVE IInv'
    <2>1. /\ call' = [call EXCEPT ![q] = NoCall] /\ call[q].status = "querying"
          /\ actors' = actors /\ waiters' = waiters /\ conn' = conn
          /\ readers' = readers \ {q}
      BY <1>14 DEF query_async
    <2>2. ValueOK(value')
      BY <1>2, <1>14, ReplyFacts DEF query_async
    <2>3. waiters' \in Seq(Waiter) /\ QueuedOnce' /\ QueueAgrees'
      BY <1>3, <1>12, <2>1
    <2>4. readers' \subseteq Calls /\ \A p \in readers : p # q => p \in readers'
      BY <1>1, <2>1
    <2> QED BY <1>3, <2>1, <2>2, <2>3, <2>4, CallStep
  <1>15. ASSUME ValueOK(value'), UNCHANGED <<actors, waiters, readers, conn, call>>
         PROVE  IInv'
    <2>1. TypeOK' /\ ValueOK(value)'
      BY <1>1, <1>15 DEF TypeOK, ValueOK
    <2>2. MapAgrees' /\ ActorsKnown' /\ CallsAgree' /\ OneQuery'
      BY <1>15 DEF IInv, MapAgrees, ActorsKnown, CallsAgree, CallAgrees, OneQuery
    <2>3. QueueAgrees' /\ QueuedOnce'
      BY <1>15 DEF IInv, QueueAgrees, WaiterAgrees, QueuedOnce
    <2> QED BY <2>1, <2>2, <2>3 DEF IInv
  <1>16. CASE Expire
    <2>1. ValueOK(Absent)
      BY RedisAssumption DEF Absent, ValueOK, Value
    <2> QED BY <1>15, <1>16, <2>1 DEF Expire
  <1>17. CASE UNCHANGED vars
    BY <1>2, <1>15, <1>17 DEF vars
  <1> QED BY <1>5, <1>6, <1>7, <1>8, <1>9, <1>10, <1>11, <1>13, <1>14, <1>16, <1>17, InsertStep
          DEF Next

\* The invariant holds throughout.
LEMMA Invariance == Spec => []IInv
  <1> QED BY InitIInv, IInvStep, PTL DEF Spec

\* A command runs on the connection its actor is linked with now, and no two
\* commands of one actor run at once, across replaced links too: for any number
\* of links, calls and handlers that wait for the lock.
THEOREM CommandsUseTheLinkedConnection == Spec => []InUseIsLinked
  <1>1. IInv => InUseIsLinked
    BY DEF IInv, InUseIsLinked, CallsAgree, CallAgrees, MapAgrees, OneQuery
  <1> QED BY Invariance, <1>1, PTL

\* A method that answers with an error of Redis or of the conversion has left
\* the key alone, but for a counter beyond the range of an i32: whatever was
\* made of the key before, and for every range of numbers and lengths.
THEOREM ErrorsHaveNoEffect == Spec => []ErrorHasNoEffect
  <1>1. IInv => ErrorHasNoEffect
    BY ReplyFacts DEF IInv, ErrorHasNoEffect
  <1> QED BY Invariance, <1>1, PTL
=============================================================================
