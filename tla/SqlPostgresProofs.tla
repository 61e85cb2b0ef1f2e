-------------------------- MODULE SqlPostgresProofs --------------------------
(* For every number of actors, links and calls at work, and every           *)
(* configuration: where the connections of SqlPostgres are, and that its    *)
(* pools are replaced and dropped as LinkResources says.                    *)
EXTENDS SqlPostgres, SequenceTheorems, FiniteSetTheorems, TLAPS

\* Who waits for the lock of the map, in whatever order.
Queue(s) == {s[i] : i \in DOMAIN s}

\* Nobody but delete_link and shutdown waits twice.
OnceIn(s) == \A i, j \in DOMAIN s : s[i] = s[j] /\ s[i].op \in {"put", "read"} => i = j

QueuedOnce == OnceIn(waiters)

\* The handlers that wait are those their pools and calls say are waiting.
WaiterAgrees(w) ==
    /\ w.op = "put" => w.who \in Pools /\ pool[w.who].stage = "queued"
    /\ w.op = "read" => w.who \in Calls /\ call[w.who].status = "waiting"

QueueAgrees == \A w \in Queue(waiters) : WaiterAgrees(w)

\* The pool an actor has in the map was made for it and is not dropped.
MapAgrees ==
    \A a \in Actors : actors[a] # None =>
        pool[actors[a]].stage = "linked" /\ pool[actors[a]].actor = a

\* A pool is somebody's from put_link on, and one that bb8 agrees to build has
\* room for its reserve.
PoolAgrees(p) ==
    /\ pool[p].stage # "unused" => pool[p].actor \in Actors
    /\ pool[p].stage = "creating" /\ pool[p].buildable => pool[p].min_idle <= pool[p].max_size

PoolsAgree == \A p \in Pools : PoolAgrees(p)

\* A call that has found its pool holds the lock of the map, and the pool is
\* still its actor's.
CallAgrees(q) ==
    /\ call[q].status = "waiting" => call[q].actor \in Actors
    /\ call[q].status \in {"getting", "running"} =>
         /\ q \in readers /\ call[q].actor \in Actors
         /\ call[q].via # None /\ actors[call[q].actor] = call[q].via

CallsAgree == \A q \in Calls : CallAgrees(q)

\* The connections of a pool are idle or with one running call each.
Counted(p) ==
    /\ pool[p].open = pool[p].idle + Cardinality(Running(p))
    /\ pool[p].open <= pool[p].max_size

Counts == \A p \in Pools : Counted(p)

\* The inductive invariant.
IInv ==
    /\ TypeOK /\ MapAgrees /\ PoolsAgree /\ CallsAgree /\ Counts
    /\ QueueAgrees /\ QueuedOnce

-----------------------------------------------------------------------------
(* The queue of the lock. *)

\* A handler joins at the end.
LEMMA Joins ==
    ASSUME NEW s \in Seq(Waiter), NEW w \in Waiter, OnceIn(s),
           w \notin Queue(s) \/ w.op \notin {"put", "read"}
    PROVE  /\ Append(s, w) \in Seq(Waiter) /\ OnceIn(Append(s, w))
           /\ Queue(Append(s, w)) \subseteq Queue(s) \cup {w}
  <1> DEFINE t == Append(s, w)
  <1>1. /\ t \in Seq(Waiter) /\ DOMAIN s = 1..Len(s) /\ DOMAIN t = 1..(Len(s) + 1)
        /\ Len(s) \in Nat
        /\ \A i \in 1..Len(s) : t[i] = s[i]
        /\ t[Len(s) + 1] = w
    BY AppendProperties, LenProperties
  <1>2. \A i \in DOMAIN t : i = Len(s) + 1 \/ i \in DOMAIN s
    BY <1>1
  <1> HIDE DEF t
  <1>3. OnceIn(t)
    BY <1>1, <1>2 DEF OnceIn, Queue
  <1>4. Queue(t) \subseteq Queue(s) \cup {w}
    BY <1>1, <1>2 DEF Queue
  <1> QED BY <1>1, <1>3, <1>4 DEF t

\* The first one gets the lock and is not among those that wait on.
LEMMA Leaves ==
    ASSUME NEW s \in Seq(Waiter), s # <<>>, OnceIn(s)
    PROVE  /\ Tail(s) \in Seq(Waiter) /\ OnceIn(Tail(s))
           /\ Head(s) \in Queue(s) /\ Queue(Tail(s)) \subseteq Queue(s)
           /\ Head(s).op \in {"put", "read"} => Head(s) \notin Queue(Tail(s))
  <1> DEFINE t == Tail(s)
  <1>1. /\ t \in Seq(Waiter) /\ DOMAIN s = 1..Len(s) /\ DOMAIN t = 1..(Len(s) - 1)
        /\ Len(s) \in Nat \ {0} /\ Len(t) \in Nat
        /\ \A i \in 1..(Len(s) - 1) : t[i] = s[i + 1]
        /\ Head(s) = s[1]
    BY HeadTailProperties, LenProperties, EmptySeq
  <1>2. 1 \in DOMAIN s /\ \A i \in DOMAIN t : i + 1 \in DOMAIN s /\ i + 1 # 1 /\ i \in Nat
    BY <1>1
  <1> HIDE DEF t
  <1>3. OnceIn(t)
    <2> SUFFICES ASSUME NEW i \in DOMAIN t, NEW j \in DOMAIN t, t[i] = t[j],
                        t[i].op \in {"put", "read"}
                 PROVE  i = j
      BY DEF OnceIn
    <2>1. s[i + 1] = s[j + 1] /\ s[i + 1].op \in {"put", "read"}
      BY <1>1
    <2>2. i + 1 = j + 1
      BY <1>2, <2>1 DEF OnceIn
    <2> QED BY <1>2, <2>2
  <1>4. Queue(t) \subseteq Queue(s) /\ Head(s) \in Queue(s)
    BY <1>1, <1>2 DEF Queue
  <1>5. Head(s).op \in {"put", "read"} => Head(s) \notin Queue(t)
    BY <1>1, <1>2 DEF Queue, OnceIn
  <1> QED BY <1>1, <1>3, <1>4, <1>5 DEF t

\* A handler's turn: it has been waiting, and it is not any more.
LEMMA TurnFacts ==
    ASSUME IInv, NEW op, NEW who, Turn(op, who)
    PROVE  /\ waiters' \in Seq(Waiter) /\ QueuedOnce'
           /\ WaiterAgrees([op |-> op, who |-> who])
           /\ \A w \in Queue(waiters') : WaiterAgrees(w)
           /\ op \in {"put", "read"} => [op |-> op, who |-> who] \notin Queue(waiters')
           /\ Queue(waiters') \subseteq Waiter
  <1> DEFINE h == [op |-> op, who |-> who]
  <1>1. /\ waiters \in Seq(Waiter) /\ OnceIn(waiters) /\ waiters # <<>>
        /\ waiters' = Tail(waiters) /\ Head(waiters) = h
    BY DEF IInv, TypeOK, QueuedOnce, Turn
  <1>2. /\ waiters' \in Seq(Waiter) /\ OnceIn(waiters')
        /\ h \in Queue(waiters) /\ Queue(waiters') \subseteq Queue(waiters)
        /\ h.op \in {"put", "read"} => h \notin Queue(waiters')
    BY <1>1, Leaves
  <1>3. Queue(waiters') \subseteq Waiter
    BY <1>2, LenProperties DEF Queue
  <1> QED BY <1>2, <1>3 DEF QueuedOnce, QueueAgrees, IInv

-----------------------------------------------------------------------------
(* The configuration, and who has a connection. *)

\* Every configuration that loads has limits.
LEMMA ConfigTypes ==
    ASSUME NEW v \in LinkValues, load_config(v) # None
    PROVE  load_config(v).max_connections \in Nat /\ load_config(v).min_idle \in Nat
  <1> DEFINE has(k) == k \in DOMAIN v
  <1> DEFINE bad(k) == has(k) /\ (~v[k].parses \/ "uri" \notin DOMAIN v[k].given)
  <1> DEFINE doc == IF has("config_json") THEN v["config_json"].given
                    ELSE IF has("config_b64") THEN v["config_b64"].given
                    ELSE [uri |-> ""]
  <1> DEFINE uri == IF has("uri") THEN v["uri"] ELSE doc.uri
  <1> DEFINE config == [f \in DOMAIN PoolDefaults \cup {"uri"} |->
                          IF f = "uri" THEN uri
                          ELSE IF f \in DOMAIN doc THEN doc[f] ELSE PoolDefaults[f]]
  <1>1. load_config(v) = config /\ ~bad("config_b64") /\ ~bad("config_json")
    BY DEF load_config
  <1>2. \A f \in DOMAIN PoolDefaults : f \in DOMAIN doc => doc[f] \in Nat
    <2>1. CASE has("config_json")
      BY <1>1, <2>1, PostgresAssumption
    <2>2. CASE ~has("config_json") /\ has("config_b64")
      BY <1>1, <2>2, PostgresAssumption
    <2>3. CASE ~has("config_json") /\ ~has("config_b64")
      BY <2>3 DEF PoolDefaults
    <2> QED BY <2>1, <2>2, <2>3
  <1>3. /\ {"max_connections", "min_idle"} \subseteq DOMAIN PoolDefaults
        /\ PoolDefaults["max_connections"] \in Nat /\ PoolDefaults["min_idle"] \in Nat
    BY DEF PoolDefaults
  <1> HIDE DEF doc, uri
  <1>4. config["max_connections"] \in Nat /\ config["min_idle"] \in Nat
    BY <1>2, <1>3
  <1> QED BY <1>1, <1>4

\* The calls that have a connection of a pool are finitely many.
LEMMA RunningFinite ==
    ASSUME NEW p
    PROVE  IsFiniteSet(Running(p)) /\ Cardinality(Running(p)) \in Nat
  <1>1. Running(p) \in SUBSET Calls /\ IsFiniteSet(Calls)
    BY PostgresAssumption DEF Running
  <1>2. IsFiniteSet(Running(p))
    BY <1>1, FS_Subset
  <1> QED BY <1>2, FS_CardinalityType

\* A pool that is in nobody's link has lent no connection.
LEMMA OnlyLinkedRuns ==
    ASSUME IInv, NEW p \in Pools, pool[p].stage # "linked"
    PROVE  Running(p) = {} /\ Cardinality(Running(p)) = 0
  <1>1. Running(p) = {}
    BY DEF IInv, Running, CallsAgree, CallAgrees, MapAgrees
  <1> QED BY <1>1, FS_EmptySet

\* A call gets a connection.
LEMMA RunStarts ==
    ASSUME NEW q \in Calls, NEW p, call \in [Calls -> Call], NEW r \in Call,
           call' = [call EXCEPT ![q] = r], call[q].status # "running",
           r.status = "running", r.via = p
    PROVE  /\ Cardinality(Running(p)') = Cardinality(Running(p)) + 1
           /\ \A o : o # p => Running(o)' = Running(o)
  <1>1. call'[q] = r /\ \A x \in Calls : x # q => call'[x] = call[x]
    OBVIOUS
  <1>2. Running(p)' = Running(p) \cup {q} /\ q \notin Running(p)
    BY <1>1 DEF Running
  <1>3. \A o : o # p => Running(o)' = Running(o)
    BY <1>1 DEF Running
  <1> QED BY <1>2, <1>3, RunningFinite, FS_AddElement

\* A call gives its connection back.
LEMMA RunEnds ==
    ASSUME NEW q \in Calls, NEW p, call \in [Calls -> Call], NEW r \in Call,
           call' = [call EXCEPT ![q] = r], call[q].status = "running",
           r.status # "running", call[q].via = p
    PROVE  /\ Cardinality(Running(p)) = Cardinality(Running(p)') + 1
           /\ Cardinality(Running(p)') \in Nat
           /\ \A o : o # p => Running(o)' = Running(o)
  <1>1. call'[q] = r /\ \A x \in Calls : x # q => call'[x] = call[x]
    OBVIOUS
  <1>2. Running(p) = Running(p)' \cup {q} /\ q \notin Running(p)'
    BY <1>1 DEF Running
  <1>3. \A o : o # p => Running(o)' = Running(o)
    BY <1>1 DEF Running
  <1>4. Running(p)' \in SUBSET Calls /\ IsFiniteSet(Calls)
    BY PostgresAssumption DEF Running
  <1>5. IsFiniteSet(Running(p)')
    BY <1>4, FS_Subset
  <1>6. Cardinality(Running(p)') \in Nat
    BY <1>5, FS_CardinalityType
  <1> QED BY <1>2, <1>3, <1>5, <1>6, FS_AddElement

\* Any other step of a call leaves the connections where they are.
LEMMA RunsOn ==
    ASSUME NEW q \in Calls, call \in [Calls -> Call], NEW r \in Call,
           call' = [call EXCEPT ![q] = r], call[q].status # "running",
           r.status # "running"
    PROVE  \A o : Running(o)' = Running(o)
  <1>1. call'[q] = r /\ \A x \in Calls : x # q => call'[x] = call[x]
    OBVIOUS
  <1> QED BY <1>1 DEF Running

-----------------------------------------------------------------------------
(* What insert, delete_link and shutdown do to the pools. *)

\* The pools of P are dropped, the others left alone.
DropEffect(P) ==
    /\ pool' \in [Pools -> Pool]
    /\ \A o \in Pools : /\ o \in P => pool'[o].stage = "dropped"
                        /\ o \notin P => pool'[o] = pool[o]
                        /\ pool'[o].actor = pool[o].actor
                        /\ pool'[o].open = pool[o].open /\ pool'[o].idle = pool[o].idle
                        /\ pool'[o].max_size = pool[o].max_size

LEMMA DroppedPools ==
    ASSUME NEW P, pool \in [Pools -> Pool], pool' = Dropped(P)
    PROVE  DropEffect(P)
  <1>1. \A o \in Pools : [pool[o] EXCEPT !.stage = "dropped"] \in Pool
    BY DEF Pool, Stages
  <1>2. pool' \in [Pools -> Pool]
    BY <1>1 DEF Dropped
  <1> QED BY <1>2 DEF DropEffect, Dropped, Pool

\* One is linked, the one it replaces dropped.
InsertEffect(p, old) ==
    /\ pool' \in [Pools -> Pool] /\ pool'[p].stage = "linked"
    /\ \A o \in Pools : /\ o # p /\ o = old => pool'[o].stage = "dropped"
                        /\ o \notin {p, old} => pool'[o] = pool[o]
                        /\ pool'[o].actor = pool[o].actor
                        /\ pool'[o].open = pool[o].open /\ pool'[o].idle = pool[o].idle
                        /\ pool'[o].max_size = pool[o].max_size

LEMMA InsertedPools ==
    ASSUME NEW p \in Pools, NEW old, pool \in [Pools -> Pool],
           pool' = [Dropped({old}) EXCEPT ![p].stage = "linked"]
    PROVE  InsertEffect(p, old)
  <1> DEFINE dropped == Dropped({old})
  <1>1. \A o \in Pools : [pool[o] EXCEPT !.stage = "dropped"] \in Pool
    BY DEF Pool, Stages
  <1>2. dropped \in [Pools -> Pool]
    BY <1>1 DEF Dropped
  <1>3. \A o \in Pools : /\ o = old => dropped[o].stage = "dropped"
                         /\ o # old => dropped[o] = pool[o]
                         /\ dropped[o].actor = pool[o].actor
                         /\ dropped[o].open = pool[o].open /\ dropped[o].idle = pool[o].idle
                         /\ dropped[o].max_size = pool[o].max_size
    BY DEF Dropped, Pool
  <1> DEFINE r == [dropped[p] EXCEPT !.stage = "linked"]
  <1>4. pool' = [dropped EXCEPT ![p] = r]
    OBVIOUS
  <1> HIDE DEF dropped
  <1>5. /\ r \in Pool /\ r.stage = "linked" /\ r.actor = dropped[p].actor
        /\ r.open = dropped[p].open /\ r.idle = dropped[p].idle
        /\ r.max_size = dropped[p].max_size
    BY <1>2 DEF Pool, Stages
  <1> HIDE DEF r
  <1>6. /\ pool' \in [Pools -> Pool] /\ pool'[p] = r
        /\ \A o \in Pools : o # p => pool'[o] = dropped[o]
    BY <1>2, <1>4, <1>5
  <1>7. ASSUME NEW o \in Pools
        PROVE  /\ o # p /\ o = old => pool'[o].stage = "dropped"
               /\ o \notin {p, old} => pool'[o] = pool[o]
               /\ pool'[o].actor = pool[o].actor
               /\ pool'[o].open = pool[o].open /\ pool'[o].idle = pool[o].idle
               /\ pool'[o].max_size = pool[o].max_size
    <2>1. CASE o = p
      BY <1>3, <1>5, <1>6, <2>1
    <2>2. CASE o # p
      BY <1>3, <1>6, <2>2
    <2> QED BY <2>1, <2>2
  <1> QED BY <1>5, <1>6, <1>7 DEF InsertEffect

-----------------------------------------------------------------------------
(* The steps. *)

\* A provider that starts, with an empty map.
LEMMA InitIInv == Init => IInv
  <1> SUFFICES ASSUME Init PROVE IInv
    OBVIOUS
  <1>1. waiters \in Seq(Waiter) /\ Queue(waiters) = {} /\ OnceIn(waiters)
    <2>1. waiters = <<>> /\ <<>> \in Seq(Waiter) /\ DOMAIN <<>> = {}
      BY EmptySeq DEF Init
    <2> QED BY <2>1 DEF Queue, OnceIn
  <1>2. TypeOK
    BY <1>1 DEF Init, TypeOK, Pool, Stages, Call, NewPool
  <1>3. MapAgrees /\ CallsAgree
    BY DEF Init, MapAgrees, CallsAgree, CallAgrees
  <1>4. PoolsAgree
    BY DEF Init, PoolsAgree, PoolAgrees, NewPool
  <1>5. Counts
    <2> SUFFICES ASSUME NEW p \in Pools PROVE Counted(p)
      BY DEF Counts
    <2>1. pool[p].open = 0 /\ pool[p].idle = 0 /\ pool[p].max_size = 0
      BY DEF Init, NewPool
    <2>2. Running(p) = {}
      BY DEF Init, Running
    <2> QED BY <2>1, <2>2, FS_EmptySet DEF Counted
  <1>6. QueueAgrees /\ QueuedOnce
    BY <1>1 DEF QueueAgrees, QueuedOnce
  <1> QED BY <1>2, <1>3, <1>4, <1>5, <1>6 DEF IInv

\* A step that changes one pool and no call.
LEMMA PoolStep ==
    ASSUME IInv, NEW p \in Pools, NEW r \in Pool, pool' = [pool EXCEPT ![p] = r],
           pool[p].stage = "linked" => r.stage = "linked" /\ r.actor = pool[p].actor,
           r.stage # "unused" => r.actor \in Actors,
           r.stage = "creating" /\ r.buildable => r.min_idle <= r.max_size,
           r.open = r.idle + Cardinality(Running(p)), r.open <= r.max_size,
           actors' = actors, readers' = readers, call' = call,
           waiters' \in Seq(Waiter), QueuedOnce', QueueAgrees'
    PROVE  IInv'
  <1>1. /\ pool \in [Pools -> Pool] /\ pool' \in [Pools -> Pool] /\ pool'[p] = r
        /\ \A o \in Pools : o # p => pool'[o] = pool[o]
        /\ actors \in [Actors -> Pools \cup {None}]
    BY DEF IInv, TypeOK
  <1>2. TypeOK'
    BY <1>1 DEF IInv, TypeOK
  <1>3. MapAgrees'
    BY <1>1 DEF IInv, MapAgrees
  <1>4. CallsAgree'
    BY DEF IInv, CallsAgree, CallAgrees
  <1>5. PoolsAgree'
    BY <1>1 DEF IInv, PoolsAgree, PoolAgrees
  <1>6. Counts'
    <2> SUFFICES ASSUME NEW o \in Pools PROVE Counted(o)'
      BY DEF Counts
    <2>1. Running(o)' = Running(o)
      BY DEF Running
    <2>2. CASE o = p
      BY <1>1, <2>1, <2>2 DEF Counted
    <2>3. CASE o # p
      BY <1>1, <2>1, <2>3 DEF IInv, Counts, Counted
    <2> QED BY <2>2, <2>3
  <1> QED BY <1>2, <1>3, <1>4, <1>5, <1>6 DEF IInv

\* A step of one call, which may get or give back a connection.
LEMMA CallStep ==
    ASSUME IInv, NEW q \in Calls, NEW r \in Call, call' = [call EXCEPT ![q] = r],
           actors' = actors, readers' \subseteq Calls,
           \A x \in readers : x # q => x \in readers',
           r.status = "waiting" => r.actor \in Actors,
           r.status \in {"getting", "running"} =>
             /\ q \in readers' /\ r.actor \in Actors /\ r.via # None
             /\ actors[r.actor] = r.via,
           pool' \in [Pools -> Pool],
           \A p \in Pools : /\ pool'[p].stage = pool[p].stage
                            /\ pool'[p].actor = pool[p].actor
                            /\ pool'[p].buildable = pool[p].buildable
                            /\ pool'[p].max_size = pool[p].max_size
                            /\ pool'[p].min_idle = pool[p].min_idle,
           Counts', waiters' \in Seq(Waiter), QueuedOnce', QueueAgrees'
    PROVE  IInv'
  <1>1. /\ call \in [Calls -> Call] /\ call' \in [Calls -> Call] /\ call'[q] = r
        /\ \A x \in Calls : x # q => call'[x] = call[x]
        /\ actors \in [Actors -> Pools \cup {None}]
    BY DEF IInv, TypeOK
  <1>2. TypeOK'
    BY <1>1 DEF IInv, TypeOK
  <1>3. MapAgrees'
    BY <1>1 DEF IInv, MapAgrees
  <1>4. PoolsAgree'
    BY DEF IInv, PoolsAgree, PoolAgrees
  <1>5. CallsAgree'
    <2> SUFFICES ASSUME NEW x \in Calls PROVE CallAgrees(x)'
      BY DEF CallsAgree
    <2>1. CASE x = q
      BY <1>1, <2>1 DEF CallAgrees
    <2>2. CASE x # q
      <3>1. CallAgrees(x) /\ call'[x] = call[x]
        BY <1>1, <2>2 DEF IInv, CallsAgree
      <3> QED BY <2>2, <3>1 DEF CallAgrees
    <2> QED BY <2>1, <2>2
  <1> QED BY <1>2, <1>3, <1>4, <1>5 DEF IInv

\* With the write lock nobody has a connection or waits for one, so any change
\* of the map that keeps it in agreement with the pools will do.
LEMMA WriteStep ==
    ASSUME IInv, readers = {}, readers' = readers, call' = call,
           actors' \in [Actors -> Pools \cup {None}], pool' \in [Pools -> Pool],
           \A p \in Pools : /\ pool'[p].actor = pool[p].actor
                            /\ pool'[p].open = pool[p].open /\ pool'[p].idle = pool[p].idle
                            /\ pool'[p].max_size = pool[p].max_size
                            /\ pool'[p].stage # pool[p].stage =>
                                 /\ pool'[p].stage # "creating"
                                 /\ pool[p].stage # "unused",
           \A p \in Pools : pool'[p].stage = pool[p].stage => pool'[p] = pool[p],
           MapAgrees', waiters' \in Seq(Waiter), QueuedOnce', QueueAgrees'
    PROVE  IInv'
  <1>1. TypeOK'
    BY DEF IInv, TypeOK
  <1>2. CallsAgree'
    BY DEF IInv, CallsAgree, CallAgrees
  <1>3. PoolsAgree'
    BY DEF IInv, PoolsAgree, PoolAgrees
  <1>4. Counts'
    <2>1. \A p \in Pools : Running(p)' = Running(p)
      BY DEF Running
    <2> QED BY <2>1 DEF IInv, Counts, Counted
  <1> QED BY <1>1, <1>2, <1>3, <1>4 DEF IInv

\* insert: the pool replaced is dropped and in nobody's hands.
LEMMA InsertStep ==
    ASSUME IInv, NEW p \in Pools, insert(p)
    PROVE  IInv'
  <1> DEFINE a == pool[p].actor
  <1> DEFINE old == actors[a]
  <1>1. /\ Turn("put", p) /\ readers = {} /\ actors' = [actors EXCEPT ![a] = p]
        /\ pool' = [Dropped({old}) EXCEPT ![p].stage = "linked"]
        /\ readers' = readers /\ call' = call
    BY DEF insert
  <1>2. /\ pool \in [Pools -> Pool] /\ actors \in [Actors -> Pools \cup {None}]
        /\ None \notin Pools
    BY PostgresAssumption DEF IInv, TypeOK
  <1>3. /\ waiters' \in Seq(Waiter) /\ QueuedOnce' /\ pool[p].stage = "queued"
        /\ \A w \in Queue(waiters') : WaiterAgrees(w)
        /\ [op |-> "put", who |-> p] \notin Queue(waiters')
        /\ Queue(waiters') \subseteq Waiter
    BY <1>1, TurnFacts DEF WaiterAgrees
  <1>4. a \in Actors
    BY <1>3 DEF IInv, PoolsAgree, PoolAgrees
  <1>5. old # p /\ \A b \in Actors : actors[b] # p
    BY <1>2, <1>3, <1>4 DEF IInv, MapAgrees
  <1>6. InsertEffect(p, old)
    BY <1>1, <1>2, <1>5, InsertedPools
  <1>7. /\ actors' \in [Actors -> Pools \cup {None}] /\ actors'[a] = p
        /\ \A b \in Actors : b # a => actors'[b] = actors[b]
    BY <1>1, <1>2, <1>4
  <1>8. MapAgrees'
    <2> SUFFICES ASSUME NEW b \in Actors, actors'[b] # None
                 PROVE  pool'[actors'[b]].stage = "linked" /\ pool'[actors'[b]].actor = b
      BY DEF MapAgrees
    <2>1. CASE b = a
      BY <1>6, <1>7, <2>1 DEF InsertEffect
    <2>2. CASE b # a
      <3>1. actors'[b] = actors[b] /\ actors[b] \in Pools
        BY <1>2, <1>7, <2>2
      <3>2. pool[actors[b]].stage = "linked" /\ pool[actors[b]].actor = b
        BY <3>1, <1>2 DEF IInv, MapAgrees
      <3>3. actors[b] # old
        BY <1>2, <1>4, <2>2, <3>1, <3>2 DEF IInv, MapAgrees
      <3> QED BY <1>5, <1>6, <3>1, <3>2, <3>3 DEF InsertEffect
    <2> QED BY <2>1, <2>2
  <1>9. QueueAgrees'
    <2> SUFFICES ASSUME NEW w \in Queue(waiters') PROVE WaiterAgrees(w)'
      BY DEF QueueAgrees
    <2>1. WaiterAgrees(w) /\ w \in Waiter
      BY <1>3
    <2>2. CASE w.op = "put"
      <3>1. w.who \in Pools /\ pool[w.who].stage = "queued"
        BY <2>1, <2>2 DEF WaiterAgrees
      <3>2. w.who # p
        BY <1>3, <2>1, <2>2 DEF Waiter
      <3>3. w.who # old
        BY <1>2, <1>4, <3>1 DEF IInv, MapAgrees
      <3> QED BY <1>6, <2>2, <3>1, <3>2, <3>3 DEF WaiterAgrees, InsertEffect
    <2>3. CASE w.op # "put"
      BY <1>1, <2>1, <2>3 DEF WaiterAgrees
    <2> QED BY <2>2, <2>3
  <1>10. old \in Pools => pool[old].stage = "linked"
    BY <1>2, <1>4 DEF IInv, MapAgrees
  <1> HIDE DEF old
  <1>11. \A o \in Pools : /\ pool'[o].stage # pool[o].stage =>
                               pool'[o].stage # "creating" /\ pool[o].stage # "unused"
                          /\ pool'[o].stage = pool[o].stage => pool'[o] = pool[o]
    BY <1>3, <1>6, <1>10 DEF InsertEffect
  <1> QED BY <1>1, <1>3, <1>6, <1>7, <1>8, <1>9, <1>11, WriteStep DEF InsertEffect

\* delete_link and shutdown: the pools taken out of the map are dropped.
LEMMA ReleaseStep ==
    ASSUME IInv, NEW A \in SUBSET Actors, readers = {},
           NEW op \in {"delete", "shutdown"}, NEW who, Turn(op, who),
           actors' = [a \in Actors |-> IF a \in A THEN None ELSE actors[a]],
           pool' = Dropped({actors[a] : a \in A}),
           readers' = readers, call' = call
    PROVE  IInv'
  <1> DEFINE gone == {actors[a] : a \in A}
  <1>1. /\ pool \in [Pools -> Pool] /\ actors \in [Actors -> Pools \cup {None}]
        /\ None \notin Pools
    BY PostgresAssumption DEF IInv, TypeOK
  <1>2. /\ waiters' \in Seq(Waiter) /\ QueuedOnce'
        /\ \A w \in Queue(waiters') : WaiterAgrees(w)
    BY TurnFacts
  <1> HIDE DEF gone
  <1>3. DropEffect(gone)
    BY <1>1, DroppedPools DEF gone
  <1>4. actors' \in [Actors -> Pools \cup {None}]
    BY <1>1
  <1>5. \A p \in gone : p \in Pools => pool[p].stage = "linked"
    BY <1>1 DEF IInv, MapAgrees, gone
  <1>6. MapAgrees'
    <2> SUFFICES ASSUME NEW b \in Actors, actors'[b] # None
                 PROVE  pool'[actors'[b]].stage = "linked" /\ pool'[actors'[b]].actor = b
      BY DEF MapAgrees
    <2>1. b \notin A /\ actors'[b] = actors[b] /\ actors[b] \in Pools
      BY <1>1
    <2>2. pool[actors[b]].stage = "linked" /\ pool[actors[b]].actor = b
      BY <2>1, <1>1 DEF IInv, MapAgrees
    <2>3. actors[b] \notin gone
      BY <1>1, <2>1, <2>2 DEF IInv, MapAgrees, gone
    <2> QED BY <1>3, <2>1, <2>2, <2>3 DEF DropEffect
  <1>7. QueueAgrees'
    BY <1>2, <1>3, <1>5 DEF QueueAgrees, WaiterAgrees, DropEffect
  <1>8. \A o \in Pools : /\ pool'[o].stage # pool[o].stage =>
                              pool'[o].stage # "creating" /\ pool[o].stage # "unused"
                         /\ pool'[o].stage = pool[o].stage => pool'[o] = pool[o]
    BY <1>3, <1>5 DEF DropEffect
  <1> QED BY <1>2, <1>3, <1>4, <1>6, <1>7, <1>8, WriteStep DEF DropEffect

\* A pool of which only the connections change.
LEMMA OnePoolCounts ==
    ASSUME IInv, NEW p \in Pools, NEW i \in Nat, NEW n \in Nat,
           pool' = [pool EXCEPT ![p] = [pool[p] EXCEPT !.idle = i, !.open = n]],
           n = i + Cardinality(Running(p)'), n <= pool[p].max_size,
           \A o : o # p => Running(o)' = Running(o)
    PROVE  /\ pool' \in [Pools -> Pool] /\ Counts'
           /\ \A o \in Pools : /\ pool'[o].stage = pool[o].stage
                               /\ pool'[o].actor = pool[o].actor
                               /\ pool'[o].buildable = pool[o].buildable
                               /\ pool'[o].max_size = pool[o].max_size
                               /\ pool'[o].min_idle = pool[o].min_idle
  <1> DEFINE r == [pool[p] EXCEPT !.idle = i, !.open = n]
  <1>1. pool \in [Pools -> Pool]
    BY DEF IInv, TypeOK
  <1>2. /\ r \in Pool /\ r.stage = pool[p].stage /\ r.actor = pool[p].actor
        /\ r.buildable = pool[p].buildable /\ r.max_size = pool[p].max_size
        /\ r.min_idle = pool[p].min_idle /\ r.idle = i /\ r.open = n
    BY <1>1 DEF Pool
  <1>3. pool' = [pool EXCEPT ![p] = r]
    OBVIOUS
  <1> HIDE DEF r
  <1>4. /\ pool' \in [Pools -> Pool] /\ pool'[p] = r
        /\ \A o \in Pools : o # p => pool'[o] = pool[o]
    BY <1>1, <1>2, <1>3
  <1>5. Counts'
    <2> SUFFICES ASSUME NEW o \in Pools PROVE Counted(o)'
      BY DEF Counts
    <2>1. CASE o = p
      BY <1>2, <1>4, <2>1 DEF Counted
    <2>2. CASE o # p
      <3>1. Counted(o) /\ Running(o)' = Running(o) /\ pool'[o] = pool[o]
        BY <1>4, <2>2 DEF IInv, Counts
      <3> QED BY <3>1 DEF Counted
    <2> QED BY <2>1, <2>2
  <1>6. \A o \in Pools : o = p \/ pool'[o] = pool[o]
    BY <1>4
  <1> QED BY <1>2, <1>4, <1>5, <1>6

\* The queue, when a call that is not in it goes on.
LEMMA QueueStays ==
    ASSUME IInv, NEW q \in Calls, NEW r \in Call, call[q].status # "waiting",
           call' = [call EXCEPT ![q] = r], waiters' = waiters,
           \A p \in Pools : pool'[p].stage = pool[p].stage
    PROVE  waiters' \in Seq(Waiter) /\ QueuedOnce' /\ QueueAgrees'
  <1>1. /\ call \in [Calls -> Call] /\ waiters \in Seq(Waiter) /\ OnceIn(waiters)
        /\ \A w \in Queue(waiters) : WaiterAgrees(w)
    BY DEF IInv, TypeOK, QueuedOnce, QueueAgrees
  <1>2. \A x \in Calls : x # q => call'[x] = call[x]
    BY <1>1
  <1>3. \A w \in Queue(waiters) : w.op = "read" => w.who \in Calls /\ w.who # q
    BY <1>1 DEF WaiterAgrees
  <1>4. QueueAgrees'
    BY <1>1, <1>2, <1>3 DEF QueueAgrees, WaiterAgrees
  <1> QED BY <1>1, <1>4 DEF QueuedOnce

\* Where a call finds its pool, and what it is told of it.
LEMMA InPool ==
    ASSUME IInv, NEW q \in Calls, call[q].status \in {"getting", "running"}
    PROVE  LET p == call[q].via IN
           /\ p \in Pools /\ q \in readers /\ call[q].actor \in Actors /\ p # None
           /\ actors[call[q].actor] = p /\ pool[p].stage = "linked"
           /\ pool[p].open \in Nat /\ pool[p].idle \in Nat /\ pool[p].max_size \in Nat
           /\ pool[p].min_idle \in Nat
           /\ pool[p].open = pool[p].idle + Cardinality(Running(p))
           /\ pool[p].open <= pool[p].max_size
           /\ Cardinality(Running(p)) \in Nat
  <1> DEFINE p == call[q].via
  <1>1. q \in readers /\ call[q].actor \in Actors /\ p # None /\ actors[call[q].actor] = p
    BY DEF IInv, CallsAgree, CallAgrees
  <1>2. p \in Pools /\ pool[p].stage = "linked"
    BY <1>1 DEF IInv, TypeOK, MapAgrees
  <1>3. /\ pool[p].open \in Nat /\ pool[p].idle \in Nat /\ pool[p].max_size \in Nat
        /\ pool[p].min_idle \in Nat
    BY <1>2 DEF IInv, TypeOK, Pool
  <1>4. Counted(p)
    BY <1>2 DEF IInv, Counts
  <1> QED BY <1>1, <1>2, <1>3, <1>4, RunningFinite DEF Counted

\* pool.get.
LEMMA GetStep ==
    ASSUME IInv, NEW q \in Calls, get(q)
    PROVE  IInv'
  <1>1. /\ call[q].status = "getting" /\ actors' = actors /\ waiters' = waiters
        /\ readers' = readers
    BY DEF get
  <1>2. PICK p \in Pools :
        /\ p = call[q].via /\ q \in readers /\ call[q].actor \in Actors /\ p # None
        /\ actors[call[q].actor] = p
        /\ pool[p].open \in Nat /\ pool[p].idle \in Nat /\ pool[p].max_size \in Nat
        /\ pool[p].open = pool[p].idle + Cardinality(Running(p))
        /\ pool[p].open <= pool[p].max_size
        /\ Cardinality(Running(p)) \in Nat
    BY <1>1, InPool
  <1>3. /\ call \in [Calls -> Call] /\ readers \subseteq Calls /\ pool \in [Pools -> Pool]
    BY DEF IInv, TypeOK
  <1> DEFINE r == [call[q] EXCEPT !.status = "running"]
  <1>4. /\ r \in Call /\ r.status = "running" /\ r.via = p /\ r.actor = call[q].actor
    BY <1>2, <1>3 DEF Call
  <1> DEFINE change(i, n) == pool' = [pool EXCEPT ![p] = [pool[p] EXCEPT !.idle = i, !.open = n]]
  <1>5. \/ /\ pool[p].idle > 0 /\ change(pool[p].idle - 1, pool[p].open)
           /\ call' = [call EXCEPT ![q] = r]
        \/ /\ pool[p].idle > 0 /\ change(pool[p].idle - 1, pool[p].open - 1)
           /\ call' = call
        \/ /\ pool[p].open < pool[p].max_size
           /\ change(pool[p].idle, pool[p].open + 1)
           /\ call' = [call EXCEPT ![q] = r]
    <2>1. CASE /\ pool[p].idle > 0
               /\ pool' = [pool EXCEPT ![p].idle = @ - 1]
               /\ call' = [call EXCEPT ![q].status = "running"]
      <3>1. change(pool[p].idle - 1, pool[p].open)
        BY <1>2, <1>3, <2>1 DEF Pool
      <3> QED BY <2>1, <3>1
    <2>2. CASE /\ pool[p].idle > 0
               /\ pool' = [pool EXCEPT ![p].idle = @ - 1, ![p].open = @ - 1]
               /\ UNCHANGED call
      <3>1. change(pool[p].idle - 1, pool[p].open - 1)
        BY <1>2, <1>3, <2>2 DEF Pool
      <3> QED BY <2>2, <3>1
    <2>3. CASE /\ pool[p].idle = 0 /\ pool[p].open < pool[p].max_size
               /\ pool' = [pool EXCEPT ![p].open = @ + 1]
               /\ call' = [call EXCEPT ![q].status = "running"]
      <3>1. change(pool[p].idle, pool[p].open + 1)
        BY <1>2, <1>3, <2>3 DEF Pool
      <3> QED BY <2>3, <3>1
    <2> QED BY <1>2, <2>1, <2>2, <2>3 DEF get
  <1>6. ASSUME NEW i \in Nat, NEW n \in Nat, change(i, n), call' = [call EXCEPT ![q] = r],
               n = i + Cardinality(Running(p)) + 1, n <= pool[p].max_size
        PROVE  IInv'
    <2> HIDE DEF r
    <2>1. /\ Cardinality(Running(p)') = Cardinality(Running(p)) + 1
          /\ \A o : o # p => Running(o)' = Running(o)
      BY <1>1, <1>3, <1>4, <1>6, RunStarts
    <2>2. n = i + Cardinality(Running(p)')
      BY <1>2, <1>6, <2>1
    <2>3. /\ pool' \in [Pools -> Pool] /\ Counts'
          /\ \A o \in Pools : /\ pool'[o].stage = pool[o].stage
                              /\ pool'[o].actor = pool[o].actor
                              /\ pool'[o].buildable = pool[o].buildable
                              /\ pool'[o].max_size = pool[o].max_size
                              /\ pool'[o].min_idle = pool[o].min_idle
      BY <1>2, <1>6, <2>1, <2>2, OnePoolCounts
    <2>4. waiters' \in Seq(Waiter) /\ QueuedOnce' /\ QueueAgrees'
      BY <1>1, <1>4, <1>6, <2>3, QueueStays
    <2> QED BY <1>1, <1>2, <1>3, <1>4, <1>6, <2>3, <2>4, CallStep
  <1>7. CASE /\ pool[p].idle > 0 /\ change(pool[p].idle - 1, pool[p].open - 1)
             /\ call' = call
    <2> DEFINE s == [pool[p] EXCEPT !.idle = pool[p].idle - 1, !.open = pool[p].open - 1]
    <2>1. /\ pool[p].idle - 1 \in Nat /\ pool[p].open - 1 \in Nat
          /\ pool[p].open - 1 = (pool[p].idle - 1) + Cardinality(Running(p))
          /\ pool[p].open - 1 <= pool[p].max_size
      BY <1>2, <1>7
    <2>2. /\ s \in Pool /\ s.stage = pool[p].stage /\ s.actor = pool[p].actor
          /\ s.idle = pool[p].idle - 1 /\ s.open = pool[p].open - 1
          /\ s.max_size = pool[p].max_size
      BY <1>2, <1>3, <2>1 DEF Pool
    <2>3. pool[p].stage = "linked"
      BY <1>1, <1>2, InPool
    <2>4. pool' = [pool EXCEPT ![p] = s]
      BY <1>7
    <2>5. pool[p].actor \in Actors
      BY <1>2, <2>3 DEF IInv, PoolsAgree, PoolAgrees
    <2> HIDE DEF s
    <2>6. \A o \in Pools : pool'[o].stage = pool[o].stage
      BY <1>2, <1>3, <2>2, <2>4
    <2>7. waiters' \in Seq(Waiter) /\ QueuedOnce' /\ QueueAgrees'
      BY <1>1, <1>7, <2>6 DEF IInv, TypeOK, QueuedOnce, QueueAgrees, WaiterAgrees
    <2>8. /\ s.open = s.idle + Cardinality(Running(p)) /\ s.open <= s.max_size
          /\ s.stage = "linked" /\ s.actor \in Actors /\ call' = call
      BY <1>7, <2>1, <2>2, <2>3, <2>5
    <2> QED BY <1>1, <2>2, <2>4, <2>7, <2>8, PoolStep
  <1>8. CASE /\ pool[p].idle > 0 /\ change(pool[p].idle - 1, pool[p].open)
             /\ call' = [call EXCEPT ![q] = r]
    <2>1. /\ pool[p].idle - 1 \in Nat
          /\ pool[p].open = (pool[p].idle - 1) + Cardinality(Running(p)) + 1
      BY <1>2, <1>8
    <2> QED BY <1>2, <1>6, <1>8, <2>1
  <1>9. CASE /\ pool[p].open < pool[p].max_size
             /\ change(pool[p].idle, pool[p].open + 1)
             /\ call' = [call EXCEPT ![q] = r]
    <2>1. /\ pool[p].open + 1 \in Nat /\ pool[p].open + 1 <= pool[p].max_size
          /\ pool[p].open + 1 = pool[p].idle + Cardinality(Running(p)) + 1
      BY <1>2, <1>9
    <2> QED BY <1>2, <1>6, <1>9, <2>1
  <1> QED BY <1>5, <1>7, <1>8, <1>9

\* The end of a call with a connection.
LEMMA BackStep ==
    ASSUME IInv, NEW q \in Calls, NEW broken \in BOOLEAN, NEW answered \in BOOLEAN,
           call[q].status = "running", GiveBack(q, broken, answered)
    PROVE  IInv'
  <1> DEFINE r == [status |-> "idle", actor |-> None, via |-> None, answered |-> answered]
  <1>1. /\ call' = [call EXCEPT ![q] = r] /\ readers' = readers \ {q}
        /\ actors' = actors /\ waiters' = waiters
    BY DEF GiveBack, Return
  <1>2. PICK p \in Pools :
        /\ p = call[q].via
        /\ pool[p].open \in Nat /\ pool[p].idle \in Nat /\ pool[p].max_size \in Nat
        /\ pool[p].open = pool[p].idle + Cardinality(Running(p))
        /\ pool[p].open <= pool[p].max_size
        /\ Cardinality(Running(p)) \in Nat
    BY InPool
  <1> DEFINE i == IF broken THEN pool[p].idle ELSE pool[p].idle + 1
  <1> DEFINE n == IF broken THEN pool[p].open - 1 ELSE pool[p].open
  <1>3. /\ call \in [Calls -> Call] /\ readers \subseteq Calls /\ pool \in [Pools -> Pool]
    BY DEF IInv, TypeOK
  <1>4. r \in Call /\ r.status = "idle"
    BY DEF Call
  <1>5. pool' = [pool EXCEPT ![p] = [pool[p] EXCEPT !.idle = i, !.open = n]]
    <2>1. pool' = [pool EXCEPT ![p].idle = IF broken THEN @ ELSE @ + 1,
                               ![p].open = IF broken THEN @ - 1 ELSE @]
      BY <1>2 DEF GiveBack
    <2> QED BY <1>2, <1>3, <2>1 DEF Pool
  <1> HIDE DEF r
  <1>6. /\ Cardinality(Running(p)) = Cardinality(Running(p)') + 1
        /\ Cardinality(Running(p)') \in Nat
        /\ \A o : o # p => Running(o)' = Running(o)
    BY <1>1, <1>2, <1>3, <1>4, RunEnds
  <1>7. i \in Nat /\ n \in Nat /\ n = i + Cardinality(Running(p)') /\ n <= pool[p].max_size
    <2>1. CASE broken
      BY <1>2, <1>6, <2>1
    <2>2. CASE ~broken
      BY <1>2, <1>6, <2>2
    <2> QED BY <2>1, <2>2
  <1> HIDE DEF i, n
  <1>8. /\ pool' \in [Pools -> Pool] /\ Counts'
        /\ \A o \in Pools : /\ pool'[o].stage = pool[o].stage
                            /\ pool'[o].actor = pool[o].actor
                            /\ pool'[o].buildable = pool[o].buildable
                            /\ pool'[o].max_size = pool[o].max_size
                            /\ pool'[o].min_idle = pool[o].min_idle
    BY <1>2, <1>5, <1>6, <1>7, OnePoolCounts
  <1>9. waiters' \in Seq(Waiter) /\ QueuedOnce' /\ QueueAgrees'
    BY <1>1, <1>4, <1>8, QueueStays
  <1> QED BY <1>1, <1>3, <1>4, <1>8, <1>9, CallStep

\* put_link up to its insert, the end of a dropped pool, and bb8's reaper: the
\* connections of a pool, of which none is lent unless it is linked.
LEMMA PoolActionStep ==
    ASSUME IInv, NEW p \in Pools,
           \/ \E a \in Actors, v \in LinkValues : put_link(p, a, v)
           \/ create_pool(p) \/ ClosePool(p) \/ Reap(p)
    PROVE  IInv'
  <1>1. /\ actors \in [Actors -> Pools \cup {None}] /\ waiters \in Seq(Waiter)
        /\ pool \in [Pools -> Pool] /\ OnceIn(waiters)
        /\ \A w \in Queue(waiters) : WaiterAgrees(w)
    BY DEF IInv, TypeOK, QueuedOnce, QueueAgrees
  <1>2. /\ pool[p] \in Pool /\ pool[p].open \in Nat /\ pool[p].idle \in Nat
        /\ pool[p].max_size \in Nat /\ pool[p].min_idle \in Nat
    BY <1>1 DEF Pool
  <1>3. /\ pool[p].open = pool[p].idle + Cardinality(Running(p))
        /\ pool[p].open <= pool[p].max_size /\ Cardinality(Running(p)) \in Nat
    BY RunningFinite DEF IInv, Counts, Counted
  <1>4. ASSUME NEW r \in Pool, pool' = [pool EXCEPT ![p] = r], call' = call, waiters' = waiters,
               pool[p].stage # "queued"
        PROVE  waiters' \in Seq(Waiter) /\ QueuedOnce' /\ QueueAgrees'
    <2>1. \A o \in Pools : o # p => pool'[o] = pool[o]
      BY <1>1, <1>4
    <2>2. \A w \in Queue(waiters) : w.op = "put" => w.who \in Pools /\ w.who # p
      BY <1>1, <1>4 DEF WaiterAgrees
    <2>3. QueueAgrees'
      BY <1>1, <1>4, <2>1, <2>2 DEF QueueAgrees, WaiterAgrees
    <2> QED BY <1>1, <1>4, <2>3 DEF QueuedOnce
  <1>5. ASSUME NEW stage \in Stages, NEW a \in Actors \cup {None}, NEW b \in BOOLEAN,
               NEW max \in Nat, NEW min \in Nat
        PROVE  /\ NewPool(stage, a, b, max, min) \in Pool
               /\ NewPool(stage, a, b, max, min).stage = stage
               /\ NewPool(stage, a, b, max, min).actor = a
               /\ NewPool(stage, a, b, max, min).buildable = b
               /\ NewPool(stage, a, b, max, min).max_size = max
               /\ NewPool(stage, a, b, max, min).min_idle = min
               /\ NewPool(stage, a, b, max, min).open = 0
               /\ NewPool(stage, a, b, max, min).idle = 0
    BY DEF NewPool, Pool
  <1>6. ASSUME NEW a \in Actors, NEW v \in LinkValues, put_link(p, a, v) PROVE IInv'
    <2> DEFINE config == load_config(v)
    <2> DEFINE r == IF config = None THEN NewPool("closed", a, FALSE, 0, 0)
                    ELSE NewPool("creating", a, buildable(config), config.max_connections,
                                 config.min_idle)
    <2>1. /\ pool[p].stage = "unused" /\ pool' = [pool EXCEPT ![p] = r]
          /\ actors' = actors /\ waiters' = waiters /\ readers' = readers /\ call' = call
      BY <1>6 DEF put_link
    <2>2. /\ r \in Pool /\ r.stage \in {"closed", "creating"} /\ r.actor = a
          /\ r.open = 0 /\ r.idle = 0 /\ r.max_size \in Nat
          /\ r.stage = "creating" /\ r.buildable => r.min_idle <= r.max_size
      <3> HIDE DEF config
      <3>1. CASE config = None
        <4>1. r = NewPool("closed", a, FALSE, 0, 0)
          BY <3>1
        <4> HIDE DEF r
        <4> QED BY <4>1 DEF NewPool, Pool, Stages
      <3>2. CASE config # None
        <4>1. r = NewPool("creating", a, buildable(config), config.max_connections,
                          config.min_idle)
          BY <3>2
        <4>2. config.max_connections \in Nat /\ config.min_idle \in Nat
          BY <3>2, ConfigTypes DEF config
        <4>3. buildable(config) \in BOOLEAN
          BY DEF buildable
        <4>4. buildable(config) => config.min_idle <= config.max_connections
          BY DEF buildable
        <4>5. "creating" \in Stages
          BY DEF Stages
        <4> HIDE DEF r
        <4> QED BY <1>5, <4>1, <4>2, <4>3, <4>4, <4>5
      <3> QED BY <3>1, <3>2
    <2> HIDE DEF r
    <2>3. Cardinality(Running(p)) = 0
      BY <2>1, OnlyLinkedRuns
    <2>4. r.open = r.idle + Cardinality(Running(p)) /\ r.open <= r.max_size
      BY <2>2, <2>3
    <2>5. waiters' \in Seq(Waiter) /\ QueuedOnce' /\ QueueAgrees'
      BY <1>4, <2>1, <2>2
    <2> QED BY <2>1, <2>2, <2>4, <2>5, PoolStep
  <1>7. CASE create_pool(p)
    <2>1. /\ pool[p].stage = "creating" /\ actors' = actors /\ readers' = readers /\ call' = call
      BY <1>7 DEF create_pool
    <2>2. /\ pool[p].actor \in Actors /\ Cardinality(Running(p)) = 0
          /\ pool[p].buildable => pool[p].min_idle <= pool[p].max_size
      BY <2>1, OnlyLinkedRuns DEF IInv, PoolsAgree, PoolAgrees
    <2>3. CASE /\ pool[p].buildable
               /\ pool' = [pool EXCEPT ![p].stage = "queued", ![p].open = pool[p].min_idle,
                                       ![p].idle = pool[p].min_idle]
               /\ Wait("put", p)
      <3> DEFINE m == pool[p].min_idle
      <3> DEFINE r == [pool[p] EXCEPT !.stage = "queued", !.open = m, !.idle = m]
      <3> DEFINE w == [op |-> "put", who |-> p]
      <3>1. /\ r \in Pool /\ r.stage = "queued" /\ r.actor = pool[p].actor /\ r.open = m
            /\ r.idle = m /\ r.max_size = pool[p].max_size
        BY <1>2 DEF Pool, Stages
      <3>2. pool' = [pool EXCEPT ![p] = r]
        BY <1>1, <2>3 DEF Pool
      <3> HIDE DEF r
      <3>3. r.open = r.idle + Cardinality(Running(p)) /\ r.open <= r.max_size
        BY <1>2, <2>2, <2>3, <3>1
      <3>4. \A x \in Queue(waiters) : x.op = "put" => x.who \in Pools /\ x.who # p
        BY <1>1, <2>1 DEF WaiterAgrees
      <3>5. w \in Waiter /\ w \notin Queue(waiters) /\ waiters' = Append(waiters, w)
        BY <2>3, <3>4 DEF Waiter, Wait
      <3>6. /\ waiters' \in Seq(Waiter) /\ OnceIn(waiters')
            /\ Queue(waiters') \subseteq Queue(waiters) \cup {w}
        BY <1>1, <3>5, Joins
      <3>7. pool'[p] = r /\ \A o \in Pools : o # p => pool'[o] = pool[o]
        BY <1>1, <3>2
      <3>8. \A x \in Queue(waiters) : WaiterAgrees(x)'
        BY <1>1, <2>1, <3>4, <3>7 DEF WaiterAgrees
      <3>9. WaiterAgrees(w)'
        BY <3>1, <3>7 DEF WaiterAgrees
      <3>10. QueuedOnce' /\ QueueAgrees'
        BY <3>6, <3>8, <3>9 DEF QueuedOnce, QueueAgrees
      <3> QED BY <2>1, <2>2, <3>1, <3>2, <3>3, <3>6, <3>10, PoolStep
    <2>4. CASE /\ pool' = [pool EXCEPT ![p] = NewPool("dropped", @.actor, FALSE, 0, 0)]
               /\ UNCHANGED waiters
      <3> DEFINE r == NewPool("dropped", pool[p].actor, FALSE, 0, 0)
      <3>1. /\ r \in Pool /\ r.stage = "dropped" /\ r.actor = pool[p].actor /\ r.open = 0
            /\ r.idle = 0 /\ r.max_size = 0
        BY <2>2 DEF NewPool, Pool, Stages
      <3>2. pool' = [pool EXCEPT ![p] = r] /\ waiters' = waiters
        BY <2>4
      <3> HIDE DEF r
      <3>3. waiters' \in Seq(Waiter) /\ QueuedOnce' /\ QueueAgrees'
        BY <1>4, <2>1, <3>1, <3>2
      <3>4. r.open = r.idle + Cardinality(Running(p)) /\ r.open <= r.max_size
        BY <2>2, <3>1
      <3> QED BY <2>1, <2>2, <3>1, <3>2, <3>3, <3>4, PoolStep
    <2> QED BY <1>7, <2>3, <2>4 DEF create_pool
  <1>8. CASE ClosePool(p)
    <2> DEFINE r == NewPool("closed", pool[p].actor, FALSE, 0, 0)
    <2>1. /\ pool[p].stage = "dropped" /\ pool' = [pool EXCEPT ![p] = r]
          /\ actors' = actors /\ waiters' = waiters /\ readers' = readers /\ call' = call
      BY <1>8 DEF ClosePool
    <2>2. pool[p].actor \in Actors /\ Cardinality(Running(p)) = 0
      BY <2>1, OnlyLinkedRuns DEF IInv, PoolsAgree, PoolAgrees
    <2>3. /\ r \in Pool /\ r.stage = "closed" /\ r.actor = pool[p].actor /\ r.open = 0
          /\ r.idle = 0 /\ r.max_size = 0
      BY <2>2 DEF NewPool, Pool, Stages
    <2> HIDE DEF r
    <2>4. waiters' \in Seq(Waiter) /\ QueuedOnce' /\ QueueAgrees'
      BY <1>4, <2>1, <2>3
    <2>5. r.open = r.idle + Cardinality(Running(p)) /\ r.open <= r.max_size
      BY <2>2, <2>3
    <2> QED BY <2>1, <2>2, <2>3, <2>4, <2>5, PoolStep
  <1>9. CASE Reap(p)
    <2>1. /\ pool[p].stage = "linked" /\ actors' = actors /\ waiters' = waiters
          /\ readers' = readers /\ call' = call
      BY <1>9 DEF Reap
    <2>2. pool[p].actor \in Actors
      BY <2>1 DEF IInv, PoolsAgree, PoolAgrees
    <2>3. ASSUME NEW i \in Nat, NEW n \in Nat, n = i + Cardinality(Running(p)),
                 n <= pool[p].max_size,
                 pool' = [pool EXCEPT ![p] = [pool[p] EXCEPT !.idle = i, !.open = n]]
          PROVE  IInv'
      <3> DEFINE r == [pool[p] EXCEPT !.idle = i, !.open = n]
      <3>1. /\ r \in Pool /\ r.stage = pool[p].stage /\ r.actor = pool[p].actor
            /\ r.open = n /\ r.idle = i /\ r.max_size = pool[p].max_size
        BY <1>2 DEF Pool
      <3>2. pool' = [pool EXCEPT ![p] = r]
        BY <2>3
      <3> HIDE DEF r
      <3>3. waiters' \in Seq(Waiter) /\ QueuedOnce' /\ QueueAgrees'
        BY <1>4, <2>1, <3>1, <3>2
      <3> QED BY <2>1, <2>2, <2>3, <3>1, <3>2, <3>3, PoolStep
    <2>4. CASE pool[p].idle > 0 /\ pool' = [pool EXCEPT ![p].idle = @ - 1, ![p].open = @ - 1]
      <3>1. pool' = [pool EXCEPT ![p] = [pool[p] EXCEPT !.idle = pool[p].idle - 1,
                                                        !.open = pool[p].open - 1]]
        BY <1>1, <2>4 DEF Pool
      <3>2. /\ pool[p].idle - 1 \in Nat /\ pool[p].open - 1 \in Nat
            /\ pool[p].open - 1 = (pool[p].idle - 1) + Cardinality(Running(p))
            /\ pool[p].open - 1 <= pool[p].max_size
        BY <1>2, <1>3, <2>4
      <3> QED BY <2>3, <3>1, <3>2
    <2>5. CASE /\ pool[p].idle < pool[p].min_idle /\ pool[p].open < pool[p].max_size
               /\ pool' = [pool EXCEPT ![p].idle = @ + 1, ![p].open = @ + 1]
      <3>1. pool' = [pool EXCEPT ![p] = [pool[p] EXCEPT !.idle = pool[p].idle + 1,
                                                        !.open = pool[p].open + 1]]
        BY <1>1, <2>5 DEF Pool
      <3>2. /\ pool[p].idle + 1 \in Nat /\ pool[p].open + 1 \in Nat
            /\ pool[p].open + 1 = (pool[p].idle + 1) + Cardinality(Running(p))
            /\ pool[p].open + 1 <= pool[p].max_size
        BY <1>2, <1>3, <2>5
      <3> QED BY <2>3, <3>1, <3>2
    <2> QED BY <1>9, <2>4, <2>5 DEF Reap
  <1> QED BY <1>6, <1>7, <1>8, <1>9

\* Every handler, every step of a call and of bb8 keeps the invariant.
LEMMA IInvStep == IInv /\ [Next]_vars => IInv'
  <1> SUFFICES ASSUME IInv, [Next]_vars PROVE IInv'
    OBVIOUS
  <1>1. /\ actors \in [Actors -> Pools \cup {None}] /\ waiters \in Seq(Waiter)
        /\ readers \subseteq Calls /\ pool \in [Pools -> Pool] /\ call \in [Calls -> Call]
        /\ None \notin Pools /\ OnceIn(waiters)
        /\ \A w \in Queue(waiters) : WaiterAgrees(w)
    BY PostgresAssumption DEF IInv, TypeOK, QueuedOnce, QueueAgrees
  <1>2. ASSUME pool' = pool, \A o : Running(o)' = Running(o) PROVE Counts'
    BY <1>2 DEF IInv, Counts, Counted
  <1>3. ASSUME NEW op \in {"delete", "shutdown"}, NEW who \in Actors \cup {None}, unlink(op, who)
        PROVE  IInv'
    <2> DEFINE w == [op |-> op, who |-> who]
    <2>1. /\ waiters' = Append(waiters, w) /\ actors' = actors /\ readers' = readers
          /\ pool' = pool /\ call' = call /\ w \in Waiter /\ w.op \notin {"put", "read"}
      BY <1>3 DEF unlink, Wait, Waiter
    <2> HIDE DEF w
    <2>2. /\ waiters' \in Seq(Waiter) /\ OnceIn(waiters')
          /\ Queue(waiters') \subseteq Queue(waiters) \cup {w}
      BY <1>1, <2>1, Joins
    <2>3. QueueAgrees' /\ QueuedOnce'
      BY <1>1, <2>1, <2>2 DEF QueueAgrees, WaiterAgrees, QueuedOnce
    <2>4. TypeOK'
      BY <1>1, <2>1, <2>2 DEF TypeOK
    <2>5. MapAgrees' /\ PoolsAgree' /\ CallsAgree'
      BY <2>1 DEF IInv, MapAgrees, PoolsAgree, PoolAgrees, CallsAgree, CallAgrees
    <2>6. Counts'
      BY <1>2, <2>1 DEF Running
    <2> QED BY <2>3, <2>4, <2>5, <2>6 DEF IInv
  <1>4. ASSUME NEW a \in Actors, delete_link(a) PROVE IInv'
    <2>1. actors' = [b \in Actors |-> IF b \in {a} THEN None ELSE actors[b]]
      BY <1>1, <1>4 DEF delete_link
    <2>2. pool' = Dropped({actors[b] : b \in {a}})
      <3>1. {actors[a]} = {actors[b] : b \in {a}}
        OBVIOUS
      <3> QED BY <1>4, <3>1 DEF delete_link
    <2>3. Turn("delete", a) /\ readers = {} /\ readers' = readers /\ call' = call
            /\ {a} \in SUBSET Actors
      BY <1>4 DEF delete_link
    <2> QED BY <2>1, <2>2, <2>3, ReleaseStep
  <1>5. CASE shutdown
    <2>1. actors' = [b \in Actors |-> IF b \in Actors THEN None ELSE actors[b]]
      BY <1>5 DEF shutdown
    <2>2. /\ pool' = Dropped({actors[b] : b \in Actors}) /\ Turn("shutdown", None)
          /\ readers = {} /\ readers' = readers /\ call' = call
          /\ Actors \in SUBSET Actors
      BY <1>5 DEF shutdown
    <2> QED BY <2>1, <2>2, ReleaseStep
  <1>6. ASSUME NEW q \in Calls, NEW r \in Call, call' = [call EXCEPT ![q] = r],
               call[q].status # "running", r.status # "running",
               actors' = actors, pool' = pool, readers' \subseteq Calls,
               \A x \in readers : x # q => x \in readers',
               r.status = "waiting" => r.actor \in Actors,
               r.status = "getting" =>
                 /\ q \in readers' /\ r.actor \in Actors /\ r.via # None
                 /\ actors[r.actor] = r.via,
               waiters' \in Seq(Waiter), QueuedOnce', QueueAgrees'
        PROVE  IInv'
    <2>1. Counts'
      BY <1>1, <1>2, <1>6, RunsOn
    <2> QED BY <1>1, <1>6, <2>1, CallStep
  <1>7. ASSUME NEW q \in Calls, NEW a \in Actors, execute(q, a) PROVE IInv'
    <2> DEFINE r == [status |-> "waiting", actor |-> a, via |-> None, answered |-> TRUE]
    <2> DEFINE w == [op |-> "read", who |-> q]
    <2>1. /\ r \in Call /\ r.status = "waiting" /\ r.actor = a
          /\ call' = [call EXCEPT ![q] = r] /\ call[q].status = "idle"
          /\ waiters' = Append(waiters, w)
          /\ actors' = actors /\ readers' = readers /\ pool' = pool
      BY <1>7 DEF execute, Call, Wait
    <2> HIDE DEF r
    <2>2. \A x \in Queue(waiters) : x.op = "read" => x.who \in Calls /\ x.who # q
      BY <1>1, <2>1 DEF WaiterAgrees
    <2>3. w \in Waiter /\ w \notin Queue(waiters)
      BY <2>2 DEF Waiter
    <2>4. /\ waiters' \in Seq(Waiter) /\ OnceIn(waiters')
          /\ Queue(waiters') \subseteq Queue(waiters) \cup {w}
      BY <1>1, <2>1, <2>3, Joins
    <2>5. call'[q] = r /\ \A x \in Calls : x # q => call'[x] = call[x]
      BY <1>1, <2>1
    <2>6. \A x \in Queue(waiters) : WaiterAgrees(x)'
      BY <1>1, <2>1, <2>2, <2>5 DEF WaiterAgrees
    <2>7. WaiterAgrees(w)'
      BY <2>1, <2>5 DEF WaiterAgrees
    <2>8. QueueAgrees' /\ QueuedOnce'
      BY <2>4, <2>6, <2>7 DEF QueueAgrees, QueuedOnce
    <2> QED BY <1>1, <1>6, <2>1, <2>4, <2>8
  <1>8. ASSUME NEW q \in Calls, NEW answered \in BOOLEAN
        PROVE  /\ [status |-> "idle", actor |-> None, via |-> None, answered |-> answered] \in Call
               /\ [status |-> "idle", actor |-> None, via |-> None,
                   answered |-> answered].status = "idle"
    BY DEF Call
  <1>9. ASSUME NEW q \in Calls, read(q) PROVE IInv'
    <2> DEFINE p == actors[call[q].actor]
    <2> DEFINE r == IF p = None
                    THEN [status |-> "idle", actor |-> None, via |-> None, answered |-> TRUE]
                    ELSE [call[q] EXCEPT !.status = "getting", !.via = p]
    <2>1. /\ actors' = actors /\ pool' = pool /\ Turn("read", q)
          /\ readers' = IF p = None THEN readers \ {q} ELSE readers \cup {q}
      BY <1>9 DEF read, Return
    <2>2. call' = [call EXCEPT ![q] = r]
      BY <1>1, <1>9 DEF read, Return, Call
    <2>3. /\ waiters' \in Seq(Waiter) /\ QueuedOnce' /\ call[q].status = "waiting"
          /\ \A w \in Queue(waiters') : WaiterAgrees(w)
          /\ [op |-> "read", who |-> q] \notin Queue(waiters')
          /\ Queue(waiters') \subseteq Waiter
      BY <2>1, TurnFacts DEF WaiterAgrees
    <2>4. call[q].actor \in Actors
      BY <2>3 DEF IInv, CallsAgree, CallAgrees
    <2>5. p \in Pools \cup {None}
      BY <1>1, <2>4
    <2>6. /\ r \in Call
          /\ p = None => r.status = "idle"
          /\ p # None => r.status = "getting" /\ r.actor = call[q].actor /\ r.via = p
      <3> HIDE DEF p
      <3>1. CASE p = None
        BY <1>8, <3>1
      <3>2. CASE p # None
        BY <1>1, <2>5, <3>2 DEF Call
      <3> QED BY <3>1, <3>2
    <2> HIDE DEF r
    <2>7. \A x \in Calls : x # q => call'[x] = call[x]
      BY <1>1, <2>2
    <2>8. QueueAgrees'
      <3>1. \A w \in Queue(waiters') : w.op = "read" => w.who # q
        BY <2>3 DEF Waiter
      <3> QED BY <2>1, <2>3, <2>7, <3>1 DEF QueueAgrees, WaiterAgrees
    <2>9. /\ readers' \subseteq Calls /\ (p # None => q \in readers')
          /\ \A x \in readers : x # q => x \in readers'
      BY <1>1, <2>1
    <2>10. r.status \in {"idle", "getting"} /\ (r.status = "getting" => p # None)
      BY <2>6
    <2> QED BY <1>6, <2>1, <2>2, <2>3, <2>4, <2>6, <2>8, <2>9, <2>10
  <1>10. ASSUME NEW q \in Calls, timeout(q) PROVE IInv'
    <2> DEFINE r == [status |-> "idle", actor |-> None, via |-> None, answered |-> TRUE]
    <2>1. /\ call' = [call EXCEPT ![q] = r] /\ readers' = readers \ {q}
          /\ call[q].status = "getting"
          /\ actors' = actors /\ waiters' = waiters /\ pool' = pool
      BY <1>10 DEF timeout, Return
    <2>2. r \in Call /\ r.status = "idle"
      BY <1>8
    <2> HIDE DEF r
    <2>3. waiters' \in Seq(Waiter) /\ QueuedOnce' /\ QueueAgrees'
      BY <2>1, <2>2, QueueStays
    <2>4. readers' \subseteq Calls /\ \A x \in readers : x # q => x \in readers'
      BY <1>1, <2>1
    <2> QED BY <1>6, <2>1, <2>2, <2>3, <2>4
  <1>11. ASSUME NEW q \in Calls, conn_query(q) PROVE IInv'
    <2>1. call[q].status = "running"
      BY <1>11 DEF conn_query
    <2>2. ASSUME NEW broken \in BOOLEAN, GiveBack(q, broken, TRUE) PROVE IInv'
      BY <2>1, <2>2, BackStep
    <2>3. ASSUME NEW rows \in ResultSets \cup {{}}, GiveBack(q, FALSE, encode_rows(rows))
          PROVE  IInv'
      <3>1. encode_rows(rows) \in BOOLEAN
        BY DEF encode_rows
      <3> QED BY <2>1, <2>3, <3>1, BackStep
    <2> QED BY <1>11, <2>2, <2>3 DEF conn_query
  <1>12. CASE UNCHANGED vars
    <2>1. /\ actors' = actors /\ waiters' = waiters /\ readers' = readers /\ pool' = pool
          /\ call' = call
      BY <1>12 DEF vars
    <2>2. Counts'
      BY <1>2, <2>1 DEF Running
    <2>3. TypeOK' /\ MapAgrees' /\ PoolsAgree' /\ CallsAgree'
      BY <2>1 DEF IInv, TypeOK, MapAgrees, PoolsAgree, PoolAgrees, CallsAgree, CallAgrees
    <2>4. QueueAgrees' /\ QueuedOnce'
      BY <2>1 DEF IInv, QueueAgrees, WaiterAgrees, QueuedOnce
    <2> QED BY <2>2, <2>3, <2>4 DEF IInv
  <1> QED
    <2>1. CASE \E p \in Pools :
                 \/ \E a \in Actors, v \in LinkValues : put_link(p, a, v)
                 \/ create_pool(p) \/ insert(p) \/ ClosePool(p) \/ Reap(p)
      BY <2>1, InsertStep, PoolActionStep
    <2>2. CASE \/ \E a \in Actors : unlink("delete", a) \/ delete_link(a)
               \/ unlink("shutdown", None) \/ shutdown
      BY <2>2, <1>3, <1>4, <1>5
    <2>3. CASE \E q \in Calls :
                 \/ \E a \in Actors : execute(q, a)
                 \/ read(q) \/ get(q) \/ timeout(q) \/ conn_query(q)
      BY <2>3, <1>7, <1>9, <1>10, <1>11, GetStep
    <2> QED BY <1>12, <2>1, <2>2, <2>3 DEF Next

\* The invariant holds throughout.
LEMMA Invariance == Spec => []IInv
  <1> QED BY InitIInv, IInvStep, PTL DEF Spec

\* No pool has more connections than it was configured with, each is idle or
\* with exactly one running call, and no pool is dropped under a call that has
\* or awaits a connection: for any configuration that loads and any number of
\* links and calls, however the calls end.
THEOREM EveryConnectionAccounted == Spec => []ConnectionsAccounted
  <1>1. IInv => ConnectionsAccounted
    BY DEF IInv, ConnectionsAccounted, Counts, Counted, CallsAgree, CallAgrees
  <1> QED BY Invariance, <1>1, PTL

-----------------------------------------------------------------------------
(* Refinement: each step of the provider is a step of LinkResources, or     *)
(* none.                                                                    *)

\* The phase of one pool.
PhaseOf(stage) ==
    CASE stage = "unused" -> "unused"
      [] stage \in {"creating", "queued"} -> "opening"
      [] stage = "linked" -> "open"
      [] stage = "dropped" -> "closing"
      [] stage = "closed" -> "closed"

LEMMA PhaseIs ==
    /\ phase = [p \in Pools |-> PhaseOf(pool[p].stage)]
    /\ phase' = [p \in Pools |-> PhaseOf(pool'[p].stage)]
  BY DEF phase, PhaseOf

LEMMA PhaseValues ==
    /\ PhaseOf("unused") = "unused"
    /\ PhaseOf("creating") = "opening" /\ PhaseOf("queued") = "opening"
    /\ PhaseOf("linked") = "open" /\ PhaseOf("dropped") = "closing"
    /\ PhaseOf("closed") = "closed"
  BY DEF PhaseOf

\* The provider starts with no pool, as LinkResources does.
LEMMA LinkInit == Init => Links!LInit
  BY DEF Init, NewPool, Links!LInit, phase

\* One pool changes its stage, and nothing else that LinkResources sees.
LEMMA OnePoolMaps ==
    ASSUME NEW p \in Pools, actors' = actors,
           \A o \in Pools : o # p => pool'[o] = pool[o],
           pool'[p].actor = pool[p].actor
    PROVE  /\ phase[p] = PhaseOf(pool[p].stage)
           /\ phase' = [phase EXCEPT ![p] = PhaseOf(pool'[p].stage)]
           /\ [o \in Pools |-> pool'[o].actor] = [o \in Pools |-> pool[o].actor]
  <1>1. \A o \in Pools : o # p => PhaseOf(pool'[o].stage) = PhaseOf(pool[o].stage)
    OBVIOUS
  <1>2. phase' = [phase EXCEPT ![p] = PhaseOf(pool'[p].stage)]
    BY <1>1, PhaseIs
  <1> QED BY <1>2, PhaseIs

\* A step that leaves the map, the stages and the owners alone.
LEMMA LinkStutter ==
    ASSUME actors' = actors,
           \A o \in Pools : pool'[o].stage = pool[o].stage /\ pool'[o].actor = pool[o].actor
    PROVE  UNCHANGED Links!lvars
  <1>1. phase' = phase
    BY PhaseIs
  <1>2. [o \in Pools |-> pool'[o].actor] = [o \in Pools |-> pool[o].actor]
    OBVIOUS
  <1> QED BY <1>1, <1>2 DEF Links!lvars

\* put_link opens a resource, or fails to.
LEMMA LinkPut ==
    ASSUME IInv, NEW p \in Pools, NEW a \in Actors, NEW v \in LinkValues, put_link(p, a, v)
    PROVE  Links!Open(p, a)
  <1>1. pool \in [Pools -> Pool]
    BY DEF IInv, TypeOK
  <1> DEFINE config == load_config(v)
  <1> DEFINE r == IF config = None THEN NewPool("closed", a, FALSE, 0, 0)
                  ELSE NewPool("creating", a, buildable(config), config.max_connections,
                               config.min_idle)
  <1>2. pool[p].stage = "unused" /\ actors' = actors /\ pool' = [pool EXCEPT ![p] = r]
    BY DEF put_link
  <1>3. r.stage \in {"closed", "creating"} /\ r.actor = a
    BY DEF NewPool
  <1> HIDE DEF r
  <1>4. pool'[p] = r /\ \A o \in Pools : o # p => pool'[o] = pool[o]
    BY <1>1, <1>2
  <1>5. phase[p] = "unused" /\ phase' = [phase EXCEPT ![p] = PhaseOf(r.stage)]
    <2>1. \A o \in Pools : o # p => PhaseOf(pool'[o].stage) = PhaseOf(pool[o].stage)
      BY <1>4
    <2> QED BY <1>2, <1>4, <2>1, PhaseIs, PhaseValues
  <1>6. PhaseOf(r.stage) \in {"opening", "closed"}
    BY <1>3, PhaseValues
  <1>7. [o \in Pools |-> pool'[o].actor] = [[o \in Pools |-> pool[o].actor] EXCEPT ![p] = a]
    BY <1>3, <1>4
  <1> QED BY <1>2, <1>5, <1>6, <1>7 DEF Links!Open

\* create_pool goes on opening, or gives up.
LEMMA LinkCreate ==
    ASSUME IInv, NEW p \in Pools, create_pool(p)
    PROVE  Links!GiveUp(p) \/ UNCHANGED Links!lvars
  <1>1. pool \in [Pools -> Pool] /\ pool[p].stage = "creating" /\ actors' = actors
    BY DEF IInv, TypeOK, create_pool
  <1>2. CASE pool' = [pool EXCEPT ![p].stage = "queued", ![p].open = pool[p].min_idle,
                                  ![p].idle = pool[p].min_idle]
    <2>1. /\ \A o \in Pools : o # p => pool'[o] = pool[o]
          /\ pool'[p].actor = pool[p].actor /\ pool'[p].stage = "queued"
      BY <1>1, <1>2 DEF Pool
    <2>2. phase' = phase
      BY <1>1, <2>1, OnePoolMaps, PhaseIs, PhaseValues
    <2> QED BY <1>1, <2>1, <2>2, OnePoolMaps DEF Links!lvars
  <1>3. CASE pool' = [pool EXCEPT ![p] = NewPool("dropped", @.actor, FALSE, 0, 0)]
    <2>1. /\ \A o \in Pools : o # p => pool'[o] = pool[o]
          /\ pool'[p].actor = pool[p].actor /\ pool'[p].stage = "dropped"
      BY <1>1, <1>3 DEF NewPool
    <2> QED BY <1>1, <2>1, OnePoolMaps, PhaseValues DEF Links!GiveUp
  <1> QED BY <1>2, <1>3 DEF create_pool

\* The connections of a dropped pool are closed.
LEMMA LinkClose ==
    ASSUME IInv, NEW p \in Pools, ClosePool(p)
    PROVE  Links!Closed(p)
  <1>1. pool \in [Pools -> Pool] /\ pool[p].stage = "dropped" /\ actors' = actors
    BY DEF IInv, TypeOK, ClosePool
  <1>2. /\ \A o \in Pools : o # p => pool'[o] = pool[o]
        /\ pool'[p].actor = pool[p].actor /\ pool'[p].stage = "closed"
    BY <1>1 DEF ClosePool, NewPool
  <1> QED BY <1>1, <1>2, OnePoolMaps, PhaseValues DEF Links!Closed

\* The insert of put_link installs the pool and closes the one it replaces.
LEMMA LinkInsert ==
    ASSUME IInv, NEW p \in Pools, insert(p)
    PROVE  Links!Install(p)
  <1> DEFINE a == pool[p].actor
  <1> DEFINE old == actors[a]
  <1>1. /\ Turn("put", p) /\ actors' = [actors EXCEPT ![a] = p]
        /\ pool' = [Dropped({old}) EXCEPT ![p].stage = "linked"]
    BY DEF insert
  <1>2. pool[p].stage = "queued" /\ pool \in [Pools -> Pool]
    BY <1>1, TurnFacts DEF WaiterAgrees, IInv, TypeOK
  <1>3. InsertEffect(p, old)
    BY <1>1, <1>2, InsertedPools
  <1>4. [o \in Pools |-> pool'[o].actor] = [o \in Pools |-> pool[o].actor]
    BY <1>3 DEF InsertEffect
  <1>5. phase[p] = "opening"
    BY <1>2, PhaseIs, PhaseValues
  <1>6. phase' = [q \in Pools |-> IF q = p THEN "open"
                                  ELSE IF q = old THEN "closing" ELSE phase[q]]
    <2> HIDE DEF old
    <2>1. \A q \in Pools : PhaseOf(pool'[q].stage)
                             = IF q = p THEN "open"
                               ELSE IF q = old THEN "closing" ELSE PhaseOf(pool[q].stage)
      BY <1>3, PhaseValues DEF InsertEffect
    <2> QED BY <2>1, PhaseIs
  <1> QED BY <1>1, <1>4, <1>5, <1>6 DEF Links!Install

\* Taking entries out of the map (delete_link, shutdown) releases them.
LEMMA LinkRelease ==
    ASSUME IInv, NEW A \in SUBSET Actors,
           actors' = [a \in Actors |-> IF a \in A THEN None ELSE actors[a]],
           pool' = Dropped({actors[a] : a \in A})
    PROVE  Links!Release(A)
  <1> DEFINE gone == {actors[a] : a \in A}
  <1> HIDE DEF gone
  <1>1. DropEffect(gone)
    BY DroppedPools DEF IInv, TypeOK, gone
  <1>2. [o \in Pools |-> pool'[o].actor] = [o \in Pools |-> pool[o].actor]
    BY <1>1 DEF DropEffect
  <1>3. phase' = [q \in Pools |-> IF q \in gone THEN "closing" ELSE phase[q]]
    <2>1. \A q \in Pools : PhaseOf(pool'[q].stage)
                             = IF q \in gone THEN "closing" ELSE PhaseOf(pool[q].stage)
      BY <1>1, PhaseValues DEF DropEffect
    <2> QED BY <2>1, PhaseIs
  <1>4. \A q \in Pools : q \in gone <=> \E a \in A : actors[a] = q
    BY DEF gone
  <1>5. phase' = [q \in Pools |-> IF \E a \in A : actors[a] = q THEN "closing" ELSE phase[q]]
    BY <1>3, <1>4
  <1> QED BY <1>2, <1>5 DEF Links!Release

\* Calls and the reaper change connections, not links.
LEMMA CallsKeepLinks ==
    ASSUME IInv,
           \/ \E p \in Pools : Reap(p)
           \/ \E q \in Calls : \/ \E a \in Actors : execute(q, a)
                               \/ read(q) \/ get(q) \/ timeout(q) \/ conn_query(q)
    PROVE  UNCHANGED Links!lvars
  <1>1. pool \in [Pools -> Pool]
    BY DEF IInv, TypeOK
  <1>2. ASSUME NEW p, NEW i, NEW n, actors' = actors,
               pool' = [pool EXCEPT ![p].idle = i, ![p].open = n]
        PROVE  UNCHANGED Links!lvars
    <2>1. \A o \in Pools : pool'[o].stage = pool[o].stage /\ pool'[o].actor = pool[o].actor
      BY <1>1, <1>2 DEF Pool
    <2> QED BY <1>2, <2>1, LinkStutter
  <1>3. ASSUME NEW p \in Pools, Reap(p) PROVE UNCHANGED Links!lvars
    BY <1>2, <1>3 DEF Reap
  <1>4. ASSUME NEW q \in Calls, get(q) PROVE UNCHANGED Links!lvars
    <2>1. PICK p : p = call[q].via
      OBVIOUS
    <2>2. \/ pool' = [pool EXCEPT ![p].idle = @ - 1]
          \/ pool' = [pool EXCEPT ![p].idle = @ - 1, ![p].open = @ - 1]
          \/ pool' = [pool EXCEPT ![p].open = @ + 1]
      BY <1>4, <2>1 DEF get
    <2>3. \A o \in Pools : pool'[o].stage = pool[o].stage /\ pool'[o].actor = pool[o].actor
      <3>1. CASE pool' = [pool EXCEPT ![p].idle = @ - 1]
        BY <1>1, <3>1 DEF Pool
      <3>2. CASE pool' = [pool EXCEPT ![p].idle = @ - 1, ![p].open = @ - 1]
        BY <1>1, <3>2 DEF Pool
      <3>3. CASE pool' = [pool EXCEPT ![p].open = @ + 1]
        BY <1>1, <3>3 DEF Pool
      <3> QED BY <2>2, <3>1, <3>2, <3>3
    <2> QED BY <1>4, <2>3, LinkStutter DEF get
  <1>5. ASSUME NEW q \in Calls, conn_query(q) PROVE UNCHANGED Links!lvars
    <2>1. PICK broken, answered : GiveBack(q, broken, answered)
      BY <1>5 DEF conn_query
    <2>2. \A o \in Pools : pool'[o].stage = pool[o].stage /\ pool'[o].actor = pool[o].actor
      BY <1>1, <2>1 DEF GiveBack, Pool
    <2> QED BY <2>1, <2>2, LinkStutter DEF GiveBack
  <1>6. ASSUME actors' = actors, pool' = pool PROVE UNCHANGED Links!lvars
    BY <1>6, LinkStutter
  <1>7. ASSUME NEW q \in Calls, (\E a \in Actors : execute(q, a)) \/ read(q) \/ timeout(q)
        PROVE  UNCHANGED Links!lvars
    BY <1>6, <1>7 DEF execute, read, timeout
  <1> QED BY <1>3, <1>4, <1>5, <1>7

\* Hence every step of the provider is one of LinkResources, or none.
LEMMA LinkStep == IInv /\ [Next]_vars => [Links!LNext]_(Links!lvars)
  <1> SUFFICES ASSUME IInv, [Next]_vars PROVE [Links!LNext]_(Links!lvars)
    OBVIOUS
  <1>1. ASSUME NEW p \in Pools,
               \/ \E a \in Actors, v \in LinkValues : put_link(p, a, v)
               \/ create_pool(p) \/ insert(p) \/ ClosePool(p)
        PROVE  Links!LNext \/ UNCHANGED Links!lvars
    BY <1>1, LinkPut, LinkCreate, LinkInsert, LinkClose DEF Links!LNext
  <1>2. ASSUME NEW a \in Actors, delete_link(a) PROVE Links!LNext
    <2>1. actors' = [b \in Actors |-> IF b \in {a} THEN None ELSE actors[b]]
      BY <1>2 DEF delete_link, IInv, TypeOK
    <2>2. pool' = Dropped({actors[b] : b \in {a}})
      <3>1. {actors[b] : b \in {a}} = {actors[a]}
        OBVIOUS
      <3> QED BY <1>2, <3>1 DEF delete_link
    <2>3. Links!Release({a})
      BY <2>1, <2>2, LinkRelease
    <2> QED BY <2>3 DEF Links!LNext
  <1>3. ASSUME shutdown PROVE Links!LNext
    <2>1. actors' = [b \in Actors |-> IF b \in Actors THEN None ELSE actors[b]]
      BY <1>3 DEF shutdown
    <2>2. pool' = Dropped({actors[b] : b \in Actors})
      BY <1>3 DEF shutdown
    <2>3. Links!Release(Actors)
      BY <2>1, <2>2, LinkRelease
    <2> QED BY <2>3 DEF Links!LNext
  <1>4. ASSUME actors' = actors, pool' = pool PROVE UNCHANGED Links!lvars
    BY <1>4, LinkStutter
  <1>5. ASSUME NEW op, NEW who, unlink(op, who) PROVE UNCHANGED Links!lvars
    BY <1>4, <1>5 DEF unlink
  <1>6. CASE UNCHANGED vars
    BY <1>4, <1>6 DEF vars
  <1> QED BY <1>1, <1>2, <1>3, <1>5, <1>6, CallsKeepLinks DEF Next

\* The provider implements LinkResources: put_link, delete_link and shutdown
\* open, replace and drop pools as the abstract specification says.
THEOREM PostgresKeepsLinks == Spec => LinksKept
  <1> QED BY Invariance, LinkInit, LinkStep, PTL DEF Spec, LinksKept, Links!LSpec
==============================================================================
