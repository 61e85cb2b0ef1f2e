--------------------------- MODULE NatsMessaging ---------------------------
(***************************************************************************)
(* The NATS messaging provider (nats/src/main.rs): one client with its     *)
(* subscription listeners (a NatsClientBundle) per linked actor, in a map  *)
(* behind a tokio RwLock.  put_link takes the write lock BEFORE it         *)
(* connects and subscribes, and keeps it until the new bundle is in the    *)
(* map; publish and request read the map and let go of it before they do   *)
(* any I/O.  Dropping a bundle aborts its listeners, not the dispatches    *)
(* they have started.                                                      *)
(*                                                                         *)
(* External: tokio's RwLock serves its waiters in order; an aborted task   *)
(* stops at some later await; async_nats answers subscribe with an error   *)
(* only when its connection task has ended, and then the streams of that   *)
(* connection end as well; the connection closes with its last handle.     *)
(***************************************************************************)
EXTENDS NatsConfig, FiniteSets

CONSTANTS
    Actors,
    Topics,
    QueueTopics,   \* the topics that are subscribed to with a queue group
    Bundles,       \* bound: one per put_link call
    Calls,         \* bound: publish and request calls of one behaviour
    Permits,       \* dispatches of one subscription at a time (75 in the code)
    HostConfig,    \* the configuration the host starts the provider with, or None
    LinkValues,    \* the values link definitions come with
    HostConfigs,   \* the configurations of the host and the values of a link
    Inputs         \*   ConfigLayered is about

ASSUME NatsAssumption ==
    /\ QueueTopics \subseteq Topics
    /\ Permits \in Nat \ {0}
    /\ None \notin Bundles \cup Actors

ASSUME InputsAssumption == \A v \in Inputs : WellFormed(v)

VARIABLES
    actors,     \* the map: actor -> bundle, or None
    waiters,    \* handlers waiting for the lock, in order
    holder,     \* the put_link that holds the write lock over its awaits
    bundle,     \* every bundle, from its put_link call on
    listener,   \* the task of each subscription of each bundle
    inbox,      \* messages delivered to a subscription and not yet taken
    dispatches, \* dispatch_msg tasks at work
    call,       \* publish and request calls
    last        \* ghost: the last link handler that asked for the lock

vars == <<actors, waiters, holder, bundle, listener, inbox, dispatches, call, last>>

Subs == Bundles \X Topics
Stages == {"unused", "queued", "connecting", "subscribing", "linked", "dropped",
           "failed", "closed"}
Bundle == [stage : Stages, actor : Actors \cup {None}, todo : SUBSET Topics,
           topics : SUBSET Topics, connectable : BOOLEAN, connected : {0, 1}]
Listener == [at : {"none", "next", "permit", "ended"}, msg : Calls \cup {None}]
Waiter == [op : {"put", "delete", "shutdown", "read"},
           who : Bundles \cup Actors \cup Calls \cup {None}]
Call == [status : {"none", "waiting", "sending", "ok", "not linked", "error", "timeout"},
         actor : Actors \cup {None}, via : Bundles \cup {None}]
Dispatch == [sub : Subs, msg : Calls]

Idle == [at |-> "none", msg |-> None]

Init ==
    /\ actors = [a \in Actors |-> None]
    /\ waiters = <<>>
    /\ holder = None
    /\ bundle = [b \in Bundles |-> [stage |-> "unused", actor |-> None, todo |-> {},
                                    topics |-> {}, connectable |-> FALSE,
                                    connected |-> 0]]
    /\ listener = [s \in Subs |-> Idle]
    /\ inbox = [s \in Subs |-> <<>>]
    /\ dispatches = {}
    /\ call = [q \in Calls |-> [status |-> "none", actor |-> None, via |-> None]]
    /\ last = [a \in Actors |-> "none"]

-----------------------------------------------------------------------------
(* The lock.  A handler that does not await under it is one step. *)

Wait(op, who) == waiters' = Append(waiters, [op |-> op, who |-> who])

Turn(op, who) ==
    /\ holder = None
    /\ waiters # <<>> /\ Head(waiters) = [op |-> op, who |-> who]
    /\ waiters' = Tail(waiters)

\* Drop for NatsClientBundle, for the bundles of the set B.
Dropped(B) == [b \in Bundles |->
                 IF b \in B THEN [bundle[b] EXCEPT !.stage = "dropped"] ELSE bundle[b]]

-----------------------------------------------------------------------------
(* Link handlers. *)

\* The topics connect subscribes to; empty subscriptions are left out.
Subscribed(cfg) == {t \in Topics : \E i \in DOMAIN cfg.subscriptions :
                                      cfg.subscriptions[i] = t}

Asked(stage, a, T, ok) == [stage |-> stage, actor |-> a, todo |-> T, topics |-> T,
                           connectable |-> ok, connected |-> 0]

\* put_link up to the lock: a bad configuration is refused with Ok(false).
put_link(b, a, v) ==
    LET cfg == link_config(HostConfig, v)
    IN
    /\ bundle[b].stage = "unused"
    /\ IF cfg # None
       THEN /\ bundle' = [bundle EXCEPT ![b] =
                             Asked("queued", a, Subscribed(cfg), connectable(cfg))]
            /\ Wait("put", b) /\ last' = [last EXCEPT ![a] = "put"]
       ELSE /\ bundle' = [bundle EXCEPT ![b] = Asked("closed", a, {}, FALSE)]
            /\ UNCHANGED <<waiters, last>>
    /\ UNCHANGED <<actors, holder, listener, inbox, dispatches, call>>

MutLateLock(b) ==
    /\ waiters # <<>> /\ Head(waiters) = [op |-> "put", who |-> b]
    /\ waiters' = Tail(waiters)
    /\ bundle' = [bundle EXCEPT ![b].stage = "connecting"]
    /\ UNCHANGED <<actors, holder, listener, inbox, dispatches, call, last>>

\* The write lock is had; connect begins.
lock(b) ==
    /\ bundle[b].stage = "queued" /\ Turn("put", b)
    /\ holder' = b
    /\ bundle' = [bundle EXCEPT ![b].stage = "connecting"]
    /\ UNCHANGED <<actors, listener, inbox, dispatches, call, last>>

MutKeepsLock(b) ==
    /\ bundle[b].stage = "connecting"
    /\ \/ /\ bundle' = [bundle EXCEPT ![b].stage = "subscribing", ![b].connected = 1]
          /\ UNCHANGED holder
       \/ /\ bundle' = [bundle EXCEPT ![b].stage = "failed"]
          /\ UNCHANGED holder
    /\ UNCHANGED <<actors, waiters, listener, inbox, dispatches, call, last>>

\* The connection stands, or put_link fails (credentials or certificates that
\* cannot be used, no URI, no server, time out) and gives the lock back.
connect(b) ==
    /\ bundle[b].stage = "connecting"
    /\ \/ /\ bundle[b].connectable
          /\ bundle' = [bundle EXCEPT ![b].stage = "subscribing", ![b].connected = 1]
          /\ UNCHANGED holder
       \/ /\ bundle' = [bundle EXCEPT ![b].stage = "failed"]
          /\ holder' = None
    /\ UNCHANGED <<actors, waiters, listener, inbox, dispatches, call, last>>

\* One turn of the loop over the subscriptions.  An error leaves connect by
\* "?": the handles so far are dropped, which does not abort their tasks.
subscribe(b, t) ==
    /\ bundle[b].stage = "subscribing" /\ t \in bundle[b].todo
    /\ \/ /\ bundle[b].connected = 1
          /\ bundle' = [bundle EXCEPT ![b].todo = @ \ {t}]
          /\ listener' = [listener EXCEPT ![<<b, t>>].at = "next"]
          /\ UNCHANGED holder
       \/ /\ bundle[b].connected = 0
          /\ bundle' = [bundle EXCEPT ![b].stage = "failed"]
          /\ holder' = None
          /\ UNCHANGED listener
    /\ UNCHANGED <<actors, waiters, inbox, dispatches, call, last>>

MutInsertEarly(b) ==
    /\ bundle[b].stage = "subscribing"
    /\ actors' = [actors EXCEPT ![bundle[b].actor] = b]
    /\ bundle' = [Dropped({actors[bundle[b].actor]}) EXCEPT ![b].stage = "linked"]
    /\ holder' = None
    /\ UNCHANGED <<waiters, listener, inbox, dispatches, call, last>>

MutReplaceLeaks(b) ==
    /\ bundle[b].stage = "subscribing" /\ bundle[b].todo = {}
    /\ actors' = [actors EXCEPT ![bundle[b].actor] = b]
    /\ bundle' = [bundle EXCEPT ![b].stage = "linked"]
    /\ holder' = None
    /\ UNCHANGED <<waiters, listener, inbox, dispatches, call, last>>

\* The bundle goes into the map, the one it replaces is dropped, and the lock
\* is free.
insert(b) ==
    /\ bundle[b].stage = "subscribing" /\ bundle[b].todo = {}
    /\ actors' = [actors EXCEPT ![bundle[b].actor] = b]
    /\ bundle' = [Dropped({actors[bundle[b].actor]}) EXCEPT ![b].stage = "linked"]
    /\ holder' = None
    /\ UNCHANGED <<waiters, listener, inbox, dispatches, call, last>>

\* The host sends delete_link (one per actor at a time) or shutdown.
unlink(op, who) ==
    /\ [op |-> op, who |-> who] \notin {waiters[i] : i \in DOMAIN waiters}
    /\ \E a \in Actors : last[a] = "put" /\ (op = "delete" => a = who)
    /\ Wait(op, who)
    /\ last' = [a \in Actors |-> IF op = "delete" /\ a # who THEN last[a] ELSE op]
    /\ UNCHANGED <<actors, holder, bundle, listener, inbox, dispatches, call>>

delete_link(a) ==
    /\ Turn("delete", a)
    /\ actors' = [actors EXCEPT ![a] = None]
    /\ bundle' = Dropped({actors[a]})
    /\ UNCHANGED <<holder, listener, inbox, dispatches, call, last>>

shutdown ==
    /\ Turn("shutdown", None)
    /\ actors' = [a \in Actors |-> None]
    /\ bundle' = Dropped({actors[a] : a \in Actors})
    /\ UNCHANGED <<holder, listener, inbox, dispatches, call, last>>

-----------------------------------------------------------------------------
(* The listeners and what they spawn. *)

Alive(s) == listener[s].at \in {"next", "permit"}

\* subscriber.next() yields a message.
next(s) ==
    /\ listener[s].at = "next" /\ inbox[s] # <<>>
    /\ listener' = [listener EXCEPT ![s] = [at |-> "permit", msg |-> Head(inbox[s])]]
    /\ inbox' = [inbox EXCEPT ![s] = Tail(@)]
    /\ UNCHANGED <<actors, waiters, holder, bundle, dispatches, call, last>>

MutNoPermit(s) ==
    /\ listener[s].at = "permit"
    /\ dispatches' = dispatches \cup {[sub |-> s, msg |-> listener[s].msg]}
    /\ listener' = [listener EXCEPT ![s] = [at |-> "next", msg |-> None]]
    /\ UNCHANGED <<actors, waiters, holder, bundle, inbox, call, last>>

\* A permit is free: dispatch_msg is spawned with it.
acquire_owned(s) ==
    /\ listener[s].at = "permit"
    /\ Cardinality({d \in dispatches : d.sub = s}) < Permits
    /\ dispatches' = dispatches \cup {[sub |-> s, msg |-> listener[s].msg]}
    /\ listener' = [listener EXCEPT ![s] = [at |-> "next", msg |-> None]]
    /\ UNCHANGED <<actors, waiters, holder, bundle, inbox, call, last>>

MutReplyFirst(d) ==
    /\ d \in dispatches
    /\ bundle[d.sub[1]].connected = 1
    /\ dispatches' = dispatches \ {d}
    /\ UNCHANGED <<actors, waiters, holder, bundle, listener, inbox, call, last>>

\* handle_message returns, with or without success; the permit goes back.
dispatch_msg(d) ==
    /\ d \in dispatches
    /\ dispatches' = dispatches \ {d}
    /\ UNCHANGED <<actors, waiters, holder, bundle, listener, inbox, call, last>>

MutNoAbort(s) ==
    /\ Alive(s)
    /\ bundle[s[1]].connected = 0 /\ listener[s].at = "next" /\ inbox[s] = <<>>
    /\ listener' = [listener EXCEPT ![s] = [at |-> "ended", msg |-> None]]
    /\ UNCHANGED <<actors, waiters, holder, bundle, inbox, dispatches, call, last>>

\* The abort of a dropped bundle, or the end of a lost connection's stream.
EndListener(s) ==
    /\ Alive(s)
    /\ \/ bundle[s[1]].stage = "dropped"
       \/ bundle[s[1]].connected = 0 /\ listener[s].at = "next" /\ inbox[s] = <<>>
    /\ listener' = [listener EXCEPT ![s] = [at |-> "ended", msg |-> None]]
    /\ inbox' = [inbox EXCEPT ![s] = <<>>]
    /\ UNCHANGED <<actors, waiters, holder, bundle, dispatches, call, last>>

\* The connection is lost for good.
LoseConnection(b) ==
    /\ bundle[b].connected = 1
    /\ bundle' = [bundle EXCEPT ![b].connected = 0]
    /\ UNCHANGED <<actors, waiters, holder, listener, inbox, dispatches, call, last>>

\* The last handle of the client is gone.
Disconnect(b) ==
    /\ bundle[b].stage \in {"dropped", "failed"}
    /\ \A t \in Topics : ~Alive(<<b, t>>)
    /\ bundle' = [bundle EXCEPT ![b].stage = "closed", ![b].connected = 0]
    /\ UNCHANGED <<actors, waiters, holder, listener, inbox, dispatches, call, last>>

-----------------------------------------------------------------------------
(* publish and request. *)

read(q, a) ==
    /\ call[q].status = "none"
    /\ call' = [call EXCEPT ![q] = [status |-> "waiting", actor |-> a, via |-> None]]
    /\ Wait("read", q)
    /\ UNCHANGED <<actors, holder, bundle, listener, inbox, dispatches, last>>

\* The client is cloned under the read lock, which is dropped at once.
clone_client(q) ==
    /\ Turn("read", q)
    /\ LET b == actors[call[q].actor] IN
       call' = [call EXCEPT ![q].via = b,
                            ![q].status = IF b = None THEN "not linked" ELSE "sending"]
    /\ UNCHANGED <<actors, holder, bundle, listener, inbox, dispatches, last>>

\* The subscriptions the server hands a message on t to.
Receivers(t) ==
    LET S == {s \in Subs : s[2] = t /\ Alive(s) /\ bundle[s[1]].connected = 1} IN
    IF t \in QueueTopics /\ S # {} THEN {{s} : s \in S} ELSE {S}

\* The message is out, or the send fails; a request is answered, or times out.
publish(q, t) ==
    /\ call[q].status = "sending"
    /\ \/ /\ bundle[call[q].via].connected = 1
          /\ \E R \in Receivers(t) :
               inbox' = [s \in Subs |-> IF s \in R THEN Append(inbox[s], q) ELSE inbox[s]]
          /\ \E result \in {"ok", "timeout"} : call' = [call EXCEPT ![q].status = result]
       \/ /\ bundle[call[q].via].connected = 0
          /\ call' = [call EXCEPT ![q].status = "error"]
          /\ UNCHANGED inbox
    /\ UNCHANGED <<actors, waiters, holder, bundle, listener, dispatches, last>>

-----------------------------------------------------------------------------
Next ==
    \/ \E b \in Bundles :
         \/ \E a \in Actors, v \in LinkValues : put_link(b, a, v)
         \/ lock(b) \/ connect(b) \/ insert(b) \/ LoseConnection(b) \/ Disconnect(b)
         \/ \E t \in Topics : subscribe(b, t)
    \/ \E a \in Actors : unlink("delete", a) \/ delete_link(a)
    \/ unlink("shutdown", None) \/ shutdown
    \/ \E s \in Subs : next(s) \/ acquire_owned(s) \/ EndListener(s)
    \/ \E d \in dispatches : dispatch_msg(d)
    \/ \E q \in Calls :
         \/ \E a \in Actors : read(q, a)
         \/ clone_client(q)
         \/ \E t \in Topics : publish(q, t)

\* The executor runs what is spawned; connect, subscribe and the call to the
\* actor end (connect and the RPC have time limits).  No message has to come,
\* no link has to be made, no connection has to be lost.
Fairness ==
    /\ \A b \in Bundles : /\ WF_vars(lock(b)) /\ WF_vars(connect(b)) /\ WF_vars(insert(b))
                          /\ WF_vars(Disconnect(b))
                          /\ WF_vars(\E t \in Topics : subscribe(b, t))
    /\ WF_vars(shutdown) /\ \A a \in Actors : WF_vars(delete_link(a))
    /\ \A s \in Subs : /\ WF_vars(next(s)) /\ WF_vars(EndListener(s))
                       /\ WF_vars(acquire_owned(s))
    /\ WF_vars(\E d \in dispatches : dispatch_msg(d))
    /\ \A q \in Calls : WF_vars(clone_client(q)) /\ WF_vars(\E t \in Topics : publish(q, t))

Spec == Init /\ [][Next]_vars /\ Fairness

-----------------------------------------------------------------------------
(* Properties *)

InFlight(s) == {d \in dispatches : d.sub = s}

\* Type invariant of the map, the lock and the tasks; a subscription never has
\* more dispatches at work than its semaphore has permits (main.rs 282).
TypeOK ==
    /\ actors \in [Actors -> Bundles \cup {None}]
    /\ waiters \in Seq(Waiter)
    /\ holder \in Bundles \cup {None}
    /\ bundle \in [Bundles -> Bundle]
    /\ listener \in [Subs -> Listener]
    /\ inbox \in [Subs -> Seq(Calls)]
    /\ dispatches \subseteq Dispatch
    /\ \A s \in Subs : Cardinality(InFlight(s)) <= Permits
    /\ call \in [Calls -> Call]
    /\ last \in [Actors -> {"none", "put", "delete", "shutdown"}]

\* The bundle an actor finds in the map is its own, was not dropped by any
\* other handler, and listens on every topic of its link as long as its
\* connection stands: a link is replaced only by one that already listens
\* (put_link, main.rs 354-355).
LinkedListens ==
    \A a \in Actors : actors[a] # None =>
        LET b == actors[a] IN
        /\ bundle[b].stage = "linked" /\ bundle[b].actor = a
        /\ bundle[b].connected = 1 => \A t \in bundle[b].topics : Alive(<<b, t>>)

\* The lock is asked for before the connection is made, so handlers take
\* effect in the order they came: once the handlers that concern an actor are
\* through, a delete_link or shutdown that came after its put_link has left no
\* bundle in the map, however long that put_link took.
LastHandlerWins ==
    \A a \in Actors :
        /\ actors[a] # None /\ last[a] # "put"
        => \E i \in DOMAIN waiters : waiters[i].op = last[a]
                                        /\ waiters[i].who \in {a, None}

\* A listener belongs to the link that is in the map or being made, or it was
\* aborted, or its connection is gone and it ends by itself: also when connect
\* fails half way through its subscriptions.
NoStrayListener ==
    \A s \in Subs : Alive(s) =>
        \/ bundle[s[1]].connected = 0
        \/ bundle[s[1]].stage = "dropped"
        \/ holder = s[1]
        \/ actors[bundle[s[1]].actor] = s[1]

\* Links and listeners agree: what is linked listens, what listens is linked,
\* being linked, or on its way out.
LinksListen == LinkedListens /\ NoStrayListener

\* Whoever waits for the map gets it: no error path of put_link keeps the
\* write lock, and connecting for one actor delays the others, no more.
CallsProceed == \A q \in Calls : call[q].status = "waiting" ~> call[q].status # "waiting"

\* A message a listener has taken reaches the actor unless the link goes away
\* meanwhile: permits come back whatever the actor answers.
TakenDispatched ==
    \A s \in Subs : listener[s].at = "permit" ~> listener[s].at # "permit"

\* Refinement mapping: the bundle is the resource of LinkResources, open once
\* it is in the map and closing until its last listener has ended.
phase == [b \in Bundles |->
            IF bundle[b].stage \in {"unused", "queued"} THEN "unused"
            ELSE IF bundle[b].stage \in {"connecting", "subscribing"} THEN "opening"
            ELSE IF bundle[b].stage = "linked" THEN "open"
            ELSE IF bundle[b].stage = "closed" THEN "closed"
            ELSE "closing"]

owner == [b \in Bundles |-> IF bundle[b].stage \in {"unused", "queued"} THEN None
                            ELSE bundle[b].actor]

Links == INSTANCE LinkResources WITH Resources <- Bundles, NoResource <- None,
            current <- actors

\* The provider implements LinkResources: every bundle that is replaced,
\* deleted or given up is closed, and no other.
LinksKept == Links!LSpec

\* A bundle that is out of the map is closed in the end, with all its
\* listeners.
UnlinkedCloses ==
    \A b \in Bundles : bundle[b].stage \in {"dropped", "failed"} ~> bundle[b].stage = "closed"

\* The configuration of a link is layered over the host's as LayeredFor says,
\* for all HostConfigs and Inputs (main.rs 86-175 and 339-350).  They are looked
\* at while there has been no link.
ConfigLayered ==
    (\A b \in Bundles : bundle[b].stage = "unused") =>
        \A h \in HostConfigs, v \in Inputs : LayeredFor(h, v)
=============================================================================
