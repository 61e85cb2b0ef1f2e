--------------------------- MODULE KafkaMessaging ---------------------------
(***************************************************************************)
(* The Kafka messaging provider (messaging-kafka/src/main.rs): put_link    *)
(* validates the hosts and the topic, spawns a consumer task for the link  *)
(* and then puts its JoinHandle into a map from actor to connection.       *)
(* delete_link and shutdown abort the handle they find; an insert over an  *)
(* older handle only drops it, which detaches its task.                    *)
(*                                                                         *)
(* External: the Kafka partition is a log that other producers append to,  *)
(* with or without a value (a tombstone); a consumer built with            *)
(* StartOffset::Latest fixes its position at its first fetch; an aborted   *)
(* task stops at some later await.                                         *)
(***************************************************************************)
EXTENDS Naturals, Sequences

CONSTANTS
    Actors,
    Consumers,   \* bound: one per put_link call
    Calls,       \* bound: publish calls of one behaviour
    MaxLog,      \* bound: records of the topic
    None

ASSUME KafkaAssumption == MaxLog \in Nat /\ None \notin Consumers

VARIABLES
    connections,   \* the map: actor -> consumer, or None
    consumer,      \* every consumer task, from its put_link call on
    aborted,       \* consumers whose handle was aborted
    log,           \* the partition: "value" or "tombstone"
    call           \* publish calls

vars == <<connections, consumer, aborted, log, call>>

Stages == {"unused", "validating", "spawned", "running", "handling", "ended"}
Consumer == [stage : Stages, actor : Actors \cup {None},
             mapped : {"not yet", "mapped", "replaced"},
             next : 0..(MaxLog + 1)]   \* the record to fetch, 0 before the first fetch
Call == {"none", "sending", "ok", "panicked"}

Init ==
    /\ connections = [a \in Actors |-> None]
    /\ consumer = [c \in Consumers |-> [stage |-> "unused", actor |-> None,
                                        mapped |-> "not yet", next |-> 0]]
    /\ aborted = {}
    /\ log = <<>>
    /\ call = [q \in Calls |-> "none"]

-----------------------------------------------------------------------------
(* Link handlers. *)

put_link(c, a) ==
    /\ consumer[c].stage = "unused"
    /\ consumer' = [consumer EXCEPT ![c].stage = "validating", ![c].actor = a]
    /\ UNCHANGED <<connections, aborted, log, call>>

\* The client and its partition client are had and the task is spawned, or
\* put_link only warns and answers Ok(true).
spawn(c) ==
    /\ consumer[c].stage = "validating"
    /\ \E reached \in BOOLEAN :
         consumer' = [consumer EXCEPT ![c].stage = IF reached THEN "spawned" ELSE "ended"]
    /\ UNCHANGED <<connections, aborted, log, call>>

Live(c) == consumer[c].stage \in {"spawned", "running", "handling"}

Replace(c) ==
    LET old == connections[consumer[c].actor] IN
    /\ connections' = [connections EXCEPT ![consumer[c].actor] = c]
    /\ consumer' = [d \in Consumers |->
                      IF d = c THEN [consumer[d] EXCEPT !.mapped = "mapped"]
                      ELSE IF d = old THEN [consumer[d] EXCEPT !.mapped = "replaced"]
                      ELSE consumer[d]]

MutInsertAborts(c) ==
    /\ consumer[c].mapped = "not yet" /\ (Live(c) \/ consumer[c].next > 0)
    /\ Replace(c)
    /\ aborted' = aborted \cup {c}
    /\ UNCHANGED <<log, call>>

\* The handle goes into the map, if need be after the task has run or ended.
\* The handle that was there is dropped.
insert(c) ==
    /\ consumer[c].mapped = "not yet" /\ (Live(c) \/ consumer[c].next > 0)
    /\ Replace(c)
    /\ UNCHANGED <<aborted, log, call>>

MutDeleteDetaches(a) ==
    /\ connections[a] # None
    /\ connections' = [connections EXCEPT ![a] = None]
    /\ UNCHANGED <<consumer, aborted, log, call>>

delete_link(a) ==
    /\ connections[a] # None
    /\ connections' = [connections EXCEPT ![a] = None]
    /\ aborted' = aborted \cup {connections[a]}
    /\ UNCHANGED <<consumer, log, call>>

shutdown ==
    /\ \E a \in Actors : connections[a] # None
    /\ connections' = [a \in Actors |-> None]
    /\ aborted' = aborted \cup ({connections[a] : a \in Actors} \ {None})
    /\ UNCHANGED <<consumer, log, call>>

-----------------------------------------------------------------------------
(* The consumer task. *)

\* The first poll of the stream: only records from here on.
StartLatest(c) ==
    /\ consumer[c].stage = "spawned"
    /\ consumer' = [consumer EXCEPT ![c].stage = "running", ![c].next = Len(log) + 1]
    /\ UNCHANGED <<connections, aborted, log, call>>

\* stream.next(): the pattern of the loop needs a value, anything else ends it.
next(c) ==
    /\ consumer[c].stage = "running" /\ consumer[c].next \in DOMAIN log
    /\ consumer' = [consumer EXCEPT
          ![c].next = @ + 1,
          ![c].stage = IF log[consumer[c].next] = "value" THEN "handling" ELSE "ended"]
    /\ UNCHANGED <<connections, aborted, log, call>>

\* stream.next() is an Err, or the stream is closed.
StreamFails(c) ==
    /\ consumer[c].stage = "running"
    /\ consumer' = [consumer EXCEPT ![c].stage = "ended"]
    /\ UNCHANGED <<connections, aborted, log, call>>

MutHandleLinked(c) ==
    /\ consumer[c].stage = "handling"
    /\ connections[consumer[c].actor] = c
    /\ consumer' = [consumer EXCEPT ![c].stage = "running"]
    /\ UNCHANGED <<connections, aborted, log, call>>

\* The actor has answered, or an error was printed.
handle_message(c) ==
    /\ consumer[c].stage = "handling"
    /\ consumer' = [consumer EXCEPT ![c].stage = "running"]
    /\ UNCHANGED <<connections, aborted, log, call>>

Stop(c) ==
    /\ Live(c) /\ c \in aborted
    /\ consumer' = [consumer EXCEPT ![c].stage = "ended"]
    /\ UNCHANGED <<connections, aborted, log, call>>

-----------------------------------------------------------------------------
(* Producing. *)

\* publish looks its actor's connection up; there is an unwrap at every turn.
publish(q, a) ==
    /\ call[q] = "none"
    /\ call' = [call EXCEPT ![q] = IF connections[a] = None THEN "panicked" ELSE "sending"]
    /\ UNCHANGED <<connections, consumer, aborted, log>>

produce(q) ==
    /\ call[q] = "sending"
    /\ \E done \in BOOLEAN :
        IF done /\ Len(log) < MaxLog
        THEN log' = Append(log, "value") /\ call' = [call EXCEPT ![q] = "ok"]
        ELSE call' = [call EXCEPT ![q] = "panicked"] /\ UNCHANGED log
    /\ UNCHANGED <<connections, consumer, aborted>>

OtherProducer ==
    /\ Len(log) < MaxLog
    /\ \E record \in {"value", "tombstone"} : log' = Append(log, record)
    /\ UNCHANGED <<connections, consumer, aborted, call>>

-----------------------------------------------------------------------------
Next ==
    \/ \E c \in Consumers :
         \/ \E a \in Actors : put_link(c, a)
         \/ spawn(c) \/ insert(c) \/ StartLatest(c) \/ next(c) \/ StreamFails(c)
         \/ handle_message(c) \/ Stop(c)
    \/ \E a \in Actors : delete_link(a) \/ \E q \in Calls : publish(q, a)
    \/ \E q \in Calls : produce(q)
    \/ shutdown \/ OtherProducer

\* The executor runs the handlers and tasks that have begun; the RPC to the
\* actor has a time limit.
Fairness ==
    \A c \in Consumers :
        /\ WF_vars(spawn(c)) /\ WF_vars(insert(c)) /\ WF_vars(StartLatest(c))
        /\ WF_vars(next(c)) /\ WF_vars(handle_message(c)) /\ WF_vars(Stop(c))

Spec == Init /\ [][Next]_vars /\ Fairness

-----------------------------------------------------------------------------
(* Properties *)

\* Type invariant; a consumer never reads past the end of its partition.
TypeOK ==
    /\ connections \in [Actors -> Consumers \cup {None}]
    /\ consumer \in [Consumers -> Consumer]
    /\ \A c \in Consumers : consumer[c].next <= Len(log) + 1
    /\ aborted \subseteq Consumers
    /\ log \in Seq({"value", "tombstone"}) /\ Len(log) <= MaxLog
    /\ call \in [Calls -> Call]

\* Whatever put_link, delete_link and shutdown interleave: the handle in the map
\* belongs to the actor it is filed under and nobody has aborted it, so that the
\* task of a link that stands is never the one that gets stopped; and a task
\* that runs is in the map, about to enter it, told to stop, or was replaced by
\* a later put_link of its actor, which only drops the handle (main.rs 143-150
\* and 169-192).
TasksAccounted ==
    /\ TypeOK
    /\ \A a \in Actors : connections[a] # None =>
         /\ consumer[connections[a]].actor = a /\ connections[a] \notin aborted
         /\ consumer[connections[a]].mapped = "mapped"
    /\ \A c \in Consumers :
         Live(c) /\ consumer[c].mapped = "mapped" /\ c \notin aborted =>
             connections[consumer[c].actor] = c
    /\ \A c \in aborted : consumer[c].mapped # "not yet"

\* A task taken out of the map by delete_link or shutdown stops handing
\* records to its actor, even one that is in the middle of handling one.
UnlinkedStops ==
    \A c \in Consumers :
        consumer[c].mapped = "mapped" /\ connections[consumer[c].actor] # c
          ~> consumer[c].stage = "ended"

\* A consumer that is left alone takes every record of its partition in the
\* end, or has met a record without a value or an error of the stream.
RecordsTaken ==
    \A c \in Consumers, i \in 1..MaxLog :
        Live(c) /\ consumer[c].next = i /\ i \in DOMAIN log
          ~> consumer[c].next > i \/ consumer[c].stage = "ended"
=============================================================================
