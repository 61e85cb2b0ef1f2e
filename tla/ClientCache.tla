---------------------------- MODULE ClientCache ----------------------------
(***************************************************************************)
(* The lattice controller's cache of control-interface clients             *)
(* (lattice-controller/src/client_cache.rs): credentials per lattice in    *)
(* one map, connected clients in another, each behind an RwLock of its own *)
(* that is let go between any two steps, and a timer that evacuates the    *)
(* clients whose credentials were not used for a period.  Every operation  *)
(* of the provider but set_lattice_credentials gets a client here and      *)
(* sends one control request through it.                                   *)
(*                                                                         *)
(* Credentials are versions 1, 2, ... of a lattice; a client is the        *)
(* version it was connected with.  remove_config is left out: only a test  *)
(* calls it.                                                               *)
(***************************************************************************)
EXTENDS Naturals

CONSTANTS
    Lattices,
    Operations,    \* bound: operations of one behaviour
    LatticeOf,     \* the lattice a call is about
    MaxVersions,   \* bound: set_lattice_credentials calls per lattice
    Period         \* the expiration period, in ticks of the clock

ASSUME CacheAssumption ==
    /\ LatticeOf \in [Operations -> Lattices]
    /\ MaxVersions \in Nat \ {0} /\ Period \in Nat \ {0}

VARIABLES
    meta,       \* lattice -> version (0: none) and time since the last access
    clients,    \* lattice -> version of the connected client, 0: none
    operation,  \* operations at work
    timer,      \* ticks since the interval last fired
    evacuating, \* expired_keys, while the task waits for the client map
    given,      \* ghost: credentials given for the lattice so far
    latest      \* ghost: the newest ones when a call began

cvars == <<meta, clients, operation, timer, evacuating, given, latest>>

Versions == 0..MaxVersions
Idle == [on |-> FALSE, expired_keys |-> {}]

CInit ==
    /\ meta = [l \in Lattices |-> [version |-> 0, age |-> 0]]
    /\ clients = [l \in Lattices |-> 0]
    /\ operation = [q \in Operations |-> [pc |-> "none", version |-> 0, created |-> FALSE]]
    /\ timer = 0
    /\ evacuating = Idle
    /\ given = [l \in Lattices |-> 0]
    /\ latest = [q \in Operations |-> 0]

-----------------------------------------------------------------------------
(* The provider's operations. *)

MutOrInsert(l) ==
    /\ given[l] < MaxVersions
    /\ given' = [given EXCEPT ![l] = @ + 1]
    /\ meta' = IF meta[l].version = 0 THEN [meta EXCEPT ![l] = [version |-> 1, age |-> 0]]
               ELSE [meta EXCEPT ![l].age = 0]
    /\ UNCHANGED <<clients, operation, timer, evacuating, latest>>

\* set_lattice_credentials.
put_config(l) ==
    /\ given[l] < MaxVersions
    /\ given' = [given EXCEPT ![l] = @ + 1]
    /\ meta' = [meta EXCEPT ![l] = [version |-> given'[l], age |-> 0]]
    /\ UNCHANGED <<clients, operation, timer, evacuating, latest>>

\* An operation begins: get_client looks into the client map.
get_client(q) ==
    LET l == LatticeOf[q] IN
    /\ operation[q].pc = "none"
    /\ operation' = [operation EXCEPT ![q] =
                  [pc |-> IF clients[l] # 0 THEN "hit" ELSE "miss",
                   version |-> clients[l], created |-> FALSE]]
    /\ latest' = [latest EXCEPT ![q] = given[l]]
    /\ UNCHANGED <<meta, clients, timer, evacuating, given>>

record_access(q) ==
    LET l == LatticeOf[q] IN
    /\ operation[q].pc = "hit"
    /\ meta' = [meta EXCEPT ![l].age = 0]
    /\ operation' = [operation EXCEPT ![q].pc = "operating"]
    /\ UNCHANGED <<clients, timer, evacuating, given, latest>>

\* The credentials are copied out of the map, or there are none: no fallback.
read_config(q) ==
    LET l == LatticeOf[q] IN
    /\ operation[q].pc = "miss"
    /\ operation' = [operation EXCEPT ![q].version = meta[l].version,
                  ![q].pc = IF meta[l].version = 0 THEN "failed" ELSE "connecting"]
    /\ UNCHANGED <<meta, clients, timer, evacuating, given, latest>>

create_client(q) ==
    /\ operation[q].pc = "connecting"
    /\ \E connected \in BOOLEAN :
         operation' = [operation EXCEPT ![q].pc = IF connected THEN "storing" ELSE "failed"]
    /\ UNCHANGED <<meta, clients, timer, evacuating, given, latest>>

\* The access is not recorded, and a client stored meanwhile is replaced.
store_client(q) ==
    /\ operation[q].pc = "storing"
    /\ clients' = [clients EXCEPT ![LatticeOf[q]] = operation[q].version]
    /\ operation' = [operation EXCEPT ![q].pc = "operating", ![q].created = TRUE]
    /\ UNCHANGED <<meta, timer, evacuating, given, latest>>

\* One request through the client, which the call has cloned; its result or
\* its error goes back to the actor.
operate(q, results) ==
    /\ operation[q].pc = "operating"
    /\ \E result \in results \cup {"failed"} :
         operation' = [operation EXCEPT ![q] = [pc |-> result, version |-> 0, created |-> FALSE]]
    /\ latest' = [latest EXCEPT ![q] = 0]
    /\ UNCHANGED <<meta, clients, timer, evacuating, given>>

\* The auctions, put_registries and the get_ operations.
query(q) == operate(q, {"done"})

\* start_actor, stop_host, ...: the lattice accepts the command or says why not.
command(q) == operate(q, {"done", "rejected"})

-----------------------------------------------------------------------------
(* The clock and the expiration task. *)

Older(n) == IF n > Period THEN n ELSE n + 1

Tick ==
    /\ timer' = IF timer < Period THEN timer + 1 ELSE timer
    /\ meta' = [l \in Lattices |-> [meta[l] EXCEPT !.age = Older(@)]]
    /\ UNCHANGED <<clients, operation, evacuating, given, latest>>

MutWithinPeriod ==
    /\ timer = Period /\ ~evacuating.on
    /\ timer' = 0
    /\ evacuating' = [on |-> TRUE,
          expired_keys |-> {l \in Lattices : meta[l].version # 0 /\ meta[l].age < Period}]
    /\ UNCHANGED <<meta, clients, operation, given, latest>>

\* The interval fires: the keys that have expired are collected ...
expired_keys ==
    /\ timer = Period /\ ~evacuating.on
    /\ timer' = 0
    /\ evacuating' = [on |-> TRUE,
          expired_keys |-> {l \in Lattices : meta[l].version # 0 /\ meta[l].age > Period}]
    /\ UNCHANGED <<meta, clients, operation, given, latest>>

\* ... and then removed from the clients, whatever was used since.
evacuate_cache ==
    /\ evacuating.on
    /\ clients' = [l \in Lattices |-> IF l \in evacuating.expired_keys THEN 0 ELSE clients[l]]
    /\ evacuating' = Idle
    /\ UNCHANGED <<meta, operation, timer, given, latest>>

-----------------------------------------------------------------------------
CNext ==
    \/ \E l \in Lattices : put_config(l)
    \/ \E q \in Operations : \/ get_client(q) \/ record_access(q) \/ read_config(q)
                             \/ create_client(q) \/ store_client(q)
                             \/ query(q) \/ command(q)
    \/ Tick \/ expired_keys \/ evacuate_cache

\* Time passes, the timer task runs, and operations that have begun go on;
\* connecting and the control request have time limits.
Fairness ==
    /\ WF_cvars(Tick) /\ WF_cvars(expired_keys) /\ WF_cvars(evacuate_cache)
    /\ \A q \in Operations : WF_cvars(\/ record_access(q) \/ read_config(q)
                                      \/ create_client(q) \/ store_client(q)
                                      \/ query(q) \/ command(q))

CSpec == CInit /\ [][CNext]_cvars /\ Fairness

-----------------------------------------------------------------------------
(* Properties *)

\* Type invariant; no client is connected with credentials nobody has stored.
CTypeOK ==
    /\ meta \in [Lattices -> [version : Versions, age : 0..(Period + 1)]]
    /\ clients \in [Lattices -> Versions]
    /\ \A l \in Lattices : clients[l] <= meta[l].version
    /\ operation \in [Operations -> [pc : {"none", "hit", "miss", "connecting", "storing",
                                           "operating", "done", "rejected", "failed"},
                                     version : Versions, created : BOOLEAN]]
    /\ timer \in 0..Period
    /\ evacuating \in [on : BOOLEAN, expired_keys : SUBSET Lattices]
    /\ given \in [Lattices -> Versions] /\ latest \in [Operations -> Versions]

\* "stores them in the cache to be used to create a connection in the next
\* operation that requires one" (main.rs 107-108): an operation that makes its
\* own connection uses credentials no older than those stored when it began,
\* and no operation goes ahead without stored credentials ("will _not_ resort
\* to fallback credentials", client_cache.rs 92-93), however it interleaves
\* with set_lattice_credentials, evacuation and other operations.
FreshOnCreate ==
    /\ CTypeOK
    /\ \A q \in Operations :
         operation[q].pc = "operating"
           => /\ operation[q].version > 0
              /\ operation[q].created => operation[q].version >= latest[q]

\* A lattice nobody works on loses its client, so that credentials replaced
\* while it was cached cannot be used for ever: also when the client was
\* stored, or the credentials touched, between the two halves of evacuate_cache.
IdleEvacuated == \A l \in Lattices : clients[l] # 0 ~> clients[l] = 0
=============================================================================
