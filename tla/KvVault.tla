------------------------------ MODULE KvVault ------------------------------
(***************************************************************************)
(* The Vault key-value provider (kv-vault/src/main.rs, client.rs): one     *)
(* Client per linked actor, shared through an Arc by the map and by every  *)
(* call at work, with a task of its own that renews the Vault token.  The  *)
(* task is aborted when the last Arc is dropped; it holds the inner        *)
(* connection only, never the Client.                                      *)
(*                                                                         *)
(* Values are JSON in Vault and text to the actors: set parses the text    *)
(* and wraps what is not JSON, get undoes it.  The store is one key.       *)
(*                                                                         *)
(* External: Vault executes a request or fails; an aborted task stops at   *)
(* some later await; tokio's interval panics on a period of zero.          *)
(***************************************************************************)
EXTENDS Naturals

CONSTANTS
    Actors,
    Clients,   \* bound: one per put_link call
    Calls,     \* requests at work at the same time
    None

VARIABLES
    actors,    \* the map: actor -> client, or None
    client,    \* every Client, from its put_link call on
    aborted,   \* clients whose renew_task was aborted by Drop
    call,      \* requests: the client each one holds
    secret,    \* what Vault holds under the key
    text       \* ghost: the text that was set last, None if the key was deleted

vars == <<actors, client, aborted, call, secret, text>>

Texts == {"plain", "json string", "json object", "json object with the marker",
          "other json"}
Secrets == {"string", "object", "object with the marker", "other"}
Client == [stage : {"unused", "starting", "inserted", "refused"}, actor : Actors \cup {None},
           interval : {"zero", "positive"},
           task : {"none", "spawned", "ticking", "renewing", "ended"}]

\* None is Option::None: no client, and nothing that is in Vault.
ASSUME VaultAssumption == None \notin Clients \cup Secrets

Init ==
    /\ actors = [a \in Actors |-> None]
    /\ client = [c \in Clients |-> [stage |-> "unused", actor |-> None,
                                    interval |-> "positive", task |-> "none"]]
    /\ aborted = {}
    /\ call = [q \in Calls |-> None]
    /\ secret = None
    /\ text = None

-----------------------------------------------------------------------------
(* Who holds a Client, and what dropping it does. *)

Held(c) == \/ client[c].stage = "starting"
           \/ \E a \in Actors : actors[a] = c
           \/ \E q \in Calls : call[q] = c

\* Drop runs in the step that gives up the last Arc.
Drop == aborted' = aborted \cup {c \in Clients : Held(c) /\ ~Held(c)'}

-----------------------------------------------------------------------------
(* Link handlers. *)

\* The refresh interval of a configuration, or an error: no token, no env file.
from_values == {"zero", "positive", "error"}

new(a, period) == [stage |-> "starting", actor |-> a, interval |-> period,
                   task |-> "spawned"]

\* from_values, Client::new and set_renewal; a configuration error, or a bad
\* certificate in Client::new, ends put_link with an error.
put_link(c, a) ==
    /\ client[c].stage = "unused"
    /\ \E period \in from_values :
        \/ /\ period # "error"
           /\ client' = [client EXCEPT ![c] = new(a, period)]
        \/ client' = [client EXCEPT ![c].stage = "refused"]
    /\ UNCHANGED <<actors, aborted, call, secret, text>>

insert(c) ==
    /\ client[c].stage = "starting"
    /\ client' = [client EXCEPT ![c].stage = "inserted"]
    /\ actors' = [actors EXCEPT ![client[c].actor] = c]
    /\ UNCHANGED <<call, secret, text>>
    /\ Drop

delete_link(a) ==
    /\ actors[a] # None
    /\ actors' = [actors EXCEPT ![a] = None]
    /\ UNCHANGED <<client, call, secret, text>>
    /\ Drop

shutdown ==
    /\ \E a \in Actors : actors[a] # None
    /\ actors' = [a \in Actors |-> None]
    /\ UNCHANGED <<client, call, secret, text>>
    /\ Drop

-----------------------------------------------------------------------------
(* The renewal task. *)

Becomes(c, task) ==
    /\ client' = [client EXCEPT ![c].task = task]
    /\ UNCHANGED <<actors, aborted, call, secret, text>>

\* tokio::time::interval.
interval(c) ==
    /\ client[c].task = "spawned"
    /\ Becomes(c, IF client[c].interval = "zero" THEN "ended" ELSE "ticking")

tick(c) == client[c].task = "ticking" /\ Becomes(c, "renewing")

MutRenewStops(c) ==
    /\ client[c].task = "renewing"
    /\ Becomes(c, "ticking") \/ Becomes(c, "ended")

\* Renewed, or an error that is logged: the loop goes on.
renew_self(c) == client[c].task = "renewing" /\ Becomes(c, "ticking")

Stop(c) ==
    /\ c \in aborted /\ client[c].task \in {"spawned", "ticking", "renewing"}
    /\ Becomes(c, "ended")

-----------------------------------------------------------------------------
(* The KeyValue methods. *)

MutSetValue(t) == IF t = "json object" THEN "object" ELSE "object with the marker"

\* set: what is written for a text.
set_value(t) == CASE t = "plain" -> "object with the marker"
                  [] t = "json string" -> "string"
                  [] t = "json object" -> "object"
                  [] t = "json object with the marker" -> "object with the marker"
                  [] t = "other json" -> "other"

\* get: the text for what was read.
get_value(s) == CASE s = "object with the marker" -> "plain"
                  [] s = "object" -> "json object"
                  [] s = "string" -> "plain"
                  [] s = "other" -> "other json"

\* The Arc is cloned under the read lock.
get_client(q, a) ==
    /\ call[q] = None /\ actors[a] # None
    /\ call' = [call EXCEPT ![q] = actors[a]]
    /\ UNCHANGED <<actors, client, aborted, secret, text>>

MutReturnKeeps(q) ==
    /\ call[q] # None
    /\ call' = [call EXCEPT ![q] = None]
    /\ UNCHANGED <<actors, client, aborted>>

\* The request is over and the Arc dropped.
Return(q) ==
    /\ call[q] # None
    /\ call' = [call EXCEPT ![q] = None]
    /\ UNCHANGED <<actors, client>>
    /\ Drop

\* Written, or refused by Vault.
set(q) ==
    /\ Return(q)
    /\ \/ \E t \in Texts : text' = t /\ secret' = set_value(t)
       \/ UNCHANGED <<secret, text>>

del(q) ==
    /\ Return(q)
    /\ \/ secret' = None /\ text' = None
       \/ UNCHANGED <<secret, text>>

\* get, contains and set_query read only.
get(q) == Return(q) /\ UNCHANGED <<secret, text>>

-----------------------------------------------------------------------------
Next ==
    \/ \E c \in Clients : \/ \E a \in Actors : put_link(c, a)
                          \/ insert(c) \/ interval(c) \/ tick(c) \/ renew_self(c) \/ Stop(c)
    \/ \E a \in Actors : delete_link(a) \/ \E q \in Calls : get_client(q, a)
    \/ \E q \in Calls : set(q) \/ del(q) \/ get(q)
    \/ shutdown

\* The executor runs what is spawned.  A request to Vault has no time limit
\* (client.rs 45): it need not end, and neither need a renewal.
Fairness ==
    \A c \in Clients : WF_vars(insert(c)) /\ WF_vars(interval(c)) /\ WF_vars(Stop(c))

Spec == Init /\ [][Next]_vars /\ Fairness

-----------------------------------------------------------------------------
(* Properties *)

\* Type invariant; a client that is there has had its renewal task.
TypeOK ==
    /\ actors \in [Actors -> Clients \cup {None}]
    /\ client \in [Clients -> Client]
    /\ \A c \in Clients : client[c].stage \in {"starting", "inserted"}
                             => client[c].task # "none"
    /\ aborted \subseteq Clients
    /\ call \in [Calls -> Clients \cup {None}]
    /\ secret \in Secrets \cup {None} /\ text \in Texts \cup {None}

\* While an actor is linked, or a call it made is at work, the token is being
\* renewed, whatever was put, deleted or shut down next to it and however many
\* renewals have failed; unless the interval is zero.
LinkedRenews ==
    /\ TypeOK
    /\ \A c \in Clients : Held(c) =>
         /\ c \notin aborted
         /\ client[c].task # "ended" \/ client[c].interval = "zero"

\* Once the link is gone and the last call that used its client has returned,
\* the renewals stop, also for a client that a new link has replaced.
RenewalStops ==
    \A c \in Clients :
        client[c].stage = "inserted" /\ ~Held(c) ~> client[c].task = "ended"

\* get answers with the text that was set last, by whomever, except for a JSON
\* string, which loses its quotes, and an object that has the marker itself.
GetReturnsSet ==
    text \notin {None, "json string", "json object with the marker"}
      => secret # None /\ get_value(secret) = text
=============================================================================
