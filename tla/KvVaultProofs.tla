--------------------------- MODULE KvVaultProofs ---------------------------
(* For every number of actors, links and requests at work: how long the     *)
(* clients of KvVault renew their tokens, and what get answers with.        *)
EXTENDS KvVault, TLAPS

\* A client is somebody's from put_link on.
ActorsKnown ==
    \A c \in Clients : client[c].stage \in {"starting", "inserted"} => client[c].actor \in Actors

\* The map and the calls share only clients that have been in the map.
SharedInserted ==
    /\ \A a \in Actors : actors[a] # None => client[actors[a]].stage = "inserted"
    /\ \A q \in Calls : call[q] # None => client[call[q]].stage = "inserted"

\* Drop has run only for clients nobody has any more.
AbortedGone ==
    \A c \in aborted : client[c].stage = "inserted" /\ ~Held(c)

\* A renewal task ends only by Drop, or because its interval is zero.
TaskEnds ==
    \A c \in Clients : client[c].task = "ended" => c \in aborted \/ client[c].interval = "zero"

\* The inductive invariant.
IInv == TypeOK /\ ActorsKnown /\ SharedInserted /\ AbortedGone /\ TaskEnds

\* A provider that starts, with no client, satisfies it.
LEMMA InitIInv == Init => IInv
  <1> SUFFICES ASSUME Init PROVE IInv
    OBVIOUS
  <1>1. TypeOK
    BY DEF Init, TypeOK, Client
  <1>2. ActorsKnown /\ SharedInserted /\ AbortedGone /\ TaskEnds
    BY DEF Init, ActorsKnown, SharedInserted, AbortedGone, TaskEnds
  <1> QED BY <1>1, <1>2 DEF IInv

\* Arcs are handed on or given up: what remains in the map and with the calls
\* has been inserted and was not dropped before, and Drop aborts the rest.
LEMMA HoldersStep ==
    ASSUME IInv, Drop,
           actors' \in [Actors -> Clients \cup {None}], call' \in [Calls -> Clients \cup {None}],
           client' \in [Clients -> Client],
           \A c \in Clients :
             /\ client'[c].actor = client[c].actor /\ client'[c].task = client[c].task
             /\ client'[c].interval = client[c].interval
             /\ \/ client'[c].stage = client[c].stage
                \/ client[c].stage = "starting" /\ client'[c].stage = "inserted",
           \A a \in Actors : actors'[a] # None =>
             client'[actors'[a]].stage = "inserted" /\ actors'[a] \notin aborted,
           \A q \in Calls : call'[q] # None =>
             client'[call'[q]].stage = "inserted" /\ call'[q] \notin aborted,
           secret' \in Secrets \cup {None}, text' \in Texts \cup {None}
    PROVE  IInv'
  <1>1. aborted \subseteq Clients /\ None \notin Clients
    BY VaultAssumption DEF IInv, TypeOK
  <1>2. aborted' = aborted \cup {c \in Clients : Held(c) /\ ~Held(c)'}
    BY DEF Drop
  <1>3. \A c \in Clients : client[c].stage = "inserted" => client'[c].stage = "inserted"
    OBVIOUS
  <1>4. TypeOK'
    BY <1>1, <1>2 DEF IInv, TypeOK
  <1>5. ActorsKnown'
    BY DEF IInv, ActorsKnown
  <1>6. SharedInserted'
    BY DEF SharedInserted
  <1>7. AbortedGone'
    <2> SUFFICES ASSUME NEW c \in aborted' PROVE client'[c].stage = "inserted" /\ ~Held(c)'
      BY DEF AbortedGone
    <2>1. CASE c \in aborted
      <3>1. c \in Clients /\ client'[c].stage = "inserted" /\ c # None
        BY <1>1, <1>3, <2>1 DEF IInv, AbortedGone
      <3> QED BY <2>1, <3>1 DEF Held
    <2>2. CASE c \in Clients /\ Held(c) /\ ~Held(c)'
      <3>1. client[c].stage \in {"starting", "inserted"}
        BY <1>1, <2>2 DEF Held, IInv, SharedInserted
      <3> QED BY <1>3, <2>2, <3>1 DEF Held
    <2> QED BY <1>2, <2>1, <2>2
  <1>8. TaskEnds'
    BY <1>2 DEF IInv, TaskEnds
  <1> QED BY <1>4, <1>5, <1>6, <1>7, <1>8 DEF IInv

\* A step of a renewal task, which shares no Client.
LEMMA TaskStep ==
    ASSUME IInv, NEW c \in Clients, NEW task, Becomes(c, task),
           task \in {"spawned", "ticking", "renewing", "ended"},
           task = "ended" => c \in aborted \/ client[c].interval = "zero"
    PROVE  IInv'
  <1>1. client \in [Clients -> Client] /\ aborted \subseteq Clients
    BY DEF IInv, TypeOK
  <1>2. /\ client' \in [Clients -> Client] /\ client'[c].task = task
        /\ \A d \in Clients : /\ client'[d].stage = client[d].stage
                              /\ client'[d].actor = client[d].actor
                              /\ client'[d].interval = client[d].interval
                              /\ d # c => client'[d].task = client[d].task
        /\ UNCHANGED <<actors, aborted, call, secret, text>>
    BY <1>1 DEF Becomes, Client
  <1>3. TypeOK'
    BY <1>2 DEF IInv, TypeOK
  <1>4. ActorsKnown' /\ TaskEnds'
    BY <1>2 DEF IInv, ActorsKnown, TaskEnds
  <1>5. SharedInserted'
    BY <1>2, VaultAssumption DEF IInv, SharedInserted, TypeOK
  <1>6. AbortedGone'
    BY <1>1, <1>2 DEF IInv, AbortedGone, Held
  <1> QED BY <1>3, <1>4, <1>5, <1>6 DEF IInv

\* put_link: the new client is put_link's own until it is inserted.
LEMMA PutLinkStep ==
    ASSUME IInv, NEW c \in Clients, NEW a \in Actors, put_link(c, a)
    PROVE  IInv'
  <1>1. /\ client \in [Clients -> Client] /\ aborted \subseteq Clients
        /\ actors \in [Actors -> Clients \cup {None}] /\ call \in [Calls -> Clients \cup {None}]
    BY DEF IInv, TypeOK
  <1>2. /\ client[c].stage = "unused" /\ actors' = actors /\ aborted' = aborted
        /\ call' = call /\ secret' = secret /\ text' = text
    BY DEF put_link
  <1>3. /\ client' \in [Clients -> Client]
        /\ \A d \in Clients : d # c => client'[d] = client[d]
        /\ \/ /\ client'[c].stage = "starting" /\ client'[c].actor = a
              /\ client'[c].task = "spawned"
           \/ /\ client'[c].stage = "refused" /\ client'[c].task = client[c].task
              /\ client'[c].interval = client[c].interval
    <2>1. PICK period \in from_values :
             \/ period # "error" /\ client' = [client EXCEPT ![c] = new(a, period)]
             \/ client' = [client EXCEPT ![c].stage = "refused"]
      BY DEF put_link
    <2> QED BY <1>1, <2>1 DEF from_values, new, Client
  <1>4. c \notin aborted /\ (\A b \in Actors : actors[b] # c) /\ \A q \in Calls : call[q] # c
    BY <1>2, VaultAssumption DEF IInv, AbortedGone, SharedInserted
  <1>5. TypeOK'
    BY <1>2, <1>3 DEF IInv, TypeOK
  <1>6. ActorsKnown' /\ TaskEnds'
    BY <1>2, <1>3 DEF IInv, ActorsKnown, TaskEnds
  <1>7. SharedInserted'
    BY <1>1, <1>2, <1>3, <1>4 DEF IInv, SharedInserted
  <1>8. AbortedGone'
    BY <1>1, <1>2, <1>3, <1>4 DEF IInv, AbortedGone, Held
  <1> QED BY <1>5, <1>6, <1>7, <1>8 DEF IInv

\* Every handler, every step of a renewal task and every request keeps the
\* invariant.
LEMMA IInvStep == IInv /\ [Next]_vars => IInv'
  <1> SUFFICES ASSUME IInv, [Next]_vars PROVE IInv'
    OBVIOUS
  <1>1. /\ client \in [Clients -> Client] /\ None \notin Clients
        /\ actors \in [Actors -> Clients \cup {None}] /\ call \in [Calls -> Clients \cup {None}]
        /\ secret \in Secrets \cup {None} /\ text \in Texts \cup {None}
    BY VaultAssumption DEF IInv, TypeOK
  <1>2. /\ \A a \in Actors : actors[a] # None =>
             client[actors[a]].stage = "inserted" /\ actors[a] \notin aborted
        /\ \A q \in Calls : call[q] # None =>
             client[call[q]].stage = "inserted" /\ call[q] \notin aborted
    BY DEF IInv, SharedInserted, AbortedGone, Held
  <1>3. ASSUME NEW c \in Clients, insert(c) PROVE IInv'
    <2>1. client[c].stage = "starting" /\ client[c].actor \in Actors /\ c \notin aborted
      BY <1>3 DEF insert, IInv, ActorsKnown, AbortedGone
    <2>2. /\ client' = [client EXCEPT ![c].stage = "inserted"]
          /\ actors' = [actors EXCEPT ![client[c].actor] = c]
          /\ call' = call /\ secret' = secret /\ text' = text /\ Drop
      BY <1>3 DEF insert
    <2>3. /\ client' \in [Clients -> Client] /\ client'[c].stage = "inserted"
          /\ \A d \in Clients : /\ client'[d].actor = client[d].actor
                                /\ client'[d].task = client[d].task
                                /\ client'[d].interval = client[d].interval
                                /\ d # c => client'[d].stage = client[d].stage
      BY <1>1, <2>2 DEF Client
    <2>4. \A d \in Clients : client[d].stage = "inserted" => client'[d].stage = "inserted"
      BY <2>3
    <2>5. /\ actors' \in [Actors -> Clients \cup {None}]
          /\ \A a \in Actors : actors'[a] \in {actors[a], c}
      BY <1>1, <2>2
    <2>6. \A a \in Actors : actors'[a] # None =>
             client'[actors'[a]].stage = "inserted" /\ actors'[a] \notin aborted
      BY <1>1, <1>2, <2>1, <2>3, <2>4, <2>5
    <2>7. \A q \in Calls : call'[q] # None =>
             client'[call'[q]].stage = "inserted" /\ call'[q] \notin aborted
      BY <1>1, <1>2, <2>2, <2>4
    <2> QED BY <1>1, <2>1, <2>2, <2>3, <2>5, <2>6, <2>7, HoldersStep
  <1>4. ASSUME Drop, client' = client,
               actors' \in [Actors -> Clients \cup {None}], call' \in [Calls -> Clients \cup {None}],
               \A a \in Actors : actors'[a] \in {actors[a], None},
               \A q \in Calls : call'[q] \in {call[q], None},
               secret' \in Secrets \cup {None}, text' \in Texts \cup {None}
        PROVE  IInv'
    BY <1>1, <1>2, <1>4, HoldersStep
  <1>5. ASSUME NEW a \in Actors, delete_link(a) PROVE IInv'
    <2>1. /\ actors' = [actors EXCEPT ![a] = None] /\ client' = client /\ call' = call
          /\ secret' = secret /\ text' = text /\ Drop
      BY <1>5 DEF delete_link
    <2> QED BY <1>1, <1>4, <2>1
  <1>6. CASE shutdown
    <2>1. /\ actors' = [a \in Actors |-> None] /\ client' = client /\ call' = call
          /\ secret' = secret /\ text' = text /\ Drop
      BY <1>6 DEF shutdown
    <2> QED BY <1>1, <1>4, <2>1
  <1>7. ASSUME NEW q \in Calls, Return(q), secret' \in Secrets \cup {None},
               text' \in Texts \cup {None}
        PROVE  IInv'
    <2>1. /\ call' = [call EXCEPT ![q] = None] /\ client' = client /\ actors' = actors /\ Drop
      BY <1>7 DEF Return
    <2> QED BY <1>1, <1>4, <1>7, <2>1
  <1>8. ASSUME NEW q \in Calls, set(q) \/ del(q) \/ get(q) PROVE IInv'
    <2>1. \A t \in Texts : set_value(t) \in Secrets
      BY DEF Texts, Secrets, set_value
    <2>2. secret' \in Secrets \cup {None} /\ text' \in Texts \cup {None} /\ Return(q)
      BY <1>1, <1>8, <2>1 DEF set, del, get
    <2> QED BY <1>7, <2>2
  <1>9. ASSUME NEW q \in Calls, NEW a \in Actors, get_client(q, a) PROVE IInv'
    <2>1. /\ actors[a] # None /\ call' = [call EXCEPT ![q] = actors[a]]
          /\ actors' = actors /\ client' = client /\ aborted' = aborted
          /\ secret' = secret /\ text' = text
      BY <1>9 DEF get_client
    <2>2. /\ call' \in [Calls -> Clients \cup {None}]
          /\ \A r \in Calls : call'[r] \in {call[r], actors[a]}
          /\ \A r \in Calls : r # q => call'[r] = call[r]
      BY <1>1, <2>1
    <2>3. call[q] = None
      BY <1>9 DEF get_client
    <2>4. Drop
      <3>1. \A c \in Clients : Held(c) => Held(c)'
        BY <1>1, <2>1, <2>2, <2>3 DEF Held
      <3> QED BY <2>1, <3>1 DEF Drop
    <2>5. \A r \in Calls : call'[r] # None =>
             client'[call'[r]].stage = "inserted" /\ call'[r] \notin aborted
      BY <1>2, <2>1, <2>2
    <2> QED BY <1>1, <1>2, <2>1, <2>2, <2>4, <2>5, HoldersStep
  <1>10. ASSUME NEW c \in Clients, interval(c) \/ tick(c) \/ renew_self(c) \/ Stop(c) PROVE IInv'
    <2>1. CASE interval(c)
      <3> DEFINE task == IF client[c].interval = "zero" THEN "ended" ELSE "ticking"
      <3>1. Becomes(c, task)
        BY <2>1 DEF interval
      <3>2. task = "ended" => client[c].interval = "zero"
        OBVIOUS
      <3>3. task \in {"spawned", "ticking", "renewing", "ended"}
        OBVIOUS
      <3> HIDE DEF task
      <3> QED BY <3>1, <3>2, <3>3, TaskStep
    <2>2. CASE tick(c)
      BY <2>2, TaskStep DEF tick
    <2>3. CASE renew_self(c)
      BY <2>3, TaskStep DEF renew_self
    <2>4. CASE Stop(c)
      BY <2>4, TaskStep DEF Stop
    <2> QED BY <1>10, <2>1, <2>2, <2>3, <2>4
  <1>11. CASE UNCHANGED vars
    <2>1. /\ actors' = actors /\ client' = client /\ aborted' = aborted /\ call' = call
          /\ secret' = secret /\ text' = text
      BY <1>11 DEF vars
    <2>2. Drop
      BY <2>1 DEF Drop, Held
    <2> QED BY <1>1, <1>4, <2>1, <2>2
  <1> QED BY <1>3, <1>5, <1>6, <1>8, <1>9, <1>10, <1>11, PutLinkStep DEF Next

\* The invariant holds throughout.
LEMMA Invariance == Spec => []IInv
  <1> QED BY InitIInv, IInvStep, PTL DEF Spec

\* While an actor is linked, or a call it made is at work, Drop has not run for
\* its client and the token is being renewed (or its interval is zero): for any
\* number of links, calls and failed renewals.
THEOREM LinkedClientsRenew == Spec => []LinkedRenews
  <1>1. IInv => LinkedRenews
    BY DEF IInv, LinkedRenews, AbortedGone, TaskEnds
  <1> QED BY Invariance, <1>1, PTL

-----------------------------------------------------------------------------
(* What Vault holds is what set made of the last text. *)

StoreAgrees == text = None \/ (text \in Texts /\ secret = set_value(text))

\* Every request keeps the two together, and nothing else touches them.
LEMMA StoreStep == StoreAgrees /\ [Next]_vars => StoreAgrees'
  <1> SUFFICES ASSUME StoreAgrees, [Next]_vars PROVE StoreAgrees'
    OBVIOUS
  <1>1. CASE UNCHANGED <<secret, text>>
    BY <1>1 DEF StoreAgrees
  <1>2. ASSUME NEW q \in Calls, set(q) PROVE StoreAgrees'
    BY <1>1, <1>2 DEF set, StoreAgrees
  <1>3. ASSUME NEW q \in Calls, del(q) PROVE StoreAgrees'
    BY <1>1, <1>3 DEF del, StoreAgrees
  <1>4. UNCHANGED <<secret, text>> \/ \E q \in Calls : set(q) \/ del(q)
    BY DEF Next, vars, put_link, insert, delete_link, shutdown, Becomes, interval, tick,
           renew_self, Stop, get_client, get
  <1> QED BY <1>1, <1>2, <1>3, <1>4

\* get undoes set for plain text, objects and other JSON.
LEMMA GetUndoesSet ==
    ASSUME NEW t \in Texts \ {"json string", "json object with the marker"}
    PROVE  set_value(t) \in Secrets /\ get_value(set_value(t)) = t
  BY DEF Texts, Secrets, set_value, get_value

\* get answers with the text that was set last, by whomever and whatever was
\* refused in between, except for the two kinds of text set does not keep.
THEOREM GetAnswersTheLastSet == Spec => []GetReturnsSet
  <1>1. Init => StoreAgrees
    BY DEF Init, StoreAgrees
  <1>2. StoreAgrees => GetReturnsSet
    BY GetUndoesSet, VaultAssumption DEF StoreAgrees, GetReturnsSet
  <1> QED BY <1>1, <1>2, StoreStep, PTL DEF Spec
=============================================================================
