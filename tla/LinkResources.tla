--------------------------- MODULE LinkResources ---------------------------
(***************************************************************************)
(* What every provider promises about the resource it holds for a link     *)
(* (a listener, a set of subscriptions, a consumer, a renewal task), as    *)
(* its users see it: put_link opens one and makes it the actor's current   *)
(* one, whatever it replaces is closed, delete_link and shutdown close the *)
(* current one, and nothing that is neither current nor being opened stays *)
(* open.  An abstract specification: HttpServer, NatsMessaging,            *)
(* SqlPostgres and DynamoDb implement it.                                  *)
(***************************************************************************)
CONSTANTS
    Actors,
    Resources,   \* one identity per put_link call
    NoResource   \* not one of the resources

VARIABLES
    current,   \* actor -> the resource its link holds, or NoResource
    phase,     \* resource -> unused, opening, open, closing, closed
    owner      \* resource -> the actor it was opened for (NoResource: none yet)

lvars == <<current, phase, owner>>

Phases == {"unused", "opening", "open", "closing", "closed"}

LInit ==
    /\ current = [a \in Actors |-> NoResource]
    /\ phase = [r \in Resources |-> "unused"]
    /\ owner = [r \in Resources |-> NoResource]

\* put_link begins: the resource comes up, or cannot be had.
Open(r, a) ==
    /\ phase[r] = "unused"
    /\ \E p \in {"opening", "closed"} : phase' = [phase EXCEPT ![r] = p]
    /\ owner' = [owner EXCEPT ![r] = a]
    /\ UNCHANGED current

\* put_link gives up half way.
GiveUp(r) ==
    /\ phase[r] = "opening"
    /\ phase' = [phase EXCEPT ![r] = "closing"]
    /\ UNCHANGED <<current, owner>>

\* put_link ends: the new resource takes the place of the old one.
Install(r) ==
    LET a == owner[r] IN
    /\ phase[r] = "opening"
    /\ current' = [current EXCEPT ![a] = r]
    /\ phase' = [q \in Resources |->
                   IF q = r THEN "open"
                   ELSE IF q = current[a] THEN "closing" ELSE phase[q]]
    /\ UNCHANGED owner

\* delete_link (one actor) and shutdown (all of them).
Release(A) ==
    /\ current' = [a \in Actors |-> IF a \in A THEN NoResource ELSE current[a]]
    /\ phase' = [q \in Resources |->
                   IF \E a \in A : current[a] = q THEN "closing" ELSE phase[q]]
    /\ UNCHANGED owner

Closed(r) ==
    /\ phase[r] = "closing"
    /\ phase' = [phase EXCEPT ![r] = "closed"]
    /\ UNCHANGED <<current, owner>>

LNext ==
    \/ \E r \in Resources :
         \/ \E a \in Actors : Open(r, a)
         \/ GiveUp(r) \/ Install(r) \/ Closed(r)
    \/ \E A \in SUBSET Actors : Release(A)

LSpec == LInit /\ [][LNext]_lvars
=============================================================================
